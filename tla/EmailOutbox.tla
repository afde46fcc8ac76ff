----------------------------- MODULE EmailOutbox -----------------------------
(***************************************************************************)
(* The e-mail copy of ONE quote message: the message row that tells the    *)
(* users how its delivery went, the outbox row, and whoever tries to send  *)
(* it.                                                                     *)
(*                                                                         *)
(* The automatic sender (the web request itself, or a thread it starts)    *)
(* works on a row nobody has locked.  process_email_outbox locks the row,  *)
(* skips one that is locked, and keeps the lock while the provider is      *)
(* asked.  Neither looks at what the row says when the provider answers.   *)
(***************************************************************************)
EXTENDS Naturals

CONSTANTS
    Crons,         \* runs of process_email_outbox that can overlap
    MaxAttempts,   \* EmailOutbox.MAX_ATTEMPTS
    MaxFaults      \* bound on dead senders and lost answers of the provider

ASSUME EmailOutboxAssumption ==
    /\ MaxAttempts \in Nat \ {0} /\ MaxFaults \in Nat
    /\ "auto" \notin Crons

VARIABLES
    mode,       \* EMAIL_OUTBOX_AUTO_SEND and EMAIL_OUTBOX_SEND_ASYNC
    atomic,     \* create_quote_message is called in a transaction
    stage,      \* how far create_quote_message is
    msg,        \* QuoteRequestMessage.email_status
    row,        \* the EmailOutbox row
    sender,     \* what each sender is doing, and the attempts it has read
    tries,      \* history: calls of the provider
    delivered,  \* history: copies the provider took
    met,        \* history: a command took the row before the automatic sender
                \* was done with it
    faults      \* history: dead senders and lost answers

outboxVars == <<mode, atomic, stage, msg, row, sender, tries, delivered, met, faults>>

Modes    == {"off", "sync", "async"}
Stages   == {"open", "saved", "queued", "closed"}
RowStatuses == {"none", "pending", "sent", "failed", "permanently_failed"}
AutoSender == "auto"
Senders == Crons \cup {AutoSender}
Steps    == {"idle", "starting", "sending", "taken", "refused", "saved_sent", "saved_failed"}

NoRow == [status |-> "none", attempts |-> 0]
Asleep  == [at |-> "idle", attempts |-> 0]
Limit == 2 * MaxAttempts + MaxFaults

\* The rows have the types of their columns, and the lock on the outbox row has
\* one holder.
OutboxTypeOK ==
    /\ mode \in Modes /\ atomic \in BOOLEAN /\ stage \in Stages
    /\ msg \in {"not_sent", "sent", "failed"}
    /\ row \in [status : RowStatuses, attempts : 0 .. MaxAttempts + 1]
    /\ sender \in [Senders -> [at : Steps, attempts : 0 .. MaxAttempts]]
    /\ \A c, d \in Crons : sender[c].at # "idle" /\ sender[d].at # "idle" => c = d
    /\ tries \in 0 .. Limit /\ delivered \in 0 .. Limit
    /\ met \in BOOLEAN /\ faults \in 0 .. MaxFaults

OutboxInit ==
    /\ mode \in Modes /\ atomic \in BOOLEAN
    /\ stage = "open"
    /\ msg = "not_sent"
    /\ row = NoRow
    /\ sender = [s \in Senders |-> Asleep]
    /\ tries = 0 /\ delivered = 0 /\ met = FALSE /\ faults = 0

Working(s) == sender[s].at # "idle"
RowLocked == \E c \in Crons : Working(c)
Goto(s, step) == [sender EXCEPT ![s].at = step]

-----------------------------------------------------------------------------
(***************************************************************************)
(* create_quote_message.                                                   *)
(***************************************************************************)

\* The message is saved; in a transaction, NOT_SENT is saved and all of it
\* committed, before the callback runs.
CreateMessage ==
    /\ stage = "open"
    /\ stage' = "saved"
    /\ UNCHANGED <<mode, atomic, msg, row, sender, tries, delivered, met, faults>>

\* _create_email_outbox_entry: by transaction.on_commit, which outside of a
\* transaction runs it at once.  The automatic sender starts.
Enqueue ==
    /\ stage = "saved"
    /\ stage' = IF atomic THEN "closed" ELSE "queued"
    /\ row' = [NoRow EXCEPT !.status = "pending"]
    /\ sender' = CASE mode = "off"   -> sender
                   [] mode = "sync"  -> Goto(AutoSender, "sending")
                   [] mode = "async" -> Goto(AutoSender, "starting")
    /\ UNCHANGED <<mode, atomic, msg, tries, delivered, met, faults>>

\* Preparing the e-mail raises, which is recorded outside of a transaction only,
\* or the process dies after the commit.
EnqueueFails ==
    /\ stage = "saved"
    /\ stage' = "closed"
    /\ msg' \in IF atomic THEN {msg} ELSE {msg, "failed"}
    /\ UNCHANGED <<mode, atomic, row, sender, tries, delivered, met, faults>>

\* Outside of a transaction NOT_SENT is saved after the callback has run, which
\* in sync mode has sent the e-mail.
CloseMessage ==
    /\ stage = "queued"
    /\ mode = "sync" => ~Working(AutoSender)
    /\ stage' = "closed"
    /\ msg' = "not_sent"
    /\ UNCHANGED <<mode, atomic, row, sender, tries, delivered, met, faults>>

-----------------------------------------------------------------------------
(***************************************************************************)
(* process_email_outbox_entry.                                             *)
(***************************************************************************)

\* _send_email_outbox_entry_in_thread reads the row, whatever its status is.
StartThread ==
    /\ sender[AutoSender].at = "starting"
    /\ sender' = [sender EXCEPT ![AutoSender] = [at |-> "sending", attempts |-> row.attempts]]
    /\ UNCHANGED <<mode, atomic, stage, msg, row, tries, delivered, met, faults>>

\* Mutant: the attempts are all that counts.
ReadyAny == row.status # "none" /\ row.attempts < MaxAttempts

Ready == row.status \in {"pending", "failed"} /\ row.attempts < MaxAttempts

\* Mutant: without select_for_update, another run of the command has it too.
TakeUnlocked(c) ==
    /\ Ready /\ ~Working(c)
    /\ sender' = [sender EXCEPT ![c] = [at |-> "sending", attempts |-> row.attempts]]
    /\ met' = (met \/ Working(AutoSender))
    /\ UNCHANGED <<mode, atomic, stage, msg, row, tries, delivered, faults>>

\* The command takes a row that is ready and that no other run has locked.
Take(c) ==
    /\ Ready /\ ~RowLocked
    /\ sender' = [sender EXCEPT ![c] = [at |-> "sending", attempts |-> row.attempts]]
    /\ met' = (met \/ Working(AutoSender))
    /\ UNCHANGED <<mode, atomic, stage, msg, row, tries, delivered, faults>>

\* The provider takes the e-mail or refuses it; its answer may be lost.
Provider(s) ==
    /\ sender[s].at = "sending"
    /\ tries' = tries + 1
    /\ \/ /\ sender' = Goto(s, "taken")
          /\ delivered' = delivered + 1 /\ faults' = faults
       \/ /\ sender' = Goto(s, "refused")
          /\ delivered' = delivered /\ faults' = faults
       \/ /\ faults < MaxFaults
          /\ sender' = Goto(s, "refused")
          /\ delivered' = delivered + 1 /\ faults' = faults + 1
    /\ UNCHANGED <<mode, atomic, stage, msg, row, met>>

\* Mutant: off by one, the last attempt is never final.
MarkedForever(s) ==
    IF sender[s].at = "taken" THEN [status |-> "sent", attempts |-> sender[s].attempts + 1]
    ELSE [status |-> IF sender[s].attempts >= MaxAttempts THEN "permanently_failed" ELSE "failed",
          attempts |-> sender[s].attempts + 1]

\* The row that _mark_email_outbox_sent or _failed writes, from the attempts
\* the sender has read.
Marked(s) ==
    LET n == sender[s].attempts + 1 IN
    [status |-> IF sender[s].at = "taken" THEN "sent"
                ELSE IF n >= MaxAttempts THEN "permanently_failed" ELSE "failed",
     attempts |-> n]

\* Mutant: what the row was told is forgotten.
ToldByAnswer(s) == IF sender[s].at = "taken" THEN "sent" ELSE "failed"

Told(s) == IF sender[s].at \in {"taken", "saved_sent"} THEN "sent" ELSE "failed"

\* The command: the outbox row and the message, in one transaction.
Mark(c) ==
    /\ sender[c].at \in {"taken", "refused"}
    /\ row' = Marked(c)
    /\ msg' = Told(c)
    /\ sender' = [sender EXCEPT ![c] = Asleep]
    /\ UNCHANGED <<mode, atomic, stage, tries, delivered, met, faults>>

\* The automatic sender: its save of the outbox row waits for the command's lock;
\* the message follows.
MarkRow ==
    /\ sender[AutoSender].at \in {"taken", "refused"} /\ ~RowLocked
    /\ row' = Marked(AutoSender)
    /\ sender' = [sender EXCEPT ![AutoSender] =
                    [at |-> IF Told(AutoSender) = "sent" THEN "saved_sent" ELSE "saved_failed",
                     attempts |-> 0]]
    /\ UNCHANGED <<mode, atomic, stage, msg, tries, delivered, met, faults>>

MarkMessage ==
    /\ sender[AutoSender].at \in {"saved_sent", "saved_failed"}
    /\ msg' = Told(AutoSender)
    /\ sender' = [sender EXCEPT ![AutoSender] = Asleep]
    /\ UNCHANGED <<mode, atomic, stage, row, tries, delivered, met, faults>>

\* The process dies; a command's transaction and its lock go with it, and in
\* sync mode what the web request had still to do.
Die(s) ==
    /\ Working(s) /\ faults < MaxFaults
    /\ sender' = [sender EXCEPT ![s] = Asleep]
    /\ stage' = IF s = AutoSender /\ mode = "sync" THEN "closed" ELSE stage
    /\ faults' = faults + 1
    /\ UNCHANGED <<mode, atomic, msg, row, tries, delivered, met>>

-----------------------------------------------------------------------------
Automatic == StartThread \/ Provider(AutoSender) \/ MarkRow \/ MarkMessage
Command(c) == Take(c) \/ Provider(c) \/ Mark(c)

OutboxNext ==
    \/ CreateMessage \/ Enqueue \/ EnqueueFails \/ CloseMessage
    \/ Automatic
    \/ \E c \in Crons : Command(c)
    \/ \E s \in Senders : Die(s)

OutboxSpec == OutboxInit /\ [][OutboxNext]_outboxVars

\* The command is run again and again, and its runs end: the provider's answer
\* has a time limit.  So do the web request and its thread.
FairOutboxSpec == OutboxSpec /\ WF_outboxVars(Automatic) /\ WF_outboxVars(\E c \in Crons : Command(c))

-----------------------------------------------------------------------------
\* A message is not sent twice unless a command met the row before the automatic
\* sender was done, a sender died or an answer was lost.
\* Code: quotes/messaging.py:369, process_email_outbox.py:44.
SentOnce == (~met /\ faults = 0) => delivered <= 1

\* What the outbox row and the message say of a delivery has happened, and
\* while nothing overlaps the row counts every try.
SentIsDelivered ==
    /\ row.status = "sent" \/ msg = "sent" => delivered > 0
    /\ ~met /\ faults = 0 /\ (\A s \in Senders : ~Working(s)) => row.attempts = tries

\* MAX_ATTEMPTS bounds what the provider is asked: the command counts under its
\* lock, and the one automatic attempt can set the count back once.
TriesBounded ==
    /\ tries <= Limit
    /\ ~met /\ faults = 0 => tries <= MaxAttempts

\* The client gets the e-mail once, and the provider is not asked for ever.
SendsAreFew == SentOnce /\ TriesBounded

\* When nobody is at work any more, the message tells what became of the outbox
\* row, if it was written in a transaction and no process died.
MessageTells ==
    (atomic /\ ~met /\ faults = 0 /\ stage = "closed" /\ \A s \in Senders : ~Working(s)) =>
        CASE row.status = "sent" -> msg = "sent"
          [] row.status \in {"failed", "permanently_failed"} -> msg = "failed"
          [] OTHER -> msg = "not_sent"

\* Row and message tell what happened: no delivery that was not made, and no
\* outcome that stays untold.
RecordsTell == SentIsDelivered /\ MessageTells

\* A queued e-mail is sent in the end, or given up for good, whichever sender
\* died on the way.
EndsSentOrGivenUp == row.status # "none" ~> [](row.status \in {"sent", "permanently_failed"})
=============================================================================
