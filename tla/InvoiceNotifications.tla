------------------------- MODULE InvoiceNotifications -------------------------
(***************************************************************************)
(* The e-mail about one invoice: the StripeInvoiceNotification row of one  *)
(* invoice and e-mail type, the webhook handlers that queue it (several    *)
(* events may tell of one invoice, e.g. repeated payment attempts), and    *)
(* the Celery task that sends it.  The row is written by the handler under *)
(* the lock of the customer's subscription, but by the tasks with no lock: *)
(* a task reads it, sends, and then writes the status.  Celery             *)
(* acknowledges a task when it starts it, so a process that dies takes its *)
(* task with it.  What the handlers do to the subscription row is the      *)
(* subject of StripeWebhooks.                                              *)
(***************************************************************************)
EXTENDS WebhookLedger, FiniteSets, Sequences

CONSTANTS Processes,   \* Celery worker processes
          MaxRetries,  \* retry_kwargs of the task: 3
          MaxFaults    \* bound on failed statements of tasks

ASSUME NoticeAssumption ==
  /\ Handled = Events
  /\ Processes \in Nat \ {0}
  /\ MaxRetries \in Nat
  /\ MaxFaults \in 0 .. MaxRetries

VARIABLES
  notice,    \* StripeInvoiceNotification.status, "absent" while there is no row
  queueing,  \* the workers whose transaction left a task to enqueue
  tasks,     \* every task ever enqueued
  mails,     \* e-mails the customer got
  unsaved,   \* of those, the ones after which SENT was not written
  reopened,  \* times a SENT row was made FAILED
  faults     \* failed statements so far

noticeVars == <<notice, queueing, tasks, mails, unsaved, reopened, faults>>
vars == <<ledgerVars, noticeVars>>

Working == {"loaded", "mailed", "refused"}
Over    == {"done", "gave up", "lost"}
Task    == [stage : {"queued"} \cup Working \cup Over, retries : Nat]

NoticeTypeOK ==
  /\ LedgerTypeOK
  /\ notice \in {"absent", "pending", "sent", "failed"}
  /\ queueing \subseteq {w \in Workers : at[w] = "claimed"}
  /\ tasks \in Seq(Task)
  /\ \A t \in DOMAIN tasks : tasks[t].retries <= MaxRetries
  /\ unsaved <= mails
  /\ reopened \in Nat
  /\ faults <= MaxFaults

NoticeInit ==
  /\ LedgerInit
  /\ notice = "absent"
  /\ queueing = {}
  /\ tasks = <<>>
  /\ mails = 0
  /\ unsaved = 0
  /\ reopened = 0
  /\ faults = 0
-------------------------------------------------------------------------------
(* The web workers.                                                        *)

LedgerOnly(w) ==
  /\ Claim(w) \/ RecordProcessed(w) \/ RecordFailed(w) \/ \E e \in Events : Receive(w, e)
  /\ UNCHANGED noticeVars

\* Mutant: only the handler that creates the row queues a task.
CommitIfCreated(w) ==
  /\ at[w] = "claimed" /\ w \notin queueing
  /\ IF notice = "absent"
     THEN /\ queueing' = queueing \cup {w}
          /\ UNCHANGED ledgerVars
     ELSE HandlerReturns(w) /\ UNCHANGED queueing
  /\ notice' = IF notice = "absent" THEN "pending" ELSE notice
  /\ UNCHANGED <<tasks, mails, unsaved, reopened, faults>>

\* The transaction of an invoice handler: get_or_create, and on_commit unless
\* the e-mail is known to be sent.
Commit(w) ==
  /\ at[w] = "claimed" /\ w \notin queueing
  /\ IF notice = "sent"
     THEN HandlerReturns(w) /\ UNCHANGED queueing
     ELSE /\ queueing' = queueing \cup {w}
          /\ UNCHANGED ledgerVars
  /\ notice' = IF notice = "absent" THEN "pending" ELSE notice
  /\ UNCHANGED <<tasks, mails, unsaved, reopened, faults>>

NewTask == tasks' = Append(tasks, [stage |-> "queued", retries |-> 0])

Enqueue(w) ==
  /\ w \in queueing
  /\ queueing' = queueing \ {w}
  /\ NewTask
  /\ HandlerReturns(w)
  /\ UNCHANGED <<notice, mails, unsaved, reopened, faults>>

\* Before the commit nothing is left behind.  After it the broker fails, and
\* may have taken the task all the same.
Fails(w) ==
  /\ HandlerRaises(w)
  /\ queueing' = queueing \ {w}
  /\ UNCHANGED tasks \/ (w \in queueing /\ NewTask)
  /\ UNCHANGED <<notice, mails, unsaved, reopened, faults>>

Dies(w) ==
  /\ Crash(w)
  /\ queueing' = queueing \ {w}
  /\ UNCHANGED <<notice, tasks, mails, unsaved, reopened, faults>>

Handles(w) == LedgerOnly(w) \/ Commit(w) \/ Enqueue(w) \/ Fails(w)
-------------------------------------------------------------------------------
(* send_invoice_notification_email_task.                                   *)

Busy == {t \in DOMAIN tasks : tasks[t].stage \in Working}

Moves(t, stage) == tasks' = [tasks EXCEPT ![t].stage = stage]

\* Mutant: one retry too many.
RetriesOnceMore(t) ==
  tasks' = [tasks EXCEPT ![t] =
              IF @.retries <= MaxRetries
              THEN [stage |-> "queued", retries |-> @.retries + 1]
              ELSE [@ EXCEPT !.stage = "gave up"]]

\* autoretry_for=(Exception,), max_retries
Retries(t) ==
  tasks' = [tasks EXCEPT ![t] =
              IF @.retries < MaxRetries
              THEN [stage |-> "queued", retries |-> @.retries + 1]
              ELSE [@ EXCEPT !.stage = "gave up"]]

\* Mutants: the row is not looked at; only a PENDING row is sent.
StartsAnyway(t) ==
  /\ tasks[t].stage = "queued"
  /\ Cardinality(Busy) < Processes
  /\ Moves(t, "loaded")
  /\ UNCHANGED <<ledgerVars, notice, queueing, mails, unsaved, reopened, faults>>
StartsPending(t) ==
  /\ tasks[t].stage = "queued"
  /\ Cardinality(Busy) < Processes
  /\ Moves(t, IF notice # "pending" THEN "done" ELSE "loaded")
  /\ UNCHANGED <<ledgerVars, notice, queueing, mails, unsaved, reopened, faults>>

Starts(t) ==
  /\ tasks[t].stage = "queued"
  /\ Cardinality(Busy) < Processes
  /\ Moves(t, IF notice = "sent" THEN "done" ELSE "loaded")
  /\ UNCHANGED <<ledgerVars, notice, queueing, mails, unsaved, reopened, faults>>

MailGoes(t) ==
  /\ tasks[t].stage = "loaded"
  /\ Moves(t, "mailed")
  /\ mails' = mails + 1
  /\ UNCHANGED <<ledgerVars, notice, queueing, unsaved, reopened, faults>>

\* No valid address, a template or SMTP error, nothing sent.
MailRefused(t) ==
  /\ tasks[t].stage = "loaded"
  /\ Moves(t, "refused")
  /\ UNCHANGED <<ledgerVars, notice, queueing, mails, unsaved, reopened, faults>>

RecordsSent(t) ==
  /\ tasks[t].stage = "mailed"
  /\ notice' = "sent"
  /\ Moves(t, "done")
  /\ UNCHANGED <<ledgerVars, queueing, mails, unsaved, reopened, faults>>

RecordsFailed(t) ==
  /\ tasks[t].stage = "refused"
  /\ notice' = "failed"
  /\ reopened' = IF notice = "sent" THEN reopened + 1 ELSE reopened
  /\ Retries(t)
  /\ UNCHANGED <<ledgerVars, queueing, mails, unsaved, faults>>

Unsaved(t) == unsaved' = IF tasks[t].stage = "mailed" THEN unsaved + 1 ELSE unsaved

\* A query of the task fails: loading the row or the user, saving the status.
StatementFails(t) ==
  /\ tasks[t].stage \in Working
  /\ faults < MaxFaults
  /\ faults' = faults + 1
  /\ Retries(t)
  /\ Unsaved(t)
  /\ UNCHANGED <<ledgerVars, notice, queueing, mails, reopened>>

TaskLost(t) ==
  /\ tasks[t].stage \in Working
  /\ crashes < MaxCrashes
  /\ crashes' = crashes + 1
  /\ Moves(t, "lost")
  /\ Unsaved(t)
  /\ UNCHANGED <<ledger, acked, at, job, raises, notice, queueing, mails, reopened, faults>>

Sends(t) ==
  \/ Starts(t) \/ MailGoes(t) \/ MailRefused(t)
  \/ RecordsSent(t) \/ RecordsFailed(t) \/ StatementFails(t)

NoticeNext ==
  \/ \E w \in Workers : Handles(w) \/ Dies(w)
  \/ \E t \in DOMAIN tasks : Sends(t) \/ TaskLost(t)

NoticeSpec == NoticeInit /\ [][NoticeNext]_vars

(* Fairness.  A web worker ends its request and Stripe delivers what it is *)
(* owed, as in WebhookLedger; Celery works off its queue: a task that      *)
(* waits is started when a process is free time and again.                 *)
Redelivers(e) == Retry(e) /\ UNCHANGED noticeVars
Requests(w) == at[w] # "idle" /\ Handles(w)
MaxTasks == Cardinality(Events) + MaxRaises
Works(t) == t \in DOMAIN tasks /\ Sends(t)

NoticeFairness ==
  /\ \A w \in Workers : WF_vars(Requests(w))
  /\ \A e \in Events : SF_vars(Redelivers(e))
  /\ \A t \in 1 .. MaxTasks : SF_vars(Works(t))

FairNoticeSpec == NoticeSpec /\ NoticeFairness
-------------------------------------------------------------------------------
(* However many events and retries tell of the invoice, the customer gets  *)
(* no more than one e-mail from each Celery process (tasks that read the   *)
(* row before any of them wrote SENT), again after each time a SENT row    *)
(* was made FAILED; an e-mail after which SENT was not saved is extra.     *)
(* With one process that is the "unique by invoice ID and email type" of   *)
(* docs/ai-context/01-product-and-domain.md.                               *)
MailsBounded == mails <= unsaved + Processes * (1 + reopened)

(* A task ends, other than by giving up or dying, only when the customer   *)
(* has the e-mail: no early return takes another run's failure for a       *)
(* delivery.                                                               *)
EndedMeansTold ==
  /\ notice = "sent" => mails > 0
  /\ \A t \in DOMAIN tasks : tasks[t].stage = "done" => mails > 0

(* An invoice the customer must hear of does not stay PENDING, also when   *)
(* the task could not be enqueued after the commit: the event then fails,  *)
(* Stripe sends it again, and the row that is there is queued again.       *)
NoticeResolved ==
  notice = "pending" ~> (notice \in {"sent", "failed"} \/ crashes > 0)
===============================================================================
