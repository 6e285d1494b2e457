-------------------- MODULE InvoiceNotifications_proofs -----------------------
(***************************************************************************)
(* What InvoiceNotifications guarantees for any number of web workers,     *)
(* Celery processes, events, retries and faults.  MailsBounded is not      *)
(* inductive: it counts e-mails that went out, and what keeps the next one *)
(* from going out is the row and the tasks that have not read it yet.  So  *)
(* NoticeIInv counts those: while the row says SENT only the tasks that    *)
(* read it before (Loaded) can still send; while it does not, every e-mail *)
(* of this round belongs to a task that is about to write SENT (Mailed).   *)
(* Both are among the busy tasks, of which there are at most Processes.    *)
(***************************************************************************)
EXTENDS InvoiceNotifications, WebhookLedger_proofs, FiniteSetTheorems

\* The tasks that read the row and did not send yet.
Loaded == {t \in DOMAIN tasks : tasks[t].stage = "loaded"}

\* The tasks that sent and did not write SENT yet.
Mailed == {t \in DOMAIN tasks : tasks[t].stage = "mailed"}

\* No e-mail beyond one per process and reopening, those in flight counted in.
MailsCounted ==
  /\ notice = "sent" =>
       mails + Cardinality(Loaded) <= unsaved + Processes * (1 + reopened)
  /\ notice # "sent" =>
       mails <= unsaved + Cardinality(Mailed) + Processes * reopened
  /\ unsaved + Cardinality(Mailed) <= mails

NoticeIInv ==
  /\ LedgerIInv
  /\ NoticeTypeOK
  /\ mails \in Nat /\ unsaved \in Nat /\ faults \in Nat
  /\ Cardinality(Busy) <= Processes
  /\ MailsCounted
  /\ EndedMeansTold
-------------------------------------------------------------------------------
\* The tasks at work, by stage: finite, counted, Loaded and Mailed apart.
LEMMA TasksCounted ==
  ASSUME NoticeTypeOK
  PROVE  /\ DOMAIN tasks = 1 .. Len(tasks) /\ Len(tasks) \in Nat
         /\ IsFiniteSet(Busy) /\ IsFiniteSet(Loaded) /\ IsFiniteSet(Mailed)
         /\ Cardinality(Busy) \in Nat
         /\ Cardinality(Loaded) \in Nat
         /\ Cardinality(Mailed) \in Nat
         /\ Cardinality(Loaded) + Cardinality(Mailed) <= Cardinality(Busy)
  <1>1. DOMAIN tasks = 1 .. Len(tasks) /\ Len(tasks) \in Nat
    BY DEF NoticeTypeOK
  <1>2. IsFiniteSet(DOMAIN tasks)
    BY <1>1, FS_Interval
  <1>3. IsFiniteSet(Busy)
    BY <1>2, FS_Subset DEF Busy
  <1>4. Loaded \subseteq Busy /\ Mailed \subseteq Busy /\ Loaded \cap Mailed = {}
    BY DEF Loaded, Mailed, Busy, Working
  <1>5. IsFiniteSet(Loaded) /\ IsFiniteSet(Mailed)
    BY <1>3, <1>4, FS_Subset
  <1>6. /\ Cardinality(Busy) \in Nat /\ Cardinality(Loaded) \in Nat
        /\ Cardinality(Mailed) \in Nat
    BY <1>3, <1>5, FS_CardinalityType
  <1>7. Cardinality(Loaded \cup Mailed) = Cardinality(Loaded) + Cardinality(Mailed)
    <2>1. Cardinality(Loaded \cup Mailed) =
            Cardinality(Loaded) + Cardinality(Mailed) - Cardinality({})
      BY <1>4, <1>5, FS_Union
    <2>2. QED BY <1>6, <2>1, FS_EmptySet
  <1>8. Cardinality(Loaded \cup Mailed) <= Cardinality(Busy)
    BY <1>3, <1>4, FS_Subset
  <1>9. QED BY <1>1, <1>3, <1>5, <1>6, <1>7, <1>8

\* The allowance of e-mails, opened by one reopening.
LEMMA Allowance ==
  ASSUME NEW n \in Nat
  PROVE  /\ Processes \in Nat
         /\ Processes * n \in Nat
         /\ Processes * (1 + n) = Processes * n + Processes
  BY NoticeAssumption DEF NoticeAssumption

\* A member of a finite set that is taken out or put in is counted once.
LEMMA OneApart ==
  ASSUME NEW S, IsFiniteSet(S), NEW x
  PROVE  /\ Cardinality(S \cup {x}) =
              IF x \in S THEN Cardinality(S) ELSE Cardinality(S) + 1
         /\ Cardinality(S \ {x}) =
              IF x \in S THEN Cardinality(S) - 1 ELSE Cardinality(S)
  BY FS_AddElement, FS_RemoveElement

\* A move of one task: where it is then, and how the counts change.
LEMMA MoveCounted ==
  ASSUME NoticeTypeOK, NEW t \in DOMAIN tasks, NEW x \in Task,
         x.retries <= MaxRetries,
         tasks' = [tasks EXCEPT ![t] = x]
  PROVE  /\ tasks' \in Seq(Task) /\ DOMAIN tasks' = DOMAIN tasks
         /\ \A u \in DOMAIN tasks' : tasks'[u].retries <= MaxRetries
         /\ tasks'[t] = x
         /\ \A u \in DOMAIN tasks \ {t} : tasks'[u] = tasks[u]
         /\ Cardinality(Loaded)' =
              Cardinality(Loaded) + (IF x.stage = "loaded" THEN 1 ELSE 0)
                                  - (IF tasks[t].stage = "loaded" THEN 1 ELSE 0)
         /\ Cardinality(Mailed)' =
              Cardinality(Mailed) + (IF x.stage = "mailed" THEN 1 ELSE 0)
                                  - (IF tasks[t].stage = "mailed" THEN 1 ELSE 0)
         /\ Cardinality(Busy)' =
              Cardinality(Busy) + (IF x.stage \in Working THEN 1 ELSE 0)
                                - (IF tasks[t].stage \in Working THEN 1 ELSE 0)
  <1>1. /\ tasks' \in Seq(Task) /\ DOMAIN tasks' = DOMAIN tasks
        /\ tasks'[t] = x
        /\ \A u \in DOMAIN tasks \ {t} : tasks'[u] = tasks[u]
    BY DEF NoticeTypeOK
  <1>2. \A u \in DOMAIN tasks' : tasks'[u].retries <= MaxRetries
    BY <1>1 DEF NoticeTypeOK
  <1>3. /\ IsFiniteSet(Busy) /\ IsFiniteSet(Loaded) /\ IsFiniteSet(Mailed)
        /\ Cardinality(Busy) \in Nat /\ Cardinality(Loaded) \in Nat
        /\ Cardinality(Mailed) \in Nat
    BY TasksCounted
  <1>4. /\ t \in Loaded <=> tasks[t].stage = "loaded"
        /\ t \in Mailed <=> tasks[t].stage = "mailed"
        /\ t \in Busy <=> tasks[t].stage \in Working
    BY DEF Loaded, Mailed, Busy
  <1>5. Loaded' = IF x.stage = "loaded" THEN Loaded \cup {t} ELSE Loaded \ {t}
    BY <1>1 DEF Loaded
  <1>6. Mailed' = IF x.stage = "mailed" THEN Mailed \cup {t} ELSE Mailed \ {t}
    BY <1>1 DEF Mailed
  <1>7. Busy' = IF x.stage \in Working THEN Busy \cup {t} ELSE Busy \ {t}
    BY <1>1 DEF Busy
  <1>8. ASSUME NEW S, IsFiniteSet(S), Cardinality(S) \in Nat,
               NEW into \in BOOLEAN, NEW was \in BOOLEAN, t \in S <=> was
        PROVE  Cardinality(IF into THEN S \cup {t} ELSE S \ {t}) =
                 Cardinality(S) + (IF into THEN 1 ELSE 0) - (IF was THEN 1 ELSE 0)
    <2>1. /\ Cardinality(S \cup {t}) =
               IF t \in S THEN Cardinality(S) ELSE Cardinality(S) + 1
          /\ Cardinality(S \ {t}) =
               IF t \in S THEN Cardinality(S) - 1 ELSE Cardinality(S)
      BY <1>8, OneApart
    <2>2. CASE into
      BY <1>8, <2>1, <2>2
    <2>3. CASE ~ into
      BY <1>8, <2>1, <2>3
    <2>4. QED BY <2>2, <2>3
  <1>9. Cardinality(Loaded)' =
          Cardinality(Loaded) + (IF x.stage = "loaded" THEN 1 ELSE 0)
                              - (IF tasks[t].stage = "loaded" THEN 1 ELSE 0)
    BY <1>3, <1>4, <1>5, <1>8
  <1>10. Cardinality(Mailed)' =
          Cardinality(Mailed) + (IF x.stage = "mailed" THEN 1 ELSE 0)
                              - (IF tasks[t].stage = "mailed" THEN 1 ELSE 0)
    BY <1>3, <1>4, <1>6, <1>8
  <1>11. Cardinality(Busy)' =
          Cardinality(Busy) + (IF x.stage \in Working THEN 1 ELSE 0)
                            - (IF tasks[t].stage \in Working THEN 1 ELSE 0)
    BY <1>3, <1>4, <1>7, <1>8
  <1>12. QED BY <1>1, <1>2, <1>9, <1>10, <1>11

\* A task that is queued joins none of the counts.
LEMMA NewTaskCounted ==
  ASSUME NoticeTypeOK, NewTask
  PROVE  /\ tasks' \in Seq(Task)
         /\ \A u \in DOMAIN tasks' : tasks'[u].retries <= MaxRetries
         /\ Loaded' = Loaded /\ Mailed' = Mailed /\ Busy' = Busy
         /\ \A u \in DOMAIN tasks' :
              tasks'[u].stage = "queued" \/ (u \in DOMAIN tasks /\ tasks'[u] = tasks[u])
  <1>1. PICK x : x = [stage |-> "queued", retries |-> 0]
    OBVIOUS
  <1>2. x \in Task /\ x.stage = "queued" /\ x.retries = 0
    BY <1>1 DEF Task, Working, Over
  <1>3. /\ tasks \in Seq(Task) /\ tasks' = Append(tasks, x)
        /\ DOMAIN tasks = 1 .. Len(tasks) /\ Len(tasks) \in Nat
    BY <1>1 DEF NewTask, NoticeTypeOK
  <1>4. /\ tasks' \in Seq(Task)
        /\ DOMAIN tasks' = 1 .. (Len(tasks) + 1)
        /\ \A u \in DOMAIN tasks : tasks'[u] = tasks[u]
        /\ tasks'[Len(tasks) + 1] = x
    BY <1>2, <1>3
  <1>5. /\ Len(tasks) + 1 \notin DOMAIN tasks
        /\ DOMAIN tasks' = DOMAIN tasks \cup {Len(tasks) + 1}
    BY <1>3, <1>4
  <1>6. Loaded' = Loaded /\ Mailed' = Mailed /\ Busy' = Busy
    BY <1>2, <1>4, <1>5 DEF Loaded, Mailed, Busy, Working
  <1>7. \A u \in DOMAIN tasks' : tasks'[u].retries <= MaxRetries
    BY <1>2, <1>4, <1>5, NoticeAssumption DEF NoticeTypeOK, NoticeAssumption
  <1>8. QED BY <1>2, <1>4, <1>5, <1>6, <1>7
-------------------------------------------------------------------------------
\* No row, no task, no e-mail.
LEMMA NoticeInitInv == NoticeInit => NoticeIInv
  <1> SUFFICES ASSUME NoticeInit PROVE NoticeIInv
    OBVIOUS
  <1>1. LedgerIInv
    BY LedgerInitInv DEF NoticeInit
  <1>2. NoticeTypeOK /\ mails = 0 /\ unsaved = 0 /\ faults = 0 /\ reopened = 0
    BY <1>1, NoticeAssumption
       DEF NoticeInit, NoticeTypeOK, LedgerIInv, NoticeAssumption
  <1>3. Busy = {} /\ Loaded = {} /\ Mailed = {} /\ EndedMeansTold
    BY DEF NoticeInit, Busy, Loaded, Mailed, EndedMeansTold
  <1>4. /\ Cardinality(Busy) <= Processes /\ Cardinality(Mailed) = 0
        /\ Processes * reopened = 0
    BY <1>2, <1>3, FS_EmptySet, NoticeAssumption DEF NoticeAssumption
  <1>5. MailsCounted
    BY <1>2, <1>4 DEF NoticeInit, MailsCounted
  <1>6. QED BY <1>1, <1>2, <1>3, <1>4, <1>5 DEF NoticeIInv

\* What a step of a web worker leaves alone, and the ledger's part of it.
LEMMA HandlesFrame ==
  ASSUME NoticeIInv, NEW w \in Workers, Handles(w) \/ Dies(w)
  PROVE  /\ LedgerIInv'
         /\ queueing' \subseteq {v \in Workers : at'[v] = "claimed"}
         /\ UNCHANGED <<mails, unsaved, reopened, faults>>
         /\ notice' = notice \/ (notice = "absent" /\ notice' = "pending")
         /\ tasks' = tasks \/ NewTask
  <1> USE DEF HandlerReturns, HandlerRaises, Crash, Answer, UpdateWhere
  <1>1. /\ LedgerTypeOK /\ LedgerIInv
        /\ queueing \subseteq {v \in Workers : at[v] = "claimed"}
    BY DEF NoticeIInv, NoticeTypeOK
  <1>2. CASE LedgerOnly(w)
    <2>1. LedgerNext
      BY <1>2 DEF LedgerOnly, LedgerNext, WorkerStep
    <2>2. /\ at[w] # "claimed"
          /\ \A v \in Workers \ {w} : at'[v] = at[v]
      BY <1>1, <1>2
         DEF LedgerOnly, Claim, RecordProcessed, RecordFailed, Receive, LedgerTypeOK
    <2>3. QED BY <1>1, <1>2, <2>1, <2>2, LedgerStepInv DEF LedgerOnly, noticeVars
  <1>3. CASE Commit(w)
    <2>1. CASE notice = "sent"
      <3>1. HandlerReturns(w) /\ w \notin queueing
            /\ UNCHANGED <<notice, queueing, tasks, mails, unsaved, reopened, faults>>
        BY <1>3, <2>1 DEF Commit
      <3>2. LedgerNext
        BY <3>1 DEF LedgerNext, WorkerStep
      <3>3. \A v \in Workers \ {w} : at'[v] = at[v]
        BY <1>1, <3>1 DEF LedgerTypeOK
      <3>4. QED BY <1>1, <3>1, <3>2, <3>3, LedgerStepInv
    <2>2. CASE notice # "sent"
      BY <1>1, <1>3, <2>2, LedgerStepInv DEF Commit, ledgerVars
    <2>3. QED BY <2>1, <2>2
  <1>4. CASE Enqueue(w)
    <2>1. LedgerNext
      BY <1>4 DEF Enqueue, LedgerNext, WorkerStep
    <2>2. \A v \in Workers \ {w} : at'[v] = at[v]
      BY <1>1, <1>4 DEF Enqueue, LedgerTypeOK
    <2>3. QED BY <1>1, <1>4, <2>1, <2>2, LedgerStepInv DEF Enqueue
  <1>5. CASE Fails(w)
    <2>1. LedgerNext
      BY <1>5 DEF Fails, LedgerNext, WorkerStep
    <2>2. \A v \in Workers \ {w} : at'[v] = at[v]
      BY <1>1, <1>5 DEF Fails, LedgerTypeOK
    <2>3. QED BY <1>1, <1>5, <2>1, <2>2, LedgerStepInv DEF Fails
  <1>6. CASE Dies(w)
    <2>1. LedgerNext
      BY <1>6 DEF Dies, LedgerNext
    <2>2. \A v \in Workers \ {w} : at'[v] = at[v]
      BY <1>1, <1>6 DEF Dies, LedgerTypeOK
    <2>3. QED BY <1>1, <1>6, <2>1, <2>2, LedgerStepInv DEF Dies
  <1>7. QED BY <1>2, <1>3, <1>4, <1>5, <1>6 DEF Handles

\* The web workers queue tasks and never touch a count.
LEMMA HandlesInv ==
  ASSUME NoticeIInv, NEW w \in Workers, Handles(w) \/ Dies(w) PROVE NoticeIInv'
  <1>1. /\ LedgerIInv'
        /\ queueing' \subseteq {v \in Workers : at'[v] = "claimed"}
        /\ UNCHANGED <<mails, unsaved, reopened, faults>>
        /\ notice' = notice \/ (notice = "absent" /\ notice' = "pending")
        /\ tasks' = tasks \/ NewTask
    BY HandlesFrame
  <1>2. NoticeTypeOK /\ MailsCounted /\ EndedMeansTold /\ LedgerTypeOK'
    BY <1>1 DEF NoticeIInv, LedgerIInv
  <1>3. /\ tasks' \in Seq(Task)
        /\ \A u \in DOMAIN tasks' : tasks'[u].retries <= MaxRetries
        /\ Loaded' = Loaded /\ Mailed' = Mailed /\ Busy' = Busy
        /\ \A u \in DOMAIN tasks' :
             tasks'[u].stage = "queued" \/ (u \in DOMAIN tasks /\ tasks'[u] = tasks[u])
    <2>1. CASE tasks' = tasks
      BY <1>2, <2>1 DEF NoticeTypeOK, Loaded, Mailed, Busy
    <2>2. CASE NewTask
      BY <1>2, <2>2, NewTaskCounted
    <2>3. QED BY <1>1, <2>1, <2>2
  <1>4. NoticeTypeOK'
    BY <1>1, <1>2, <1>3 DEF NoticeTypeOK
  <1>5. MailsCounted' /\ Cardinality(Busy)' <= Processes
    <2>1. notice = "sent" <=> notice' = "sent"
      BY <1>1
    <2>2. QED BY <1>1, <1>2, <1>3, <2>1 DEF MailsCounted, NoticeIInv
  <1>6. EndedMeansTold'
    BY <1>1, <1>2, <1>3 DEF EndedMeansTold
  <1>7. QED BY <1>1, <1>4, <1>5, <1>6 DEF NoticeIInv
-------------------------------------------------------------------------------
\* A task is a record of Task within its retries.
LEMMA TaskKnown ==
  ASSUME NoticeTypeOK, NEW t \in DOMAIN tasks
  PROVE  /\ tasks[t] \in Task /\ tasks[t].retries <= MaxRetries
         /\ tasks[t].retries \in Nat /\ MaxRetries \in Nat
  <1>1. tasks[t] \in Task
    BY DEF NoticeTypeOK
  <1>2. tasks[t].retries \in Nat
    BY <1>1 DEF Task
  <1>3. QED BY <1>1, <1>2, NoticeAssumption DEF NoticeTypeOK, NoticeAssumption

\* A task that moves is that task at its new stage.
LEMMA MovesOne ==
  ASSUME NoticeTypeOK, NEW t \in DOMAIN tasks,
         NEW s \in {"queued"} \cup Working \cup Over, Moves(t, s)
  PROVE  \E x \in Task :
           x.stage = s /\ x.retries <= MaxRetries /\ tasks' = [tasks EXCEPT ![t] = x]
  <1>1. PICK x : x = [tasks[t] EXCEPT !.stage = s]
    OBVIOUS
  <1>2. x \in Task /\ x.retries = tasks[t].retries /\ x.stage = s
    BY <1>1, TaskKnown DEF Task
  <1>3. tasks' = [tasks EXCEPT ![t] = x]
    BY <1>1 DEF Moves
  <1>4. QED BY <1>2, <1>3, TaskKnown

\* A task that is retried waits again, or has given up.
LEMMA RetriesOne ==
  ASSUME NoticeTypeOK, NEW t \in DOMAIN tasks, Retries(t)
  PROVE  \E x \in Task : /\ x.stage \in {"queued", "gave up"}
                         /\ x.retries <= MaxRetries
                         /\ tasks' = [tasks EXCEPT ![t] = x]
  <1>1. /\ tasks[t] \in Task /\ tasks[t].retries <= MaxRetries
        /\ tasks[t].retries \in Nat /\ MaxRetries \in Nat
    BY TaskKnown
  <1>2. CASE tasks[t].retries < MaxRetries
    <2>1. PICK x : x = [stage |-> "queued", retries |-> tasks[t].retries + 1]
      OBVIOUS
    <2>2. x \in Task /\ x.retries <= MaxRetries /\ x.stage = "queued"
      BY <1>1, <1>2, <2>1 DEF Task
    <2>3. tasks' = [tasks EXCEPT ![t] = x]
      BY <1>2, <2>1 DEF Retries
    <2>4. QED BY <2>2, <2>3
  <1>3. CASE ~ (tasks[t].retries < MaxRetries)
    <2>1. PICK x : x = [tasks[t] EXCEPT !.stage = "gave up"]
      OBVIOUS
    <2>2. x \in Task /\ x.retries = tasks[t].retries /\ x.stage = "gave up"
      BY <1>1, <2>1 DEF Task, Over
    <2>3. tasks' = [tasks EXCEPT ![t] = x]
      BY <1>3, <2>1 DEF Retries
    <2>4. QED BY <1>1, <2>2, <2>3
  <1>4. QED BY <1>2, <1>3

\* What is left to show of a step that puts x in the place of task t.
LEMMA ReplacedInv ==
  ASSUME NoticeIInv, NEW t \in DOMAIN tasks, NEW x \in Task,
         x.retries <= MaxRetries, tasks' = [tasks EXCEPT ![t] = x],
         LedgerIInv', at' = at, queueing' = queueing,
         notice' \in {"absent", "pending", "sent", "failed"},
         mails' \in Nat, mails' >= mails,
         unsaved' \in Nat, reopened' \in Nat, faults' \in Nat, faults' <= MaxFaults,
         x.stage \in Working => tasks[t].stage \in Working \/ Cardinality(Busy) < Processes,
         x.stage = "done" => mails' > 0,
         notice' = "sent" => notice = "sent" \/ mails' > 0,
         MailsCounted'
  PROVE  NoticeIInv'
  <1>1. NoticeTypeOK /\ EndedMeansTold /\ LedgerTypeOK'
    BY DEF NoticeIInv, LedgerIInv
  <1>2. /\ tasks' \in Seq(Task) /\ DOMAIN tasks' = DOMAIN tasks
        /\ \A u \in DOMAIN tasks' : tasks'[u].retries <= MaxRetries
        /\ tasks'[t] = x
        /\ \A u \in DOMAIN tasks \ {t} : tasks'[u] = tasks[u]
        /\ Cardinality(Busy)' =
             Cardinality(Busy) + (IF x.stage \in Working THEN 1 ELSE 0)
                               - (IF tasks[t].stage \in Working THEN 1 ELSE 0)
    BY <1>1, MoveCounted
  <1>3. Cardinality(Busy) \in Nat /\ Processes \in Nat /\ Cardinality(Mailed)' \in Nat
        /\ mails \in Nat
    <2>1. Cardinality(Mailed) \in Nat
      BY <1>1, TasksCounted
    <2>2. Cardinality(Mailed)' =
             Cardinality(Mailed) + (IF x.stage = "mailed" THEN 1 ELSE 0)
                                 - (IF tasks[t].stage = "mailed" THEN 1 ELSE 0)
      BY <1>1, MoveCounted
    <2>3. IsFiniteSet(Mailed) /\ (tasks[t].stage = "mailed" => Cardinality(Mailed) >= 1)
      <3>1. IsFiniteSet(Mailed)
        BY <1>1, TasksCounted
      <3>2. tasks[t].stage = "mailed" => t \in Mailed
        BY DEF Mailed
      <3>3. QED BY <2>1, <3>1, <3>2, FS_EmptySet
    <2>4. Cardinality(Busy) \in Nat /\ Processes \in Nat /\ mails \in Nat
      BY <1>1, TasksCounted, NoticeAssumption DEF NoticeAssumption, NoticeIInv
    <2>5. CASE tasks[t].stage = "mailed"
      BY <2>1, <2>2, <2>3, <2>4, <2>5
    <2>6. CASE tasks[t].stage # "mailed"
      BY <2>1, <2>2, <2>4, <2>6
    <2>7. QED BY <2>5, <2>6
  <1>4. Cardinality(Busy)' <= Processes
    <2>1. Cardinality(Busy) <= Processes
      BY DEF NoticeIInv
    <2>2. CASE x.stage \in Working
      BY <1>2, <1>3, <2>1, <2>2
    <2>3. CASE x.stage \notin Working
      BY <1>2, <1>3, <2>1, <2>3
    <2>4. QED BY <2>2, <2>3
  <1>5. unsaved' <= mails'
    BY <1>3 DEF MailsCounted
  <1>6. NoticeTypeOK'
    BY <1>1, <1>2, <1>5 DEF NoticeTypeOK
  <1>7. EndedMeansTold'
    <2>1. mails > 0 => mails' > 0
      BY <1>3
    <2>2. notice' = "sent" => mails' > 0
      BY <1>1, <2>1 DEF EndedMeansTold
    <2>3. ASSUME NEW u \in DOMAIN tasks', tasks'[u].stage = "done" PROVE mails' > 0
      BY <1>1, <1>2, <2>1, <2>3 DEF EndedMeansTold
    <2>4. QED BY <2>2, <2>3 DEF EndedMeansTold
  <1>8. QED BY <1>4, <1>6, <1>7 DEF NoticeIInv

\* The counts as numbers: s processes, k e-mails allowed, before a step.
LEMMA CountsKnown ==
  ASSUME NoticeIInv
  PROVE  \E p, k, l, m \in Nat :
           /\ p = Processes /\ k = Processes * reopened
           /\ l = Cardinality(Loaded) /\ m = Cardinality(Mailed)
           /\ l + m <= p
           /\ notice = "sent" => mails + l <= unsaved + k + p
           /\ notice # "sent" => mails <= unsaved + m + k
           /\ unsaved + m <= mails
           /\ mails \in Nat /\ unsaved \in Nat /\ reopened \in Nat /\ faults \in Nat
  <1>1. NoticeTypeOK /\ MailsCounted /\ reopened \in Nat
    BY DEF NoticeIInv, NoticeTypeOK
  <1>2. /\ Processes \in Nat /\ Processes * reopened \in Nat
        /\ Processes * (1 + reopened) = Processes * reopened + Processes
    BY <1>1, Allowance
  <1>3. /\ Cardinality(Loaded) \in Nat /\ Cardinality(Mailed) \in Nat
        /\ Cardinality(Busy) \in Nat
        /\ Cardinality(Loaded) + Cardinality(Mailed) <= Cardinality(Busy)
    BY <1>1, TasksCounted
  <1>4. PICK k \in Nat : k = Processes * reopened
    BY <1>2
  <1>5. /\ Cardinality(Busy) <= Processes
        /\ mails \in Nat /\ unsaved \in Nat /\ faults \in Nat
    BY DEF NoticeIInv
  <1>6. /\ notice = "sent" => mails + Cardinality(Loaded) <= unsaved + (k + Processes)
        /\ notice # "sent" => mails <= unsaved + Cardinality(Mailed) + k
        /\ unsaved + Cardinality(Mailed) <= mails
    BY <1>1, <1>2, <1>4 DEF MailsCounted
  <1> USE <1>2, <1>3, <1>5
  <1>7. WITNESS Processes \in Nat, k \in Nat, Cardinality(Loaded) \in Nat,
                Cardinality(Mailed) \in Nat
  <1>8. QED BY <1>1, <1>2, <1>3, <1>4, <1>5, <1>6

\* A task that starts has found no SENT row, or ends.
LEMMA StartsInv ==
  ASSUME NoticeIInv, NEW t \in DOMAIN tasks, Starts(t) PROVE NoticeIInv'
  <1>1. /\ NoticeTypeOK /\ LedgerIInv' /\ at' = at /\ EndedMeansTold
        /\ UNCHANGED <<notice, queueing, mails, unsaved, reopened, faults>>
        /\ tasks[t].stage = "queued" /\ Cardinality(Busy) < Processes
    BY LedgerStepInv DEF Starts, NoticeIInv, ledgerVars
  <1>2. PICK s \in {"done", "loaded"} :
          s = (IF notice = "sent" THEN "done" ELSE "loaded") /\ Moves(t, s)
    BY DEF Starts
  <1>3. PICK x \in Task :
          x.stage = s /\ x.retries <= MaxRetries /\ tasks' = [tasks EXCEPT ![t] = x]
    BY <1>1, <1>2, MovesOne DEF Working, Over
  <1>4. PICK p, k, l, m \in Nat :
          /\ p = Processes /\ k = Processes * reopened
          /\ l = Cardinality(Loaded) /\ m = Cardinality(Mailed)
          /\ l + m <= p
          /\ notice = "sent" => mails + l <= unsaved + k + p
          /\ notice # "sent" => mails <= unsaved + m + k
          /\ unsaved + m <= mails
          /\ mails \in Nat /\ unsaved \in Nat /\ reopened \in Nat /\ faults \in Nat
    BY CountsKnown
  <1>5. /\ Cardinality(Loaded)' = l + (IF s = "loaded" THEN 1 ELSE 0)
        /\ Cardinality(Mailed)' = m
    <2>1. /\ Cardinality(Loaded)' =
               Cardinality(Loaded) + (IF x.stage = "loaded" THEN 1 ELSE 0)
                                   - (IF tasks[t].stage = "loaded" THEN 1 ELSE 0)
          /\ Cardinality(Mailed)' =
               Cardinality(Mailed) + (IF x.stage = "mailed" THEN 1 ELSE 0)
                                   - (IF tasks[t].stage = "mailed" THEN 1 ELSE 0)
      BY <1>1, <1>3, MoveCounted
    <2>2. QED BY <1>1, <1>2, <1>3, <1>4, <2>1
  <1>6. MailsCounted'
    BY <1>1, <1>2, <1>4, <1>5, Allowance DEF MailsCounted
  <1>7. QED
    <2>1. /\ LedgerIInv' /\ at' = at /\ queueing' = queueing
          /\ notice' \in {"absent", "pending", "sent", "failed"}
          /\ mails' \in Nat /\ mails' >= mails
          /\ unsaved' \in Nat /\ reopened' \in Nat
          /\ faults' \in Nat /\ faults' <= MaxFaults
          /\ x.stage \in Working =>
               tasks[t].stage \in Working \/ Cardinality(Busy) < Processes
          /\ x.stage = "done" => mails' > 0
          /\ notice' = "sent" => notice = "sent" \/ mails' > 0
      BY <1>1, <1>2, <1>3, <1>4, <1>6 DEF EndedMeansTold, NoticeTypeOK
    <2>2. QED BY <1>1, <1>2, <1>3, <1>4, <1>6, <2>1, ReplacedInv

\* An e-mail: one task less that can send, or one more that is to write SENT.
LEMMA MailGoesInv ==
  ASSUME NoticeIInv, NEW t \in DOMAIN tasks, MailGoes(t) PROVE NoticeIInv'
  <1>1. /\ NoticeTypeOK /\ LedgerIInv' /\ at' = at
        /\ UNCHANGED <<notice, queueing, unsaved, reopened, faults>>
        /\ tasks[t].stage = "loaded" /\ mails' = mails + 1 /\ Moves(t, "mailed")
    BY LedgerStepInv DEF MailGoes, NoticeIInv, ledgerVars
  <1>2. PICK x \in Task :
          x.stage = "mailed" /\ x.retries <= MaxRetries /\ tasks' = [tasks EXCEPT ![t] = x]
    BY <1>1, MovesOne DEF Working
  <1>3. PICK p, k, l, m \in Nat :
          /\ p = Processes /\ k = Processes * reopened
          /\ l = Cardinality(Loaded) /\ m = Cardinality(Mailed)
          /\ l + m <= p
          /\ notice = "sent" => mails + l <= unsaved + k + p
          /\ notice # "sent" => mails <= unsaved + m + k
          /\ unsaved + m <= mails
          /\ mails \in Nat /\ unsaved \in Nat /\ reopened \in Nat /\ faults \in Nat
    BY CountsKnown
  <1>4. Cardinality(Loaded)' = l - 1 /\ Cardinality(Mailed)' = m + 1
    <2>1. /\ Cardinality(Loaded)' =
               Cardinality(Loaded) + (IF x.stage = "loaded" THEN 1 ELSE 0)
                                   - (IF tasks[t].stage = "loaded" THEN 1 ELSE 0)
          /\ Cardinality(Mailed)' =
               Cardinality(Mailed) + (IF x.stage = "mailed" THEN 1 ELSE 0)
                                   - (IF tasks[t].stage = "mailed" THEN 1 ELSE 0)
      BY <1>1, <1>2, MoveCounted
    <2>2. QED BY <1>1, <1>2, <1>3, <2>1
  <1>5. MailsCounted'
    BY <1>1, <1>3, <1>4, Allowance DEF MailsCounted
  <1>6. QED
    <2>1. /\ LedgerIInv' /\ at' = at /\ queueing' = queueing
          /\ notice' \in {"absent", "pending", "sent", "failed"}
          /\ mails' \in Nat /\ mails' >= mails
          /\ unsaved' \in Nat /\ reopened' \in Nat
          /\ faults' \in Nat /\ faults' <= MaxFaults
          /\ x.stage \in Working =>
               tasks[t].stage \in Working \/ Cardinality(Busy) < Processes
          /\ x.stage = "done" => mails' > 0
          /\ notice' = "sent" => notice = "sent" \/ mails' > 0
      <3>1. tasks[t].stage \in Working /\ x.stage # "done"
        BY <1>1, <1>2 DEF Working
      <3>2. /\ mails' \in Nat /\ mails' >= mails /\ mails' > 0
            /\ unsaved' \in Nat /\ reopened' \in Nat
        BY <1>1, <1>3
      <3>3. /\ notice' \in {"absent", "pending", "sent", "failed"}
            /\ faults' \in Nat /\ faults' <= MaxFaults
        BY <1>1, <1>3 DEF NoticeTypeOK
      <3>4. QED BY <1>1, <3>1, <3>2, <3>3
    <2>2. QED BY <1>1, <1>2, <1>3, <1>5, <2>1, ReplacedInv

\* Nothing went out.
LEMMA MailRefusedInv ==
  ASSUME NoticeIInv, NEW t \in DOMAIN tasks, MailRefused(t) PROVE NoticeIInv'
  <1>1. /\ NoticeTypeOK /\ LedgerIInv' /\ at' = at
        /\ UNCHANGED <<notice, queueing, mails, unsaved, reopened, faults>>
        /\ tasks[t].stage = "loaded" /\ Moves(t, "refused")
    BY LedgerStepInv DEF MailRefused, NoticeIInv, ledgerVars
  <1>2. PICK x \in Task :
          x.stage = "refused" /\ x.retries <= MaxRetries /\ tasks' = [tasks EXCEPT ![t] = x]
    BY <1>1, MovesOne DEF Working
  <1>3. PICK p, k, l, m \in Nat :
          /\ p = Processes /\ k = Processes * reopened
          /\ l = Cardinality(Loaded) /\ m = Cardinality(Mailed)
          /\ l + m <= p
          /\ notice = "sent" => mails + l <= unsaved + k + p
          /\ notice # "sent" => mails <= unsaved + m + k
          /\ unsaved + m <= mails
          /\ mails \in Nat /\ unsaved \in Nat /\ reopened \in Nat /\ faults \in Nat
    BY CountsKnown
  <1>4. Cardinality(Loaded)' = l - 1 /\ Cardinality(Mailed)' = m
    <2>1. /\ Cardinality(Loaded)' =
               Cardinality(Loaded) + (IF x.stage = "loaded" THEN 1 ELSE 0)
                                   - (IF tasks[t].stage = "loaded" THEN 1 ELSE 0)
          /\ Cardinality(Mailed)' =
               Cardinality(Mailed) + (IF x.stage = "mailed" THEN 1 ELSE 0)
                                   - (IF tasks[t].stage = "mailed" THEN 1 ELSE 0)
      BY <1>1, <1>2, MoveCounted
    <2>2. QED BY <1>1, <1>2, <1>3, <2>1
  <1>5. MailsCounted'
    BY <1>1, <1>3, <1>4, Allowance DEF MailsCounted
  <1>6. QED
    <2>1. /\ LedgerIInv' /\ at' = at /\ queueing' = queueing
          /\ notice' \in {"absent", "pending", "sent", "failed"}
          /\ mails' \in Nat /\ mails' >= mails
          /\ unsaved' \in Nat /\ reopened' \in Nat
          /\ faults' \in Nat /\ faults' <= MaxFaults
          /\ x.stage \in Working =>
               tasks[t].stage \in Working \/ Cardinality(Busy) < Processes
          /\ x.stage = "done" => mails' > 0
          /\ notice' = "sent" => notice = "sent" \/ mails' > 0
      BY <1>1, <1>2, <1>3, <1>5 DEF NoticeTypeOK, Working
    <2>2. QED BY <1>1, <1>2, <1>3, <1>5, <2>1, ReplacedInv

\* SENT is written: from here on only the tasks that read before can send.
LEMMA RecordsSentInv ==
  ASSUME NoticeIInv, NEW t \in DOMAIN tasks, RecordsSent(t) PROVE NoticeIInv'
  <1>1. /\ NoticeTypeOK /\ LedgerIInv' /\ at' = at /\ notice' = "sent"
        /\ UNCHANGED <<queueing, mails, unsaved, reopened, faults>>
        /\ tasks[t].stage = "mailed" /\ Moves(t, "done")
    BY LedgerStepInv DEF RecordsSent, NoticeIInv, ledgerVars
  <1>2. PICK x \in Task :
          x.stage = "done" /\ x.retries <= MaxRetries /\ tasks' = [tasks EXCEPT ![t] = x]
    BY <1>1, MovesOne DEF Over
  <1>3. PICK p, k, l, m \in Nat :
          /\ p = Processes /\ k = Processes * reopened
          /\ l = Cardinality(Loaded) /\ m = Cardinality(Mailed)
          /\ l + m <= p
          /\ notice = "sent" => mails + l <= unsaved + k + p
          /\ notice # "sent" => mails <= unsaved + m + k
          /\ unsaved + m <= mails
          /\ mails \in Nat /\ unsaved \in Nat /\ reopened \in Nat /\ faults \in Nat
    BY CountsKnown
  <1>4. Cardinality(Loaded)' = l /\ Cardinality(Mailed)' = m - 1
    <2>1. /\ Cardinality(Loaded)' =
               Cardinality(Loaded) + (IF x.stage = "loaded" THEN 1 ELSE 0)
                                   - (IF tasks[t].stage = "loaded" THEN 1 ELSE 0)
          /\ Cardinality(Mailed)' =
               Cardinality(Mailed) + (IF x.stage = "mailed" THEN 1 ELSE 0)
                                   - (IF tasks[t].stage = "mailed" THEN 1 ELSE 0)
      BY <1>1, <1>2, MoveCounted
    <2>2. QED BY <1>1, <1>2, <1>3, <2>1
  <1>5. m >= 1
    <2>1. IsFiniteSet(Mailed) /\ t \in Mailed
      BY <1>1, TasksCounted DEF Mailed
    <2>2. QED BY <1>3, <2>1, FS_EmptySet
  <1>6. MailsCounted'
    BY <1>1, <1>3, <1>4, <1>5, Allowance DEF MailsCounted
  <1>7. mails' > 0
    BY <1>1, <1>3, <1>5
  <1>8. QED
    <2>1. /\ LedgerIInv' /\ at' = at /\ queueing' = queueing
          /\ notice' \in {"absent", "pending", "sent", "failed"}
          /\ mails' \in Nat /\ mails' >= mails
          /\ unsaved' \in Nat /\ reopened' \in Nat
          /\ faults' \in Nat /\ faults' <= MaxFaults
          /\ x.stage \in Working =>
               tasks[t].stage \in Working \/ Cardinality(Busy) < Processes
          /\ x.stage = "done" => mails' > 0
          /\ notice' = "sent" => notice = "sent" \/ mails' > 0
      BY <1>1, <1>2, <1>3, <1>6, <1>7 DEF NoticeTypeOK, Working
    <2>2. QED BY <1>1, <1>2, <1>3, <1>6, <1>7, <2>1, ReplacedInv

\* A SENT row that is made FAILED opens the allowance of one more round.
LEMMA RecordsFailedInv ==
  ASSUME NoticeIInv, NEW t \in DOMAIN tasks, RecordsFailed(t) PROVE NoticeIInv'
  <1>1. /\ NoticeTypeOK /\ LedgerIInv' /\ at' = at /\ notice' = "failed"
        /\ reopened' = IF notice = "sent" THEN reopened + 1 ELSE reopened
        /\ UNCHANGED <<queueing, mails, unsaved, faults>>
        /\ tasks[t].stage = "refused" /\ Retries(t)
    BY LedgerStepInv DEF RecordsFailed, NoticeIInv, ledgerVars
  <1>2. PICK x \in Task : /\ x.stage \in {"queued", "gave up"}
                          /\ x.retries <= MaxRetries
                          /\ tasks' = [tasks EXCEPT ![t] = x]
    BY <1>1, RetriesOne
  <1>3. PICK p, k, l, m \in Nat :
          /\ p = Processes /\ k = Processes * reopened
          /\ l = Cardinality(Loaded) /\ m = Cardinality(Mailed)
          /\ l + m <= p
          /\ notice = "sent" => mails + l <= unsaved + k + p
          /\ notice # "sent" => mails <= unsaved + m + k
          /\ unsaved + m <= mails
          /\ mails \in Nat /\ unsaved \in Nat /\ reopened \in Nat /\ faults \in Nat
    BY CountsKnown
  <1>4. Cardinality(Loaded)' = l /\ Cardinality(Mailed)' = m
    <2>1. /\ Cardinality(Loaded)' =
               Cardinality(Loaded) + (IF x.stage = "loaded" THEN 1 ELSE 0)
                                   - (IF tasks[t].stage = "loaded" THEN 1 ELSE 0)
          /\ Cardinality(Mailed)' =
               Cardinality(Mailed) + (IF x.stage = "mailed" THEN 1 ELSE 0)
                                   - (IF tasks[t].stage = "mailed" THEN 1 ELSE 0)
      BY <1>1, <1>2, MoveCounted
    <2>2. /\ x.stage # "loaded" /\ x.stage # "mailed"
          /\ tasks[t].stage # "loaded" /\ tasks[t].stage # "mailed"
      BY <1>1, <1>2
    <2>3. QED BY <1>3, <2>1, <2>2
  <1>5. /\ notice = "sent" => Processes * reopened' = k + p
        /\ notice # "sent" => Processes * reopened' = k
    <2>1. CASE notice = "sent"
      <3>1. Processes * (1 + reopened) = k + p /\ reopened' = 1 + reopened
        BY <1>1, <1>3, <2>1, Allowance
      <3>2. QED BY <2>1, <3>1
    <2>2. CASE notice # "sent"
      BY <1>1, <1>3, <2>2
    <2>3. QED BY <2>1, <2>2
  <1>6. MailsCounted'
    BY <1>1, <1>3, <1>4, <1>5 DEF MailsCounted
  <1>7. QED
    <2>1. x.stage \notin Working /\ x.stage # "done"
      BY <1>2 DEF Working
    <2>2. /\ notice' \in {"absent", "pending", "sent", "failed"}
          /\ notice' = "sent" => notice = "sent"
          /\ faults <= MaxFaults
      BY <1>1 DEF NoticeTypeOK
    <2>3. /\ mails' \in Nat /\ mails' >= mails
          /\ unsaved' \in Nat /\ reopened' \in Nat
          /\ faults' \in Nat /\ faults' <= MaxFaults
      BY <1>1, <1>3, <2>2
    <2>4. QED BY <2>1, <2>2, <2>3, <1>1, <1>2, <1>3, <1>6, ReplacedInv

\* A failed statement and a lost process: of a task that has sent, the e-mail
\* becomes an extra one.
LEMMA BreaksOffInv ==
  ASSUME NoticeIInv, NEW t \in DOMAIN tasks, StatementFails(t) \/ TaskLost(t)
  PROVE  NoticeIInv'
  <1>1. /\ NoticeTypeOK /\ at' = at /\ Unsaved(t)
        /\ UNCHANGED <<queueing, mails, notice, reopened>>
        /\ faults' \in {faults, faults + 1} /\ faults' <= MaxFaults
        /\ tasks[t].stage \in Working
    <2>1. faults \in Nat /\ faults <= MaxFaults /\ MaxFaults \in Nat
      BY NoticeAssumption DEF NoticeIInv, NoticeTypeOK, NoticeAssumption
    <2>2. CASE StatementFails(t)
      BY <2>1, <2>2 DEF StatementFails, NoticeIInv, ledgerVars
    <2>3. CASE TaskLost(t)
      BY <2>1, <2>3 DEF TaskLost, NoticeIInv
    <2>4. QED BY <2>2, <2>3
  <1>2. LedgerIInv'
    <2>1. CASE StatementFails(t)
      BY <2>1, LedgerStepInv DEF StatementFails, NoticeIInv
    <2>2. CASE TaskLost(t)
      <3>1. /\ UNCHANGED <<ledger, acked, at, job, raises>>
            /\ crashes' = crashes + 1 /\ LedgerIInv
        BY <2>2 DEF TaskLost, NoticeIInv
      <3>2. QED BY <3>1 DEF LedgerIInv, LedgerTypeOK, HeldIsProcessing,
                        HandlerExclusive, AckedWasClaimed, Holds
    <2>3. QED BY <2>1, <2>2
  <1>3. PICK x \in Task : /\ x.stage \in {"queued", "gave up", "lost"}
                          /\ x.retries <= MaxRetries
                          /\ tasks' = [tasks EXCEPT ![t] = x]
    <2>1. CASE StatementFails(t)
      BY <1>1, <2>1, RetriesOne DEF StatementFails
    <2>2. CASE TaskLost(t)
      BY <1>1, <2>2, MovesOne DEF TaskLost, Over
    <2>3. QED BY <2>1, <2>2
  <1>4. PICK p, k, l, m \in Nat :
          /\ p = Processes /\ k = Processes * reopened
          /\ l = Cardinality(Loaded) /\ m = Cardinality(Mailed)
          /\ l + m <= p
          /\ notice = "sent" => mails + l <= unsaved + k + p
          /\ notice # "sent" => mails <= unsaved + m + k
          /\ unsaved + m <= mails
          /\ mails \in Nat /\ unsaved \in Nat /\ reopened \in Nat /\ faults \in Nat
    BY CountsKnown
  <1>5. PICK d \in {0, 1} : d = IF tasks[t].stage = "mailed" THEN 1 ELSE 0
    OBVIOUS
  <1>6. unsaved' = unsaved + d
    BY <1>1, <1>4, <1>5 DEF Unsaved
  <1>7. /\ Cardinality(Loaded)' = l - (IF tasks[t].stage = "loaded" THEN 1 ELSE 0)
        /\ Cardinality(Mailed)' = m - d
    <2>1. /\ Cardinality(Loaded)' =
               Cardinality(Loaded) + (IF x.stage = "loaded" THEN 1 ELSE 0)
                                   - (IF tasks[t].stage = "loaded" THEN 1 ELSE 0)
          /\ Cardinality(Mailed)' =
               Cardinality(Mailed) + (IF x.stage = "mailed" THEN 1 ELSE 0)
                                   - (IF tasks[t].stage = "mailed" THEN 1 ELSE 0)
      BY <1>1, <1>3, MoveCounted
    <2>2. x.stage # "loaded" /\ x.stage # "mailed"
      BY <1>3
    <2>3. QED BY <1>4, <1>5, <2>1, <2>2
  <1>8. d <= m
    <2>1. IsFiniteSet(Mailed) /\ (d = 1 => t \in Mailed)
      BY <1>1, <1>5, TasksCounted DEF Mailed
    <2>2. QED BY <1>4, <2>1, FS_EmptySet
  <1>9. MailsCounted'
    BY <1>1, <1>4, <1>6, <1>7, <1>8, Allowance DEF MailsCounted
  <1>10. QED
    <2>1. x.stage \notin Working /\ x.stage # "done"
      BY <1>3 DEF Working
    <2>2. /\ notice' \in {"absent", "pending", "sent", "failed"}
          /\ notice' = "sent" => notice = "sent"
          /\ faults <= MaxFaults
      BY <1>1 DEF NoticeTypeOK
    <2>3. /\ mails' \in Nat /\ mails' >= mails
          /\ unsaved' \in Nat /\ reopened' \in Nat
          /\ faults' \in Nat /\ faults' <= MaxFaults
      BY <1>1, <1>4, <2>2, <1>5, <1>6
    <2>4. QED BY <2>1, <2>2, <2>3, <1>1, <1>2, <1>3, <1>4, <1>6, <1>9, ReplacedInv

\* Every step keeps the inductive invariant.
LEMMA NoticeStepInv == NoticeIInv /\ [NoticeNext]_vars => NoticeIInv'
  <1> SUFFICES ASSUME NoticeIInv, [NoticeNext]_vars PROVE NoticeIInv'
    OBVIOUS
  <1>1. ASSUME NEW w \in Workers, Handles(w) \/ Dies(w) PROVE NoticeIInv'
    BY <1>1, HandlesInv
  <1>2. ASSUME NEW t \in DOMAIN tasks, Sends(t) \/ TaskLost(t) PROVE NoticeIInv'
    BY <1>2, StartsInv, MailGoesInv, MailRefusedInv, RecordsSentInv,
       RecordsFailedInv, BreaksOffInv DEF Sends
  <1>3. CASE UNCHANGED vars
    <2>1. LedgerIInv'
      BY <1>3, LedgerStepInv DEF NoticeIInv, vars
    <2>2. QED BY <1>3, <2>1
            DEF NoticeIInv, vars, noticeVars, ledgerVars, NoticeTypeOK, LedgerIInv,
                MailsCounted, EndedMeansTold, Busy, Loaded, Mailed
  <1>4. QED BY <1>1, <1>2, <1>3 DEF NoticeNext

\* The inductive invariant holds of every behaviour.
THEOREM NoticeInvariant == NoticeSpec => []NoticeIInv
  <1>1. QED BY NoticeInitInv, NoticeStepInv, PTL DEF NoticeSpec

(* The types of the ledger, the row, the tasks and the counters; retries   *)
(* stay within MaxRetries, and a task to enqueue belongs to a worker that  *)
(* is in its handler.                                                      *)
THEOREM NoticeTypes == NoticeSpec => []NoticeTypeOK
  <1>1. NoticeIInv => NoticeTypeOK
    BY DEF NoticeIInv
  <1>2. QED BY <1>1, NoticeInvariant, PTL

(* For any number of events, web workers, Celery processes, retries,       *)
(* faults and crashes: the customer gets no more than one e-mail per       *)
(* process and reopening, plus those after which SENT was not saved.       *)
THEOREM OneMailPerProcess == NoticeSpec => []MailsBounded
  <1>1. NoticeIInv => MailsBounded
    <2> SUFFICES ASSUME NoticeIInv PROVE MailsBounded
      OBVIOUS
    <2>1. PICK p, k, l, m \in Nat :
            /\ p = Processes /\ k = Processes * reopened
            /\ l = Cardinality(Loaded) /\ m = Cardinality(Mailed)
            /\ l + m <= p
            /\ notice = "sent" => mails + l <= unsaved + k + p
            /\ notice # "sent" => mails <= unsaved + m + k
            /\ unsaved + m <= mails
            /\ mails \in Nat /\ unsaved \in Nat /\ reopened \in Nat /\ faults \in Nat
      BY CountsKnown
    <2>2. Processes * (1 + reopened) = k + p
      BY <2>1, Allowance
    <2>3. mails <= unsaved + (k + p)
      BY <2>1
    <2>4. QED BY <2>2, <2>3 DEF MailsBounded
  <1>2. QED BY <1>1, NoticeInvariant, PTL

(* However its runs fail, repeat and overlap: a task that ends well, and a *)
(* row that says SENT, means that an e-mail went out.                      *)
THEOREM EndedAreTold == NoticeSpec => []EndedMeansTold
  <1>1. NoticeIInv => EndedMeansTold
    BY DEF NoticeIInv
  <1>2. QED BY <1>1, NoticeInvariant, PTL
===============================================================================
