----------------------------- MODULE WebhookLedger -----------------------------
(***************************************************************************)
(* The ledger of Stripe webhook events (StripeWebhookEvent) and the        *)
(* protocol of handle_stripe_webhook_event around it: store the event,     *)
(* claim it with one conditional UPDATE, run the handler, record the       *)
(* outcome with another conditional UPDATE, answer Stripe.  Several web    *)
(* workers run it at once; Stripe redelivers what was not answered with a  *)
(* 200, may deliver an event more than once, and a worker may die at any   *)
(* statement.  What a handler does is left open here (StripeWebhooks fills *)
(* it in): it returns or it raises.                                        *)
(***************************************************************************)
EXTENDS Naturals

CONSTANTS Events,      \* Stripe event ids
          Handled,     \* the events whose type STRIPE_EVENT_HANDLERS knows
          Workers,     \* web workers
          NoEvent,     \* no event: the worker is idle
          Overlapping, \* the events Stripe may deliver again before the earlier
                       \* delivery was answered (its timeout ran out)
          MaxCrashes,  \* bound on worker deaths
          MaxRaises    \* bound on handler exceptions

ASSUME LedgerAssumption ==
  /\ Handled \subseteq Events
  /\ NoEvent \notin Events
  /\ Workers \cap {"free", "lost", "closed"} = {}
  /\ Overlapping \subseteq Events
  /\ MaxCrashes \in Nat
  /\ MaxRaises \in Nat

VARIABLES
  ledger,    \* StripeWebhookEvent.status, "absent" while there is no row
  acked,     \* the events Stripe got a 200 for
  at,        \* the statement of the handler function each worker has reached
  job,       \* the event it is working on
  crashes,   \* worker deaths so far
  raises     \* handler exceptions so far

ledgerVars == <<ledger, acked, at, job, crashes, raises>>

\* Mutants of Claimable.
ClaimableByAll == {"pending", "processing", "failed"}   \* PROCESSING too
ClaimableAgain == {"pending", "failed", "processed"}    \* PROCESSED too
ClaimableOnce  == {"pending"}                           \* FAILED left out

Claimable == {"pending", "failed"}
Terminal  == {"processed", "ignored"}
Running   == {"claimed", "returned", "raised"}

LedgerTypeOK ==
  /\ ledger \in [Events -> {"absent", "processing"} \cup Claimable \cup Terminal]
  /\ acked \subseteq Events
  /\ at \in [Workers -> {"idle", "stored"} \cup Running]
  /\ job \in [Workers -> Events \cup {NoEvent}]
  /\ \A w \in Workers : at[w] # "idle" => job[w] \in Events
  /\ crashes \in Nat
  /\ raises \in Nat

LedgerInit ==
  /\ ledger = [e \in Events |-> "absent"]
  /\ acked = {}
  /\ at = [w \in Workers |-> "idle"]
  /\ job = [w \in Workers |-> NoEvent]
  /\ crashes = 0
  /\ raises = 0
-------------------------------------------------------------------------------
Answer(w) ==
  /\ at' = [at EXCEPT ![w] = "idle"]
  /\ job' = [job EXCEPT ![w] = NoEvent]

Ack(e) == acked' = acked \cup {e}

\* UPDATE ... WHERE pk = e AND status IN from SET status = to
UpdateWhere(e, from, to) ==
  ledger' = [ledger EXCEPT ![e] = IF @ \in from THEN to ELSE @]

\* get_or_create: the row is PENDING when it was not there before.
Receive(w, e) ==
  /\ at[w] = "idle"
  /\ e \in Overlapping \/ \A v \in Workers : job[v] # e
  /\ UpdateWhere(e, {"absent"}, "pending")
  /\ at' = [at EXCEPT ![w] = "stored"]
  /\ job' = [job EXCEPT ![w] = e]
  /\ UNCHANGED <<acked, crashes, raises>>

\* The conditional UPDATE that claims the event, and its row count.
Claim(w) ==
  /\ at[w] = "stored"
  /\ UpdateWhere(job[w], Claimable, "processing")
  /\ IF ledger[job[w]] \in Claimable
     THEN at' = [at EXCEPT ![w] = "claimed"] /\ UNCHANGED <<acked, job>>
     ELSE Answer(w) /\ Ack(job[w])
  /\ UNCHANGED <<crashes, raises>>

\* No handler is registered for the type of the event.
Ignore(w) ==
  /\ at[w] = "claimed"
  /\ job[w] \notin Handled
  /\ UpdateWhere(job[w], {"processing"}, "ignored")
  /\ Answer(w)
  /\ Ack(job[w])
  /\ UNCHANGED <<crashes, raises>>

HandlerReturns(w) ==
  /\ at[w] = "claimed"
  /\ job[w] \in Handled
  /\ at' = [at EXCEPT ![w] = "returned"]
  /\ UNCHANGED <<ledger, acked, job, crashes, raises>>

HandlerRaises(w) ==
  /\ at[w] = "claimed"
  /\ job[w] \in Handled
  /\ raises < MaxRaises
  /\ raises' = raises + 1
  /\ at' = [at EXCEPT ![w] = "raised"]
  /\ UNCHANGED <<ledger, acked, job, crashes>>

RecordProcessed(w) ==
  /\ at[w] = "returned"
  /\ UpdateWhere(job[w], {"processing"}, "processed")
  /\ Answer(w)
  /\ Ack(job[w])
  /\ UNCHANGED <<crashes, raises>>

\* Mutant: the exception is swallowed, Stripe gets a 200.
RecordFailedQuietly(w) ==
  /\ at[w] = "raised"
  /\ UpdateWhere(job[w], {"processing"}, "failed")
  /\ Answer(w)
  /\ Ack(job[w])
  /\ UNCHANGED <<crashes, raises>>

\* The exception is recorded and raised again: Stripe gets a 500.
RecordFailed(w) ==
  /\ at[w] = "raised"
  /\ UpdateWhere(job[w], {"processing"}, "failed")
  /\ Answer(w)
  /\ UNCHANGED <<acked, crashes, raises>>

\* The worker process dies; nothing it wrote is undone, Stripe gets no answer.
Crash(w) ==
  /\ at[w] # "idle"
  /\ crashes < MaxCrashes
  /\ crashes' = crashes + 1
  /\ Answer(w)
  /\ UNCHANGED <<ledger, acked, raises>>

WorkerStep(w) ==
  \/ Claim(w)
  \/ Ignore(w)
  \/ HandlerReturns(w)
  \/ HandlerRaises(w)
  \/ RecordProcessed(w)
  \/ RecordFailed(w)

LedgerNext ==
  \E w \in Workers :
    \/ WorkerStep(w)
    \/ Crash(w)
    \/ \E e \in Events : Receive(w, e)

LedgerSpec == LedgerInit /\ [][LedgerNext]_ledgerVars

(***************************************************************************)
(* Fairness.  A worker that is not killed runs its request to the end.     *)
(* Stripe retries an event until it is answered with a 200, and an idle    *)
(* worker is again and again, not continuously, there to take it: strong   *)
(* fairness of the deliveries Stripe still owes.                           *)
(***************************************************************************)
Retry(e) == e \notin acked /\ \E w \in Workers : Receive(w, e)

LedgerFairness ==
  /\ \A w \in Workers : WF_ledgerVars(WorkerStep(w))
  /\ \A e \in Events : SF_ledgerVars(Retry(e))

FairLedgerSpec == LedgerSpec /\ LedgerFairness
-------------------------------------------------------------------------------
Holds(w, e) == at[w] \in Running /\ job[w] = e

(* However deliveries overlap, no two workers run the handler of one event *)
(* at the same time ("atomically claimed", services/webhook_handlers.py).  *)
HandlerExclusive ==
  \A v, w \in Workers, e \in Events : Holds(v, e) /\ Holds(w, e) => v = w

(* A request at work has its ledger row, and an event a worker is running  *)
(* is PROCESSING until that worker records the outcome: nobody else closes *)
(* or reopens it (this is what the WHERE status = PROCESSING of the two    *)
(* final updates relies on).                                               *)
HeldIsProcessing ==
  \A w \in Workers :
    /\ at[w] # "idle" => ledger[job[w]] # "absent"
    /\ at[w] \in Running => ledger[job[w]] = "processing"

(* Stripe is told 200 only for an event that some worker has claimed: no   *)
(* interleaving of get_or_create and claim answers for an event left       *)
(* PENDING.                                                                *)
AckedWasClaimed ==
  \A e \in acked : ledger[e] \notin {"absent", "pending"}

(* A 200 for an event whose deliveries never overlap means that it is      *)
(* settled for good, or was in the hands of a worker that died.            *)
AckedIsSettled ==
  \A e \in acked \ Overlapping :
    \/ ledger[e] \in Terminal
    \/ ledger[e] = "processing" /\ crashes > 0

(* A FAILED event is still owed by Stripe, which is the only thing that    *)
(* can make it run again (the exception propagates "so Stripe receives a   *)
(* 500/retries").                                                          *)
FailedIsOwed == \A e \in Events : ledger[e] = "failed" => e \notin acked

(* An event recorded PROCESSED or IGNORED never runs again, whatever       *)
(* Stripe redelivers.                                                      *)
TerminalIsFinal ==
  [][\A e \in Events : ledger[e] \in Terminal => ledger'[e] = ledger[e]]_ledgerVars

-------------------------------------------------------------------------------
(* The ledger implements EventClaim: the holder of an event is the worker  *)
(* between claim and record; PROCESSING with no such worker is lost.       *)
holderOf ==
  [e \in Events |->
     IF ledger[e] \in Terminal THEN "closed"
     ELSE IF ledger[e] # "processing" THEN "free"
     ELSE IF \E w \in Workers : Holds(w, e)
          THEN CHOOSE w \in Workers : Holds(w, e)
          ELSE "lost"]

Abstract == INSTANCE EventClaim WITH holder <- holderOf

ClaimedOnceAtATime == Abstract!ClaimSpec

(* Every event whose deliveries never overlap is closed in the end,        *)
(* however often its handler raised first, or is lost with a worker.       *)
EverySettled == \A e \in Events \ Overlapping : <>(holderOf[e] \in {"closed", "lost"})
===============================================================================
