---------------------------- MODULE StripeWebhooks ----------------------------
(***************************************************************************)
(* Billing as the webhooks drive it: Stripe's own subscriptions and the    *)
(* events it emits (external), the ledger protocol of WebhookLedger, and   *)
(* the five handlers of STRIPE_EVENT_HANDLERS acting on the row of one     *)
(* customer.  A handler is three steps that other workers, and Stripe,     *)
(* interleave with: build the DTO (checkout and invoice handlers ask the   *)
(* Stripe API, the others use the event's own object), commit the row-     *)
(* locked transaction, enqueue the email after the commit.  Each invoice   *)
(* event is an invoice of its own: repeated attempts of one invoice share  *)
(* a notification row, which is left to a module on the emails.  The user's*)
(* requests to the cancellation view are declared here, for webhooks leave *)
(* them alone; what they do is the subject of Cancellation.                *)
(***************************************************************************)
EXTENDS WebhookLedger, SubscriptionRow, Sequences

CONSTANTS MaxEvents,   \* bound on the events Stripe emits
          MaxPeriod,   \* bound on billing periods
          InOrder,     \* are events delivered in the order they were emitted?
          Unreadable,  \* may a subscription carry no readable period end?
          Tabs         \* requests of the user to the cancellation view

ASSUME BillingAssumption ==
  /\ MaxEvents \in Nat
  /\ Events = 1 .. MaxEvents
  /\ Handled = Events
  /\ MaxPeriod \in Nat
  /\ InOrder \in BOOLEAN
  /\ Unreadable \in BOOLEAN

VARIABLES
  stripe,     \* Stripe's subscriptions
  log,        \* the events Stripe has emitted, in order
  row,        \* the UserSubscription row
  dto,        \* what the handler of each worker has read
  committed,  \* has its transaction committed, with an email still to enqueue?
  notices,    \* the paid and failed events with a StripeInvoiceNotification
  mails,      \* the events whose email task was enqueued
  cancelAt,   \* the step each request to the cancellation view has reached
  copy,       \* the row it read
  replyEnd,   \* the period end in Stripe's reply, 0 when unreadable
  saved       \* ghost: has a cancellation been saved?

billingVars == <<stripe, log, row, dto, committed, notices, mails>>
cancelVars == <<cancelAt, copy, replyEnd, saved>>
webhookVars == <<ledgerVars, billingVars>>
vars == <<webhookVars, cancelVars>>

FetchedTypes == {"checkout", "paid", "failed"}
EventType == FetchedTypes \cup {"updated", "deleted"}
Event == [type : EventType, sub : Subs, snap : Snapshot \cup {NoSnap}]

\* status "none": no checkout of this subscription has begun.
StripeSub == [status : StripeStatus \cup {"none"}, periodEnd : Nat, cancelling : BOOLEAN]

SnapOf(s) == [sub |-> s, status |-> stripe[s].status, periodEnd |-> stripe[s].periodEnd,
              cancelling |-> stripe[s].cancelling, ended |-> stripe[s].status = "canceled"]

BillingTypeOK ==
  /\ LedgerTypeOK
  /\ stripe \in [Subs -> StripeSub]
  /\ log \in Seq(Event)
  /\ Len(log) <= MaxEvents
  /\ \A w \in Workers : at[w] # "idle" => job[w] <= Len(log)
  /\ row \in Row
  /\ dto \in [Workers -> Snapshot \cup {NoSnap}]
  /\ committed \in [Workers -> BOOLEAN]
  /\ notices \subseteq Events
  /\ mails \subseteq Events

BillingInit ==
  /\ LedgerInit
  /\ stripe = [s \in Subs |-> [status |-> "none", periodEnd |-> 0, cancelling |-> FALSE]]
  /\ log = <<>>
  /\ row = FreshRow
  /\ dto = [w \in Workers |-> NoSnap]
  /\ committed = [w \in Workers |-> FALSE]
  /\ notices = {}
  /\ mails = {}
  /\ cancelAt = [t \in Tabs |-> "idle"]
  /\ copy = [t \in Tabs |-> FreshRow]
  /\ replyEnd = [t \in Tabs |-> 0]
  /\ saved = FALSE
-------------------------------------------------------------------------------
(* Stripe (external).                                                      *)

Fetched(type, s) == [type |-> type, sub |-> s, snap |-> NoSnap]
Carried(type, s) == [type |-> type, sub |-> s, snap |-> SnapOf(s)']

StripeMoves(s, status, periodEnd, cancelling) ==
  /\ stripe' = [stripe EXCEPT ![s] = [status |-> status, periodEnd |-> periodEnd,
                                      cancelling |-> cancelling]]
  /\ UNCHANGED <<ledgerVars, row, dto, committed, notices, mails>>

Emit(first, second) ==
  /\ Len(log) + 2 <= MaxEvents
  /\ log' = Append(Append(log, first), second)

EmitOne(event) ==
  /\ Len(log) < MaxEvents
  /\ log' = Append(log, event)

FirstPaymentFails(s) ==
  /\ stripe[s].status = "none"
  /\ StripeMoves(s, "incomplete", 0, FALSE)
  /\ EmitOne(Fetched("failed", s))
  /\ UNCHANGED cancelVars

\* The session event and the first invoice event come in either order.
CheckoutCompletes(s) ==
  /\ stripe[s].status \in {"none", "incomplete"}
  /\ MaxPeriod > 0
  /\ StripeMoves(s, "active", 1, FALSE)
  /\ \/ Emit(Fetched("checkout", s), Fetched("paid", s))
     \/ Emit(Fetched("paid", s), Fetched("checkout", s))
  /\ UNCHANGED cancelVars

Renews(s) ==
  /\ stripe[s].status = "active" /\ ~ stripe[s].cancelling
  /\ stripe[s].periodEnd < MaxPeriod
  /\ StripeMoves(s, "active", stripe[s].periodEnd + 1, FALSE)
  /\ Emit(Carried("updated", s), Fetched("paid", s))
  /\ UNCHANGED cancelVars

RenewalFails(s) ==
  /\ stripe[s].status = "active" /\ ~ stripe[s].cancelling
  /\ stripe[s].periodEnd < MaxPeriod
  /\ StripeMoves(s, "past_due", stripe[s].periodEnd + 1, FALSE)
  /\ Emit(Carried("updated", s), Fetched("failed", s))
  /\ UNCHANGED cancelVars

Recovers(s) ==
  /\ stripe[s].status = "past_due"
  /\ StripeMoves(s, "active", stripe[s].periodEnd, stripe[s].cancelling)
  /\ Emit(Carried("updated", s), Fetched("paid", s))
  /\ UNCHANGED cancelVars

Toggles(s) ==
  /\ stripe[s].status \in {"active", "past_due"}
  /\ StripeMoves(s, stripe[s].status, stripe[s].periodEnd, ~ stripe[s].cancelling)
  /\ EmitOne(Carried("updated", s))

\* Scheduled or resumed in the Billing Portal.
TogglesCancelling(s) == Toggles(s) /\ UNCHANGED cancelVars

Ends(s) ==
  /\ stripe[s].status \in {"active", "past_due"}
  /\ StripeMoves(s, "canceled", stripe[s].periodEnd, stripe[s].cancelling)
  /\ EmitOne(Carried("deleted", s))
  /\ UNCHANGED cancelVars

Stripe(s) ==
  \/ FirstPaymentFails(s) \/ CheckoutCompletes(s)
  \/ Renews(s) \/ RenewalFails(s) \/ Recovers(s)
  \/ TogglesCancelling(s) \/ Ends(s)
-------------------------------------------------------------------------------
(* The web workers.                                                        *)

Current(w) == log[job[w]]

Forget(w) ==
  /\ dto' = [dto EXCEPT ![w] = NoSnap]
  /\ committed' = [committed EXCEPT ![w] = FALSE]

Deliver(w, e) ==
  /\ e <= Len(log)
  /\ InOrder => \A f \in 1 .. e - 1 : f \in acked
  /\ Receive(w, e)
  /\ UNCHANGED <<billingVars, cancelVars>>

LedgerOnly(w) ==
  /\ Claim(w) \/ RecordProcessed(w) \/ RecordFailed(w)
  /\ UNCHANGED <<billingVars, cancelVars>>

\* The mapper: retrieve_subscription, or the subscription inside the event.
BuildDTO(w) ==
  /\ at[w] = "claimed" /\ dto[w] = NoSnap
  /\ LET e == Current(w)
         read == IF e.type \in FetchedTypes THEN SnapOf(e.sub) ELSE e.snap
     IN \E end \in {read.periodEnd} \cup IF Unreadable THEN {0} ELSE {} :
          dto' = [dto EXCEPT ![w] = [read EXCEPT !.periodEnd = end]]
  /\ UNCHANGED <<ledgerVars, stripe, log, row, committed, notices, mails, cancelVars>>

\* The row after the handler's transaction.
Applied(type, snap) ==
  CASE type = "checkout" -> FromCheckout(row, snap)
    [] type = "paid"     -> FromPaid(row, snap)
    [] type = "failed"   -> FromPaymentFailed(row, snap)
    [] type = "updated"  -> FromUpdated(row, snap)
    [] type = "deleted"  -> FromDeleted(row, snap)

\* Mutant: the e-mail goes with the change of the row, and a retry finds none.
MailsOnChange(type, snap) ==
  \/ type \in {"paid", "failed"} /\ Binds(row, snap.sub)
  \/ type = "deleted" /\ IsCurrent(row, snap.sub) /\ ~ row.ended

\* Does the handler go on to an email?  Not for an event it ignored as stale.
Mails(type, snap) ==
  \/ type \in {"paid", "failed"} /\ Binds(row, snap.sub)
  \/ type = "deleted" /\ IsCurrent(row, snap.sub)

\* Transactions of the customer are serialised by SELECT ... FOR UPDATE.
Commit(w) ==
  /\ at[w] = "claimed" /\ dto[w] # NoSnap /\ ~ committed[w]
  /\ LET type == Current(w).type IN
       /\ row' = Applied(type, dto[w])
       /\ IF Mails(type, dto[w])
          THEN /\ committed' = [committed EXCEPT ![w] = TRUE]
               /\ notices' = IF type = "deleted" THEN notices ELSE notices \cup {job[w]}
               /\ UNCHANGED <<ledgerVars, dto>>
          ELSE HandlerReturns(w) /\ Forget(w) /\ UNCHANGED notices
  /\ UNCHANGED <<stripe, log, mails, cancelVars>>

\* transaction.on_commit(... .delay) of the invoices, .delay of the deletion
Enqueue(w) ==
  /\ committed[w]
  /\ mails' = mails \cup {job[w]}
  /\ HandlerReturns(w)
  /\ Forget(w)
  /\ UNCHANGED <<stripe, log, row, notices, cancelVars>>

\* Stripe, the database or the broker fails: before the commit the transaction
\* is rolled back, after it only the email is missing.
Fails(w) ==
  /\ HandlerRaises(w)
  /\ Forget(w)
  /\ UNCHANGED <<stripe, log, row, notices, mails, cancelVars>>

Dies(w) ==
  /\ Crash(w)
  /\ Forget(w)
  /\ UNCHANGED <<stripe, log, row, notices, mails, cancelVars>>

Runs(w) == LedgerOnly(w) \/ BuildDTO(w) \/ Commit(w) \/ Enqueue(w) \/ Fails(w)

BillingNext ==
  \/ \E s \in Subs : Stripe(s)
  \/ \E w \in Workers : Runs(w) \/ Dies(w) \/ \E e \in Events : Deliver(w, e)

BillingSpec == BillingInit /\ [][BillingNext]_vars
-------------------------------------------------------------------------------
(* Everything the row knows comes from the one subscription it names, and  *)
(* its period end is never beyond what Stripe granted for that one: no     *)
(* order, retry or race of webhooks grants Pro time Stripe did not.        *)
EntitlementBacked ==
  IF row.sid = NoSub
  THEN row.periodEnd = 0 /\ row.started = NoSub
  ELSE row.periodEnd <= stripe[row.sid].periodEnd /\ row.started \in {NoSub, row.sid}

(* Nor is anything still on its way to the row: an event that carries its  *)
(* subscription, or a DTO a worker has read, tells of a period Stripe has  *)
(* granted for that same subscription.                                     *)
InFlightBacked ==
  /\ \A s \in Subs : stripe[s].status \in {"none", "incomplete"} => stripe[s].periodEnd = 0
  /\ \A i \in DOMAIN log :
       /\ stripe[log[i].sub].status # "none"
       /\ log[i].type \notin FetchedTypes =>
            /\ log[i].snap # NoSnap
            /\ log[i].snap.sub = log[i].sub
            /\ log[i].snap.periodEnd <= stripe[log[i].sub].periodEnd
  /\ \A w \in Workers : dto[w] # NoSnap =>
       /\ at[w] = "claimed"
       /\ dto[w].sub = Current(w).sub
       /\ dto[w].periodEnd <= stripe[dto[w].sub].periodEnd

(* Only a checkout event replaces a recorded subscription id (the promise  *)
(* of sync_user_subscription_from_checkout): no late event of a superseded *)
(* subscription takes the row back.                                        *)
OnlyCheckoutRebinds ==
  [][row.sid # NoSub /\ row'.sid # row.sid
       => \E w \in Workers : at[w] = "claimed" /\ Current(w).type = "checkout"]_vars

Settled ==
  /\ \A w \in Workers : at[w] = "idle"
  /\ \A e \in 1 .. Len(log) : ledger[e] \in Terminal

(* When every event is settled the row says what Stripe says about the     *)
(* subscription it names: status, period end and scheduled cancellation.   *)
AgreesWhenSettled ==
  Settled /\ row.sid # NoSub =>
    /\ row.status = MapStatus(stripe[row.sid].status)
    /\ row.periodEnd = stripe[row.sid].periodEnd
    /\ row.cancelling = stripe[row.sid].cancelling

(* A processed paid invoice has its receipt queued, unless an event of     *)
(* another subscription was there too: an invoice that overtakes its       *)
(* checkout is not read as stale (_bind_subscription_event).               *)
ChargedGetsReceipt ==
  \A e \in 1 .. Len(log) :
    /\ log[e].type = "paid"
    /\ ledger[e] = "processed"
    /\ \A f \in 1 .. Len(log) : log[f].sub = log[e].sub
    => e \in notices \cap mails
===============================================================================
