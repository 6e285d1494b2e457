---------------------------- MODULE Billing_proofs ----------------------------
(***************************************************************************)
(* What billing guarantees for any subscriptions, events, workers, requests *)
(* and bounds: first the webhooks (BillingSpec), then the webhooks with    *)
(* cancellation requests (CancelSpec), then the receipts, and last what    *)
(* holds when Stripe's events are handled in order.                        *)
(*                                                                         *)
(* EntitlementBacked is not inductive: a handler writes what it read       *)
(* earlier, so it holds only because InFlightBacked says that all that is  *)
(* still to be written is backed too, and because Stripe never takes a     *)
(* granted period back.  What is on the wire is kept apart from the row    *)
(* (WireInv): it holds whoever else writes the row, a late cancellation    *)
(* too, which may give the row the period of the subscription it was begun *)
(* on.  For events in order, OrderInv says what the row shows between two  *)
(* events, and what a handler that has read and not yet written will write; *)
(* ToldInv adds that the end of a subscription is told by e-mail.          *)
(***************************************************************************)
EXTENDS Cancellation, WebhookLedger_proofs

\* The ledger, the types, and what is read and not yet written.
WireInv ==
  /\ LedgerIInv
  /\ BillingTypeOK
  /\ InFlightBacked

BillingIInv == WireInv /\ EntitlementBacked
-------------------------------------------------------------------------------
\* A step of billing is a step of the ledger, or leaves it alone.
LEMMA BillingStepLedger == [BillingNext]_vars => [LedgerNext]_ledgerVars
  <1> SUFFICES ASSUME [BillingNext]_vars PROVE [LedgerNext]_ledgerVars
    OBVIOUS
  <1>1. ASSUME NEW s \in Subs, Stripe(s) PROVE UNCHANGED ledgerVars
    BY <1>1 DEF Stripe, FirstPaymentFails, CheckoutCompletes, Renews, RenewalFails,
                Recovers, TogglesCancelling, Toggles, Ends, StripeMoves
  <1>2. ASSUME NEW w \in Workers, Runs(w) PROVE [LedgerNext]_ledgerVars
    BY <1>2 DEF Runs, LedgerOnly, BuildDTO, Commit, Enqueue, Fails, LedgerNext,
                WorkerStep
  <1>3. ASSUME NEW w \in Workers, Dies(w) PROVE LedgerNext
    BY <1>3 DEF Dies, LedgerNext
  <1>4. ASSUME NEW w \in Workers, NEW e \in Events, Deliver(w, e) PROVE LedgerNext
    BY <1>4 DEF Deliver, LedgerNext
  <1>5. CASE UNCHANGED vars
    BY <1>5 DEF vars, webhookVars
  <1>6. QED BY <1>1, <1>2, <1>3, <1>4, <1>5 DEF BillingNext
-------------------------------------------------------------------------------
\* What EntitlementBacked says, of any row.
Backed(r) ==
  IF r.sid = NoSub
  THEN r.periodEnd = 0 /\ r.started = NoSub
  ELSE r.periodEnd <= stripe[r.sid].periodEnd /\ r.started \in {NoSub, r.sid}

\* What a synchronisation leaves of a row, and what it writes.
LEMMA SyncedFields ==
  ASSUME NEW r \in Row, NEW snap \in Snapshot, snap.sub \in Subs
  PROVE  /\ Synced(r, snap) \in Row
         /\ Synced(r, snap).sid = r.sid
         /\ Synced(r, snap).started = IF r.started = NoSub THEN snap.sub ELSE r.started
         /\ Synced(r, snap).periodEnd = Resolved(r, snap.periodEnd)
  <1>1. MapStatus(snap.status) \in RowStatus
    BY DEF MapStatus, RowStatus
  <1>2. Resolved(r, snap.periodEnd) \in Nat
    BY DEF Resolved, Row, Snapshot
  <1>3. QED BY <1>1, <1>2 DEF Synced, Row, Snapshot

\* The handlers' transactions write a row, whose period is the old one or the DTO's.
LEMMA AppliedFields ==
  ASSUME row \in Row, NEW type \in EventType, NEW snap \in Snapshot
  PROVE  /\ Applied(type, snap) \in Row
         /\ Applied(type, snap).periodEnd \in {row.periodEnd, snap.periodEnd}
  <1>1. MapStatus(snap.status) \in RowStatus
    BY DEF MapStatus, RowStatus
  <1>2. snap.sub \in Subs
    BY DEF Snapshot
  <1>3. Resolved(row, snap.periodEnd) \in {row.periodEnd, snap.periodEnd}
    BY DEF Resolved
  <1>4. CASE type = "checkout"
    <2>1. Applied(type, snap) = FromCheckout(row, snap)
      BY <1>4 DEF Applied
    <2>2. QED BY <1>1, <1>2, <2>1 DEF FromCheckout, Row, Snapshot
  <1>5. CASE type = "paid"
    <2>1. Applied(type, snap) = FromPaid(row, snap)
      BY <1>5 DEF Applied
    <2>2. [Synced(row, snap) EXCEPT !.sid = snap.sub] \in Row
          /\ [Synced(row, snap) EXCEPT !.sid = snap.sub].periodEnd = Resolved(row, snap.periodEnd)
      BY <1>2, SyncedFields DEF Row
    <2>3. QED BY <1>3, <2>1, <2>2 DEF FromPaid
  <1>6. CASE type = "failed"
    <2>1. Applied(type, snap) = FromPaymentFailed(row, snap)
      BY <1>6 DEF Applied
    <2>2. QED BY <1>1, <1>2, <2>1 DEF FromPaymentFailed, Row
  <1>7. CASE type = "updated"
    <2>1. Applied(type, snap) = FromUpdated(row, snap)
      BY <1>7 DEF Applied
    <2>2. QED BY <1>2, <1>3, <2>1, SyncedFields DEF FromUpdated
  <1>8. CASE type = "deleted"
    <2>1. Applied(type, snap) = FromDeleted(row, snap)
      BY <1>8 DEF Applied
    <2>2. QED BY <2>1 DEF FromDeleted, Row, RowStatus, Snapshot
  <1>9. QED BY <1>4, <1>5, <1>6, <1>7, <1>8 DEF EventType, FetchedTypes

\* The handlers' transactions: a backed row and a backed DTO give a backed row.
LEMMA AppliedBacked ==
  ASSUME BillingTypeOK, EntitlementBacked,
         NEW type \in EventType, NEW snap \in Snapshot,
         snap.periodEnd <= stripe[snap.sub].periodEnd
  PROVE  Applied(type, snap) \in Row /\ Backed(Applied(type, snap))
  <1>1. row \in Row /\ Backed(row)
    BY DEF BillingTypeOK, EntitlementBacked, Backed
  <1>2. MapStatus(snap.status) \in RowStatus
    BY DEF MapStatus, RowStatus
  <1>3. snap.sub \in Subs /\ snap.sub # NoSub
    BY RowAssumption DEF Snapshot
  <1>4. Resolved(row, snap.periodEnd) \in {row.periodEnd, snap.periodEnd}
    BY DEF Resolved
  <1>5. CASE type = "checkout"
    <2>1. Applied(type, snap) = FromCheckout(row, snap)
      BY <1>5 DEF Applied
    <2>2. QED BY <1>2, <1>3, <2>1 DEF FromCheckout, Row, Snapshot, Backed
  <1>6. CASE type = "paid"
    <2>1. Applied(type, snap) = FromPaid(row, snap)
      BY <1>6 DEF Applied
    <2>2. CASE Binds(row, snap.sub)
      <3>1. Applied(type, snap) = [Synced(row, snap) EXCEPT !.sid = snap.sub]
        BY <2>1, <2>2 DEF FromPaid
      <3>2. row.started \in {NoSub, snap.sub} /\ row.sid \in {NoSub, snap.sub}
        BY <1>1, <2>2 DEF Binds, Backed
      <3>3. Resolved(row, snap.periodEnd) <= stripe[snap.sub].periodEnd
        BY <1>1, <1>4, <2>2 DEF Binds, Backed, BillingTypeOK, StripeSub, Snapshot
      <3>4. QED BY <1>1, <1>3, <3>1, <3>2, <3>3, SyncedFields DEF Row, Backed
    <2>3. CASE ~ Binds(row, snap.sub)
      BY <1>1, <2>1, <2>3 DEF FromPaid
    <2>4. QED BY <2>2, <2>3
  <1>7. CASE type = "failed"
    <2>1. Applied(type, snap) = FromPaymentFailed(row, snap)
      BY <1>7 DEF Applied
    <2>2. CASE Binds(row, snap.sub)
      <3>1. Applied(type, snap) =
              [row EXCEPT !.sid = snap.sub, !.status = MapStatus(snap.status)]
        BY <2>1, <2>2 DEF FromPaymentFailed
      <3>2. row.started \in {NoSub, snap.sub}
        BY <1>1, <2>2 DEF Binds, Backed
      <3>3. row.periodEnd <= stripe[snap.sub].periodEnd
        BY <1>1, <1>3, <2>2 DEF Binds, Backed, BillingTypeOK, StripeSub
      <3>4. QED BY <1>1, <1>2, <1>3, <3>1, <3>2, <3>3 DEF Row, Backed
    <2>3. CASE ~ Binds(row, snap.sub)
      BY <1>1, <2>1, <2>3 DEF FromPaymentFailed
    <2>4. QED BY <2>2, <2>3
  <1>8. CASE type = "updated"
    <2>1. Applied(type, snap) = FromUpdated(row, snap)
      BY <1>8 DEF Applied
    <2>2. CASE IsCurrent(row, snap.sub)
      <3>1. Applied(type, snap) = Synced(row, snap)
        BY <2>1, <2>2 DEF FromUpdated
      <3>2. row.sid = snap.sub
        BY <2>2 DEF IsCurrent
      <3>3. QED BY <1>1, <1>3, <1>4, <3>1, <3>2, SyncedFields DEF Backed
    <2>3. CASE ~ IsCurrent(row, snap.sub)
      BY <1>1, <2>1, <2>3 DEF FromUpdated
    <2>4. QED BY <2>2, <2>3
  <1>9. CASE type = "deleted"
    <2>1. Applied(type, snap) = FromDeleted(row, snap)
      BY <1>9 DEF Applied
    <2>2. QED BY <1>1, <1>3, <2>1
                 DEF FromDeleted, IsCurrent, Row, RowStatus, Snapshot, Backed
  <1>10. QED BY <1>5, <1>6, <1>7, <1>8, <1>9 DEF EventType, FetchedTypes
-------------------------------------------------------------------------------
\* What InFlightBacked says of one event.
EventBacked(e) ==
  /\ stripe[e.sub].status # "none"
  /\ e.type \notin FetchedTypes =>
       /\ e.snap # NoSnap
       /\ e.snap.sub = e.sub
       /\ e.snap.periodEnd <= stripe[e.sub].periodEnd

\* What InFlightBacked says of one subscription.
StripeBacked == \A s \in Subs : stripe[s].status \in {"none", "incomplete"} => stripe[s].periodEnd = 0

\* Stripe never takes a granted period back.
Grows ==
  \A s \in Subs : /\ stripe[s].periodEnd <= stripe'[s].periodEnd
                  /\ stripe[s].status # "none" => stripe'[s].status # "none"

\* A subscription after a move of Stripe, whatever event tells of it.
LEMMA MovesBacked ==
  ASSUME BillingTypeOK, StripeBacked, NEW s \in Subs,
         NEW status \in StripeStatus, NEW periodEnd \in Nat, NEW cancelling \in BOOLEAN,
         stripe[s].periodEnd <= periodEnd,
         status = "incomplete" => periodEnd = 0,
         StripeMoves(s, status, periodEnd, cancelling)
  PROVE  /\ stripe' \in [Subs -> StripeSub]
         /\ StripeBacked'
         /\ Grows
         /\ \A type \in FetchedTypes : \A e \in {Fetched(type, s)} :
              e \in Event /\ EventBacked(e)'
         /\ \A type \in EventType : \A e \in {Carried(type, s)} :
              e \in Event /\ EventBacked(e)'
  <1>1. stripe' = [stripe EXCEPT ![s] = [status |-> status, periodEnd |-> periodEnd,
                                         cancelling |-> cancelling]]
    BY DEF StripeMoves
  <1>2. /\ stripe'[s].status = status
        /\ stripe'[s].periodEnd = periodEnd
        /\ stripe'[s].cancelling = cancelling
        /\ \A t \in Subs \ {s} : stripe'[t] = stripe[t]
    BY <1>1 DEF BillingTypeOK
  <1>3. stripe' \in [Subs -> StripeSub]
    BY <1>1 DEF BillingTypeOK, StripeSub
  <1>4. status # "none"
    BY DEF StripeStatus
  <1>5. StripeBacked'
    BY <1>2, <1>4 DEF StripeBacked
  <1>6. Grows
    BY <1>2, <1>4 DEF Grows, BillingTypeOK, StripeSub
  <1>7. SnapOf(s)' \in Snapshot /\ SnapOf(s)'.sub = s /\ SnapOf(s)'.periodEnd = periodEnd
    BY <1>2 DEF SnapOf, Snapshot
  <1>8. SnapOf(s)' # NoSnap
    BY <1>7, RowAssumption
  <1>9. ASSUME NEW type \in FetchedTypes, NEW e \in {Fetched(type, s)}
        PROVE  e \in Event /\ EventBacked(e)'
    BY <1>2, <1>4 DEF Fetched, Event, EventType, EventBacked
  <1>10. ASSUME NEW type \in EventType, NEW e \in {Carried(type, s)}
         PROVE  e \in Event /\ EventBacked(e)'
    <2>1. e = [type |-> type, sub |-> s, snap |-> SnapOf(s)']
      BY DEF Carried
    <2>2. e \in Event
      BY <1>7, <2>1 DEF Event
    <2>3. e.sub = s /\ e.snap = SnapOf(s)'
      BY <2>1
    <2>4. EventBacked(e)'
      BY <1>2, <1>4, <1>7, <1>8, <2>3 DEF EventBacked
    <2>5. QED BY <2>2, <2>4
  <1>11. QED BY <1>3, <1>5, <1>6, <1>9, <1>10

\* The log only grows, and by backed events.
LogGrows ==
  /\ log' \in Seq(Event)
  /\ Len(log) <= Len(log') /\ Len(log') <= MaxEvents
  /\ \A i \in 1 .. Len(log') :
       IF i <= Len(log) THEN log'[i] = log[i] ELSE EventBacked(log[i])'

\* Emitting one or two backed events.
LEMMA EmitBacked ==
  ASSUME BillingTypeOK, BillingAssumption,
         NEW a \in Event, NEW b \in Event, EventBacked(a)', EventBacked(b)',
         EmitOne(a) \/ Emit(a, b)
  PROVE  LogGrows
  <1>0. log \in Seq(Event) /\ MaxEvents \in Nat
    BY DEF BillingTypeOK, BillingAssumption
  <1>1. CASE EmitOne(a)
    <2>1. log' = Append(log, a) /\ Len(log) < MaxEvents
      BY <1>1 DEF EmitOne
    <2>2. /\ log' \in Seq(Event)
          /\ Len(log') = Len(log) + 1
          /\ \A i \in 1 .. Len(log) : log'[i] = log[i]
          /\ log'[Len(log) + 1] = a
      BY <1>0, <2>1
    <2>3. \A i \in 1 .. Len(log') : i \in 1 .. Len(log) \/ i = Len(log) + 1
      BY <1>0, <2>2
    <2>4. QED BY <1>0, <2>1, <2>2, <2>3 DEF LogGrows
  <1>2. CASE Emit(a, b)
    <2>1. log' = Append(Append(log, a), b) /\ Len(log) + 2 <= MaxEvents
      BY <1>2 DEF Emit
    <2>2. /\ log' \in Seq(Event)
          /\ Len(log') = Len(log) + 2
          /\ \A i \in 1 .. Len(log) : log'[i] = log[i]
          /\ log'[Len(log) + 1] = a
          /\ log'[Len(log) + 2] = b
      BY <1>0, <2>1
    <2>3. \A i \in 1 .. Len(log') :
            i \in 1 .. Len(log) \/ i = Len(log) + 1 \/ i = Len(log) + 2
      BY <1>0, <2>2
    <2>4. QED BY <1>0, <2>1, <2>2, <2>3 DEF LogGrows
  <1>3. QED BY <1>1, <1>2

\* Every move of Stripe grants only more, and tells the truth about it.
LEMMA StripeStep ==
  ASSUME BillingTypeOK, StripeBacked, NEW s \in Subs, Stripe(s) \/ Toggles(s)
  PROVE  /\ stripe' \in [Subs -> StripeSub]
         /\ StripeBacked'
         /\ Grows
         /\ LogGrows
         /\ UNCHANGED <<ledgerVars, row, dto, committed, notices, mails>>
  <1>0. /\ stripe[s].periodEnd \in Nat
        /\ stripe[s].cancelling \in BOOLEAN
        /\ stripe[s].status \in {"none", "incomplete"} => stripe[s].periodEnd = 0
    BY DEF BillingTypeOK, StripeSub, StripeBacked
  <1> DEFINE Moved(status, periodEnd, cancelling) ==
               /\ status \in StripeStatus /\ periodEnd \in Nat /\ cancelling \in BOOLEAN
               /\ stripe[s].periodEnd <= periodEnd
               /\ status = "incomplete" => periodEnd = 0
               /\ StripeMoves(s, status, periodEnd, cancelling)
             Done == /\ stripe' \in [Subs -> StripeSub]
                     /\ StripeBacked'
                     /\ Grows
                     /\ UNCHANGED <<ledgerVars, row, dto, committed, notices, mails>>
  <1>1. ASSUME NEW status, NEW periodEnd, NEW cancelling, Moved(status, periodEnd, cancelling)
        PROVE  /\ Done
               /\ \A type \in FetchedTypes : \A e \in {Fetched(type, s)} :
                    e \in Event /\ EventBacked(e)'
               /\ \A type \in EventType : \A e \in {Carried(type, s)} :
                    e \in Event /\ EventBacked(e)'
    BY <1>1, MovesBacked DEF StripeMoves
  <1> USE DEF StripeSub, StripeStatus
  <1> HIDE DEF Done
  <1>2. CASE FirstPaymentFails(s)
    <2>1. Moved("incomplete", 0, FALSE)
      <3>1. StripeMoves(s, "incomplete", 0, FALSE)
        BY <1>2 DEF FirstPaymentFails
      <3>2. stripe[s].periodEnd <= 0 /\ 0 \in Nat
        BY <1>0, <1>2 DEF FirstPaymentFails
      <3>3. QED BY <3>1, <3>2
    <2>2. PICK a \in {Fetched("failed", s)} : TRUE
      OBVIOUS
    <2>3. Done /\ a \in Event /\ EventBacked(a)'
      BY <1>1, <2>1, <2>2 DEF FetchedTypes
    <2>4. EmitOne(a)
      BY <1>2, <2>2 DEF FirstPaymentFails
    <2>5. QED BY <2>3, <2>4, EmitBacked, BillingAssumption DEF Done
  <1>3. CASE CheckoutCompletes(s)
    <2>1. Moved("active", 1, FALSE)
      <3>1. StripeMoves(s, "active", 1, FALSE)
        BY <1>3 DEF CheckoutCompletes
      <3>2. stripe[s].periodEnd <= 1
        BY <1>0, <1>3 DEF CheckoutCompletes
      <3>3. QED BY <3>1, <3>2
    <2>2. PICK a \in {Fetched("checkout", s)} : TRUE
      OBVIOUS
    <2>3. PICK b \in {Fetched("paid", s)} : TRUE
      OBVIOUS
    <2>4. Done /\ a \in Event /\ EventBacked(a)' /\ b \in Event /\ EventBacked(b)'
      BY <1>1, <2>1, <2>2, <2>3 DEF FetchedTypes
    <2>5. Emit(a, b) \/ Emit(b, a)
      BY <1>3, <2>2, <2>3 DEF CheckoutCompletes
    <2>6. QED BY <2>4, <2>5, EmitBacked, BillingAssumption DEF Done
  <1>4. CASE Renews(s) \/ RenewalFails(s) \/ Recovers(s)
    <2>1. \/ Moved("active", stripe[s].periodEnd + 1, FALSE)
          \/ Moved("past_due", stripe[s].periodEnd + 1, FALSE)
          \/ Moved("active", stripe[s].periodEnd, stripe[s].cancelling)
      <3>1. \/ StripeMoves(s, "active", stripe[s].periodEnd + 1, FALSE)
            \/ StripeMoves(s, "past_due", stripe[s].periodEnd + 1, FALSE)
            \/ StripeMoves(s, "active", stripe[s].periodEnd, stripe[s].cancelling)
        BY <1>4 DEF Renews, RenewalFails, Recovers
      <3>2. /\ stripe[s].periodEnd <= stripe[s].periodEnd + 1
            /\ stripe[s].periodEnd <= stripe[s].periodEnd
            /\ stripe[s].periodEnd + 1 \in Nat
        BY <1>0
      <3>3. QED BY <1>0, <3>1, <3>2
    <2>2. PICK a \in {Carried("updated", s)} : TRUE
      OBVIOUS
    <2>3. PICK b \in {Fetched("paid", s), Fetched("failed", s)} : Emit(a, b)
      BY <1>4, <2>2 DEF Renews, RenewalFails, Recovers
    <2>4. Done /\ a \in Event /\ EventBacked(a)' /\ b \in Event /\ EventBacked(b)'
      BY <1>1, <2>1, <2>2, <2>3 DEF FetchedTypes, EventType
    <2>5. QED BY <2>3, <2>4, EmitBacked, BillingAssumption DEF Done
  <1>5. CASE TogglesCancelling(s) \/ Toggles(s) \/ Ends(s)
    <2>1. \/ Moved(stripe[s].status, stripe[s].periodEnd, ~ stripe[s].cancelling)
          \/ Moved("canceled", stripe[s].periodEnd, stripe[s].cancelling)
      BY <1>0, <1>5 DEF TogglesCancelling, Toggles, Ends
    <2>2. PICK a \in {Carried("updated", s), Carried("deleted", s)} : EmitOne(a)
      BY <1>5 DEF TogglesCancelling, Toggles, Ends
    <2>3. Done /\ a \in Event /\ EventBacked(a)'
      BY <1>1, <2>1, <2>2 DEF EventType
    <2>4. QED BY <2>2, <2>3, EmitBacked, BillingAssumption DEF Done
  <1>6. QED BY <1>2, <1>3, <1>4, <1>5 DEF Stripe
-------------------------------------------------------------------------------
\* What InFlightBacked says of what worker w has read.
ReadBacked(w) ==
  dto[w] # NoSnap => /\ at[w] = "claimed"
                     /\ dto[w].sub = Current(w).sub
                     /\ dto[w].periodEnd <= stripe[dto[w].sub].periodEnd

\* InFlightBacked is these three parts.
LEMMA InFlightParts ==
  InFlightBacked <=> /\ StripeBacked
                     /\ \A i \in DOMAIN log : EventBacked(log[i])
                     /\ \A w \in Workers : ReadBacked(w)
  BY DEF InFlightBacked, StripeBacked, EventBacked, ReadBacked

\* The event a busy worker handles has been emitted.
LEMMA CurrentEvent ==
  ASSUME WireInv, NEW w \in Workers, at[w] # "idle"
  PROVE  /\ job[w] \in DOMAIN log
         /\ Current(w) \in Event
         /\ EventBacked(Current(w))
  <1>1. job[w] \in 1 .. Len(log) /\ log \in Seq(Event)
    BY BillingAssumption DEF WireInv, BillingTypeOK, LedgerTypeOK
  <1>2. QED BY <1>1, InFlightParts DEF WireInv, Current

\* Stripe moves: the log and the DTOs stay backed.
LEMMA StripeKeeps ==
  ASSUME WireInv, LedgerIInv', NEW s \in Subs, Stripe(s) \/ Toggles(s)
  PROVE  WireInv'
  <1>1. /\ BillingTypeOK /\ StripeBacked
        /\ \A i \in DOMAIN log : EventBacked(log[i])
        /\ \A w \in Workers : ReadBacked(w)
    BY InFlightParts DEF WireInv
  <1>2. /\ stripe' \in [Subs -> StripeSub]
        /\ StripeBacked'
        /\ Grows
        /\ LogGrows
        /\ UNCHANGED <<ledgerVars, row, dto, committed, notices, mails>>
    BY <1>1, StripeStep
  <1>3. log \in Seq(Event) /\ log' \in Seq(Event)
    BY <1>1, <1>2 DEF BillingTypeOK, LogGrows
  <1>4. LedgerTypeOK'
    BY DEF LedgerIInv
  <1>5. ASSUME NEW w \in Workers, at'[w] # "idle" PROVE job'[w] <= Len(log')
    <2>1. job[w] \in DOMAIN log
      BY <1>2, <1>5, CurrentEvent DEF ledgerVars
    <2>2. QED BY <1>2, <1>3, <2>1 DEF ledgerVars, LogGrows
  <1>6. BillingTypeOK'
    BY <1>1, <1>2, <1>4, <1>5 DEF BillingTypeOK, LogGrows
  <1>7. ASSUME NEW i \in DOMAIN log' PROVE EventBacked(log[i])'
    <2>1. CASE i <= Len(log)
      <3>0. i \in DOMAIN log /\ log'[i] = log[i]
        BY <1>2, <1>3, <2>1 DEF LogGrows
      <3>1. EventBacked(log[i]) /\ log[i] \in Event
        BY <1>1, <1>3, <3>0
      <3>2. /\ stripe[log[i].sub].periodEnd <= stripe'[log[i].sub].periodEnd
            /\ stripe'[log[i].sub].status # "none"
        BY <1>2, <3>1 DEF Grows, Event, EventBacked
      <3>3. /\ stripe[log[i].sub].periodEnd \in Nat
            /\ stripe'[log[i].sub].periodEnd \in Nat
        BY <1>1, <1>2, <3>1 DEF BillingTypeOK, StripeSub, Event
      <3>4. ASSUME log[i].type \notin FetchedTypes
            PROVE  log[i].snap.periodEnd \in Nat
        BY <3>1, <3>4 DEF EventBacked, Event, Snapshot
      <3>5. QED BY <3>0, <3>1, <3>2, <3>3, <3>4 DEF EventBacked
    <2>2. CASE ~ i <= Len(log)
      BY <1>2, <1>3, <2>2 DEF LogGrows
    <2>3. QED BY <2>1, <2>2
  <1>8. ASSUME NEW w \in Workers PROVE ReadBacked(w)'
    <2>1. SUFFICES ASSUME dto[w] # NoSnap PROVE ReadBacked(w)'
      BY <1>2 DEF ReadBacked
    <2>2. /\ dto' = dto /\ at' = at /\ job' = job
      BY <1>2 DEF ledgerVars
    <2>3. /\ dto[w] \in Snapshot /\ at[w] = "claimed"
          /\ dto[w].sub = Current(w).sub
          /\ dto[w].periodEnd <= stripe[dto[w].sub].periodEnd
      BY <1>1, <2>1 DEF BillingTypeOK, ReadBacked
    <2>4. Current(w)' = Current(w)
      <3>1. job[w] \in 1 .. Len(log)
        BY <1>3, <2>3, CurrentEvent
      <3>2. log'[job[w]] = log[job[w]]
        BY <1>2, <1>3, <3>1 DEF LogGrows
      <3>3. QED BY <2>2, <3>2 DEF Current
    <2>5. dto[w].periodEnd <= stripe'[dto[w].sub].periodEnd
      BY <1>1, <1>2, <2>3 DEF Grows, Snapshot, BillingTypeOK, StripeSub
    <2>6. QED BY <2>2, <2>3, <2>4, <2>5 DEF ReadBacked
  <1>9. InFlightBacked'
    <2>1. (InFlightBacked <=> /\ StripeBacked
                              /\ \A i \in DOMAIN log : EventBacked(log[i])
                              /\ \A w \in Workers : ReadBacked(w))'
      BY InFlightParts, PTL
    <2>2. QED BY <1>2, <1>7, <1>8, <2>1
  <1>10. QED BY <1>6, <1>9 DEF WireInv

\* A step of a worker leaves Stripe alone; what is left to show of it.
LEMMA WorkerFrame ==
  ASSUME WireInv, LedgerIInv', UNCHANGED <<stripe, log>>,
         row' \in Row,
         dto' \in [Workers -> Snapshot \cup {NoSnap}],
         committed' \in [Workers -> BOOLEAN],
         notices' \subseteq Events, mails' \subseteq Events,
         \A w \in Workers : at'[w] # "idle" => job'[w] <= Len(log),
         \A w \in Workers : ReadBacked(w)'
  PROVE  WireInv'
  <1>1. BillingTypeOK'
    BY DEF WireInv, BillingTypeOK, LedgerIInv
  <1>2. (InFlightBacked <=> /\ StripeBacked
                            /\ \A i \in DOMAIN log : EventBacked(log[i])
                            /\ \A w \in Workers : ReadBacked(w))'
    BY InFlightParts, PTL
  <1>3. StripeBacked' /\ \A i \in DOMAIN log' : EventBacked(log[i])'
    BY InFlightParts DEF WireInv, StripeBacked, EventBacked
  <1>4. QED BY <1>1, <1>2, <1>3 DEF WireInv

\* Only the ledger moves, for worker w; no DTO is read.
LEMMA LedgerMoves ==
  ASSUME WireInv, LedgerIInv', NEW w \in Workers, UNCHANGED billingVars,
         at[w] = "claimed" => dto[w] = NoSnap,
         \A v \in Workers \ {w} : at'[v] = at[v] /\ job'[v] = job[v],
         at'[w] # "idle" => job'[w] <= Len(log)
  PROVE  WireInv'
  <1>1. UNCHANGED <<stripe, log, row, dto, committed, notices, mails>>
    BY DEF billingVars
  <1>2. BillingTypeOK /\ \A v \in Workers : ReadBacked(v)
    BY InFlightParts DEF WireInv
  <1>3. ASSUME NEW v \in Workers PROVE ReadBacked(v)'
    <2>1. CASE v = w
      BY <1>1, <1>2, <2>1 DEF ReadBacked
    <2>2. CASE v # w
      BY <1>1, <1>2, <2>2 DEF ReadBacked, Current
    <2>3. QED BY <2>1, <2>2
  <1>4. \A v \in Workers : at'[v] # "idle" => job'[v] <= Len(log)
    BY <1>2 DEF BillingTypeOK
  <1>5. row' \in Row
    BY <1>1, <1>2 DEF BillingTypeOK
  <1>6. QED BY <1>1, <1>2, <1>3, <1>4, <1>5, WorkerFrame DEF BillingTypeOK

\* The worker leaves its handler: what it had read is forgotten.
LEMMA Forgets ==
  ASSUME WireInv, LedgerIInv', NEW w \in Workers, Forget(w),
         UNCHANGED <<stripe, log>>,
         row' \in Row, notices' \subseteq Events, mails' \subseteq Events,
         \A v \in Workers \ {w} : at'[v] = at[v] /\ job'[v] = job[v],
         at'[w] # "idle" => job'[w] <= Len(log)
  PROVE  WireInv'
  <1>1. BillingTypeOK /\ \A v \in Workers : ReadBacked(v)
    BY InFlightParts DEF WireInv
  <1>2. /\ dto' \in [Workers -> Snapshot \cup {NoSnap}]
        /\ committed' \in [Workers -> BOOLEAN]
        /\ dto'[w] = NoSnap
        /\ \A v \in Workers \ {w} : dto'[v] = dto[v]
    BY <1>1 DEF Forget, BillingTypeOK
  <1>3. ASSUME NEW v \in Workers PROVE ReadBacked(v)'
    <2>1. CASE v = w
      BY <1>2, <2>1 DEF ReadBacked
    <2>2. CASE v # w
      BY <1>1, <1>2, <2>2 DEF ReadBacked, Current
    <2>3. QED BY <2>1, <2>2
  <1>4. \A v \in Workers : at'[v] # "idle" => job'[v] <= Len(log)
    BY <1>1 DEF BillingTypeOK
  <1>5. QED BY <1>2, <1>3, <1>4, WorkerFrame

\* The mapper reads a backed DTO.
LEMMA BuildKeeps ==
  ASSUME WireInv, LedgerIInv', NEW w \in Workers, BuildDTO(w)
  PROVE  WireInv'
  <1>1. BillingTypeOK /\ \A v \in Workers : ReadBacked(v)
    BY InFlightParts DEF WireInv
  <1>2. /\ UNCHANGED <<at, job, stripe, log, row, committed, notices, mails>>
        /\ at[w] = "claimed"
    BY DEF BuildDTO, ledgerVars
  <1>3. /\ Current(w) \in Event
        /\ EventBacked(Current(w))
    BY <1>2, CurrentEvent
  <1> DEFINE read == IF Current(w).type \in FetchedTypes
                     THEN SnapOf(Current(w).sub) ELSE Current(w).snap
  <1>4. PICK end \in {read.periodEnd, 0} :
          dto' = [dto EXCEPT ![w] = [read EXCEPT !.periodEnd = end]]
    BY DEF BuildDTO
  <1>5. /\ read \in Snapshot
        /\ read.sub = Current(w).sub
        /\ read.periodEnd <= stripe[Current(w).sub].periodEnd
    <2>1. Current(w).sub \in Subs /\ stripe[Current(w).sub] \in StripeSub
      BY <1>1, <1>3 DEF Event, BillingTypeOK
    <2>2. CASE Current(w).type \in FetchedTypes
      BY <1>3, <1>4, <2>1, <2>2 DEF SnapOf, Snapshot, StripeSub, EventBacked
    <2>3. CASE Current(w).type \notin FetchedTypes
      BY <1>3, <1>4, <2>1, <2>3 DEF Event, EventBacked
    <2>4. QED BY <2>2, <2>3
  <1>6. /\ dto'[w] \in Snapshot
        /\ dto'[w].sub = Current(w).sub
        /\ dto'[w].periodEnd = end
        /\ \A v \in Workers \ {w} : dto'[v] = dto[v]
        /\ dto' \in [Workers -> Snapshot \cup {NoSnap}]
    <2> HIDE DEF read
    <2>1. end \in Nat
      BY <1>4, <1>5 DEF Snapshot
    <2>2. /\ [read EXCEPT !.periodEnd = end] \in Snapshot
          /\ [read EXCEPT !.periodEnd = end].sub = read.sub
          /\ [read EXCEPT !.periodEnd = end].periodEnd = end
      BY <1>5, <2>1 DEF Snapshot
    <2>3. dto \in [Workers -> Snapshot \cup {NoSnap}]
      BY <1>1 DEF BillingTypeOK
    <2>4. QED BY <1>4, <1>5, <2>2, <2>3
  <1>7. end <= stripe[Current(w).sub].periodEnd
    BY <1>1, <1>3, <1>4, <1>5 DEF BillingTypeOK, StripeSub, Event, Snapshot
  <1>8. ASSUME NEW v \in Workers PROVE ReadBacked(v)'
    <2>1. CASE v = w
      BY <1>2, <1>6, <1>7, <2>1 DEF ReadBacked, Current
    <2>2. CASE v # w
      BY <1>1, <1>2, <1>6, <2>2 DEF ReadBacked, Current
    <2>3. QED BY <2>1, <2>2
  <1>9. row' \in Row
    BY <1>1, <1>2 DEF BillingTypeOK
  <1>10. QED BY <1>1, <1>2, <1>6, <1>8, <1>9, WorkerFrame DEF BillingTypeOK

\* The transaction writes a row, and what is on the wire stays.
LEMMA CommitKeeps ==
  ASSUME WireInv, LedgerIInv', NEW w \in Workers, Commit(w)
  PROVE  WireInv'
  <1>1. /\ BillingTypeOK
        /\ \A v \in Workers : ReadBacked(v)
    BY InFlightParts DEF WireInv
  <1>2. /\ at[w] = "claimed" /\ dto[w] # NoSnap
        /\ row' = Applied(Current(w).type, dto[w])
        /\ UNCHANGED <<stripe, log, mails>>
    BY DEF Commit
  <1>3. /\ Current(w).type \in EventType
        /\ job[w] \in 1 .. Len(log) /\ job[w] \in Events
    BY <1>1, <1>2, CurrentEvent DEF Event, BillingTypeOK, LedgerTypeOK
  <1>4. dto[w] \in Snapshot /\ dto[w].periodEnd <= stripe[dto[w].sub].periodEnd
    BY <1>1, <1>2 DEF BillingTypeOK, ReadBacked
  <1>5. row' \in Row
    BY <1>1, <1>2, <1>3, <1>4, AppliedFields DEF BillingTypeOK
  <1>6. CASE Mails(Current(w).type, dto[w])
    <2>1. /\ UNCHANGED <<at, job, dto>>
          /\ committed' \in [Workers -> BOOLEAN]
          /\ notices' \subseteq Events
      BY <1>1, <1>3, <1>6 DEF Commit, ledgerVars, BillingTypeOK
    <2>2. \A v \in Workers : ReadBacked(v)'
      BY <1>1, <1>2, <2>1 DEF ReadBacked, Current
    <2>3. QED BY <1>1, <1>2, <1>5, <2>1, <2>2, WorkerFrame DEF BillingTypeOK
  <1>7. CASE ~ Mails(Current(w).type, dto[w])
    <2>1. /\ HandlerReturns(w) /\ Forget(w)
          /\ notices' = notices
      BY <1>7 DEF Commit
    <2>2. /\ \A v \in Workers \ {w} : at'[v] = at[v] /\ job'[v] = job[v]
          /\ job'[w] <= Len(log)
      BY <1>1, <1>2, <2>1 DEF HandlerReturns, BillingTypeOK, LedgerTypeOK
    <2>3. QED BY <1>1, <1>2, <1>5, <2>1, <2>2, Forgets DEF BillingTypeOK
  <1>8. QED BY <1>6, <1>7

\* The other steps write no row.
LEMMA OthersKeep ==
  ASSUME WireInv, LedgerIInv', NEW w \in Workers,
         \/ LedgerOnly(w) \/ Enqueue(w) \/ Fails(w) \/ Dies(w)
         \/ \E e \in Events : Deliver(w, e)
  PROVE  WireInv'
  <1>1. /\ BillingTypeOK
        /\ \A v \in Workers : ReadBacked(v)
    BY InFlightParts DEF WireInv
  <1>2. CASE LedgerOnly(w)
    <2>1. at[w] # "claimed" /\ at[w] # "idle" /\ UNCHANGED billingVars
      BY <1>2 DEF LedgerOnly, Claim, RecordProcessed, RecordFailed
    <2>2. /\ \A v \in Workers \ {w} : at'[v] = at[v] /\ job'[v] = job[v]
          /\ at'[w] # "idle" => job'[w] <= Len(log)
      BY <1>1, <1>2, <2>1
         DEF LedgerOnly, Claim, RecordProcessed, RecordFailed, Answer, BillingTypeOK, LedgerTypeOK
    <2>3. QED BY <2>1, <2>2, LedgerMoves
  <1>3. CASE \E e \in Events : Deliver(w, e)
    <2>1. PICK e \in Events : Deliver(w, e)
      BY <1>3
    <2>2. at[w] = "idle" /\ UNCHANGED billingVars /\ e <= Len(log)
      BY <2>1 DEF Deliver, Receive
    <2>3. /\ \A v \in Workers \ {w} : at'[v] = at[v] /\ job'[v] = job[v]
          /\ job'[w] = e
      BY <1>1, <2>1 DEF Deliver, Receive, BillingTypeOK, LedgerTypeOK
    <2>4. QED BY <2>2, <2>3, LedgerMoves
  <1>4. CASE Enqueue(w) \/ Fails(w) \/ Dies(w)
    <2>1. /\ HandlerReturns(w) \/ HandlerRaises(w) \/ Crash(w)
          /\ Forget(w)
          /\ UNCHANGED <<stripe, log, row, notices>>
      BY <1>4 DEF Enqueue, Fails, Dies
    <2>2. at[w] # "idle"
      BY <2>1 DEF HandlerReturns, HandlerRaises, Crash
    <2>3. /\ \A v \in Workers \ {w} : at'[v] = at[v] /\ job'[v] = job[v]
          /\ at'[w] # "idle" => job'[w] <= Len(log)
      BY <1>1, <2>1, <2>2
         DEF HandlerReturns, HandlerRaises, Crash, Answer, BillingTypeOK, LedgerTypeOK
    <2>4. mails' \subseteq Events
      <3>1. job[w] \in Events
        BY <1>1, <2>2 DEF BillingTypeOK, LedgerTypeOK
      <3>2. QED BY <1>1, <1>4, <3>1 DEF Enqueue, Fails, Dies, BillingTypeOK
    <2>5. row' \in Row /\ notices' \subseteq Events
      BY <1>1, <2>1 DEF BillingTypeOK
    <2>6. QED BY <2>1, <2>3, <2>4, <2>5, Forgets
  <1>5. QED BY <1>2, <1>3, <1>4

\* Every step of Stripe and of the workers keeps what is on the wire backed.
LEMMA WireStep == WireInv /\ [BillingNext]_vars => WireInv'
  <1> SUFFICES ASSUME WireInv, [BillingNext]_vars PROVE WireInv'
    OBVIOUS
  <1>1. LedgerIInv'
    BY BillingStepLedger, LedgerStepInv DEF WireInv
  <1>2. ASSUME NEW s \in Subs, Stripe(s) PROVE WireInv'
    BY <1>1, <1>2, StripeKeeps
  <1>3. ASSUME NEW w \in Workers, Runs(w) PROVE WireInv'
    BY <1>1, <1>3, BuildKeeps, CommitKeeps, OthersKeep DEF Runs
  <1>4. ASSUME NEW w \in Workers, Dies(w) \/ \E e \in Events : Deliver(w, e)
        PROVE  WireInv'
    BY <1>1, <1>4, OthersKeep
  <1>5. CASE UNCHANGED vars
    BY <1>5 DEF vars, ledgerVars, webhookVars, billingVars, WireInv, LedgerIInv, LedgerTypeOK,
                HeldIsProcessing, HandlerExclusive, AckedWasClaimed, Holds,
                BillingTypeOK, InFlightBacked, Current
  <1>6. QED BY <1>2, <1>3, <1>4, <1>5 DEF BillingNext

\* What a transaction is given is backed, and its type known.
LEMMA CommitReads ==
  ASSUME WireInv, NEW w \in Workers, Commit(w)
  PROVE  /\ Current(w).type \in EventType
         /\ dto[w] \in Snapshot
         /\ dto[w].periodEnd <= stripe[dto[w].sub].periodEnd
         /\ row' = Applied(Current(w).type, dto[w])
         /\ stripe' = stripe
  <1>1. BillingTypeOK /\ ReadBacked(w)
    BY InFlightParts DEF WireInv
  <1>2. /\ at[w] = "claimed" /\ dto[w] # NoSnap
        /\ row' = Applied(Current(w).type, dto[w])
        /\ stripe' = stripe
    BY DEF Commit
  <1>3. Current(w).type \in EventType
    BY <1>2, CurrentEvent DEF Event
  <1>4. QED BY <1>1, <1>2, <1>3 DEF BillingTypeOK, ReadBacked

\* Only a transaction writes the row, and only Stripe its subscriptions.
LEMMA WhoWrites ==
  ASSUME BillingNext
  PROVE  \/ \E w \in Workers : Commit(w)
         \/ \E s \in Subs : Stripe(s) /\ row' = row
         \/ row' = row /\ stripe' = stripe
  <1>1. ASSUME NEW s \in Subs, Stripe(s) PROVE row' = row
    BY <1>1 DEF Stripe, FirstPaymentFails, CheckoutCompletes, Renews, RenewalFails,
                Recovers, TogglesCancelling, Toggles, Ends, StripeMoves
  <1>2. ASSUME NEW w \in Workers,
               \/ LedgerOnly(w) \/ BuildDTO(w) \/ Enqueue(w) \/ Fails(w) \/ Dies(w)
               \/ \E e \in Events : Deliver(w, e)
        PROVE  row' = row /\ stripe' = stripe
    BY <1>2 DEF LedgerOnly, BuildDTO, Enqueue, Fails, Dies, Deliver, billingVars
  <1>3. QED BY <1>1, <1>2 DEF BillingNext, Runs

\* The row stays backed: by what Stripe grants, and by what the wire carries.
LEMMA EntitlementStep == BillingIInv /\ [BillingNext]_vars => EntitlementBacked'
  <1> SUFFICES ASSUME BillingIInv, [BillingNext]_vars PROVE EntitlementBacked'
    OBVIOUS
  <1>1. WireInv /\ BillingTypeOK /\ EntitlementBacked /\ StripeBacked
    BY InFlightParts DEF BillingIInv, WireInv
  <1>2. ASSUME NEW w \in Workers, Commit(w) PROVE EntitlementBacked'
    <2>1. Backed(row)' <=> Backed(Applied(Current(w).type, dto[w]))
      BY <1>1, <1>2, CommitReads DEF Backed
    <2>2. Backed(Applied(Current(w).type, dto[w]))
      BY <1>1, <1>2, CommitReads, AppliedBacked
    <2>3. QED BY <2>1, <2>2 DEF Backed, EntitlementBacked
  <1>3. ASSUME NEW s \in Subs, Stripe(s), row' = row PROVE EntitlementBacked'
    <2>1. row \in Row /\ stripe' \in [Subs -> StripeSub] /\ Grows
      BY <1>1, <1>3, StripeStep DEF BillingTypeOK
    <2>2. CASE row.sid = NoSub
      BY <1>1, <1>3, <2>2 DEF EntitlementBacked
    <2>3. CASE row.sid # NoSub
      <3>1. row.sid \in Subs /\ row.periodEnd \in Nat
        BY <2>1, <2>3 DEF Row
      <3>2. row.periodEnd <= stripe'[row.sid].periodEnd
        BY <1>1, <2>1, <2>3, <3>1 DEF Grows, EntitlementBacked, BillingTypeOK, StripeSub
      <3>3. QED BY <1>1, <1>3, <2>3, <3>2 DEF EntitlementBacked
    <2>4. QED BY <2>2, <2>3
  <1>4. ASSUME row' = row, stripe' = stripe PROVE EntitlementBacked'
    BY <1>1, <1>4 DEF EntitlementBacked
  <1>5. QED BY <1>2, <1>3, <1>4, WhoWrites DEF vars, webhookVars, billingVars
-------------------------------------------------------------------------------
\* Before any event the row is fresh and nothing is in flight.
LEMMA BillingInitInv == BillingInit => BillingIInv
  <1> SUFFICES ASSUME BillingInit PROVE BillingIInv
    OBVIOUS
  <1>1. LedgerIInv
    BY LedgerInitInv DEF BillingInit
  <1>2. /\ log = <<>> /\ Len(log) = 0 /\ DOMAIN log = {} /\ log \in Seq(Event)
        /\ MaxEvents \in Nat
    BY BillingAssumption DEF BillingInit
  <1>3. row \in Row /\ EntitlementBacked
    BY DEF BillingInit, FreshRow, Row, RowStatus, EntitlementBacked
  <1>4. \A w \in Workers : at[w] = "idle"
    BY DEF BillingInit, LedgerInit
  <1>5. BillingTypeOK
    BY <1>1, <1>2, <1>3, <1>4 DEF BillingInit, BillingTypeOK, LedgerIInv, StripeSub
  <1>6. InFlightBacked
    BY <1>2 DEF BillingInit, InFlightBacked
  <1>7. QED BY <1>1, <1>3, <1>5, <1>6 DEF BillingIInv, WireInv

\* Every step of Stripe and of the workers preserves the inductive invariant.
LEMMA BillingStepInv == BillingIInv /\ [BillingNext]_vars => BillingIInv'
  <1>1. QED BY WireStep, EntitlementStep DEF BillingIInv

\* The inductive invariant holds of every behaviour.
THEOREM BillingInvariant == BillingSpec => []BillingIInv
  <1>1. QED BY BillingInitInv, BillingStepInv, PTL DEF BillingSpec

(* The types of the billing state, for any subscriptions and workers.      *)
THEOREM BillingTypes == BillingSpec => []BillingTypeOK
  <1>1. BillingIInv => BillingTypeOK
    BY DEF BillingIInv, WireInv
  <1>2. QED BY <1>1, BillingInvariant, PTL

(* Whatever is read from Stripe and not yet written is backed by Stripe.   *)
THEOREM InFlightIsBacked == BillingSpec => []InFlightBacked
  <1>1. BillingIInv => InFlightBacked
    BY DEF BillingIInv, WireInv
  <1>2. QED BY <1>1, BillingInvariant, PTL

(* No order, overlap, retry or crash of webhook deliveries gives the row a *)
(* period Stripe did not grant to the subscription the row names.          *)
THEOREM EntitlementIsBacked == BillingSpec => []EntitlementBacked
  <1>1. BillingIInv => EntitlementBacked
    BY DEF BillingIInv, WireInv
  <1>2. QED BY <1>1, BillingInvariant, PTL
-------------------------------------------------------------------------------
Rebinds == row.sid # NoSub /\ row'.sid # row.sid

\* Some worker is in the transaction of a checkout.
ByCheckout == \E w \in Workers : at[w] = "claimed" /\ Current(w).type = "checkout"

\* Of the handlers' transactions only the one of checkout rebinds a bound row.
LEMMA StepRebinds == WireInv /\ [BillingNext]_vars => [Rebinds => ByCheckout]_vars
  <1> SUFFICES ASSUME WireInv, [BillingNext]_vars, Rebinds PROVE ByCheckout
    OBVIOUS
  <1>1. PICK w \in Workers : Commit(w)
    <2>1. row' # row
      BY DEF Rebinds
    <2>2. QED BY <2>1, WhoWrites DEF vars, webhookVars, billingVars
  <1> DEFINE type == Current(w).type
             snap == dto[w]
  <1>2. /\ at[w] = "claimed"
        /\ snap \in Snapshot
        /\ row' = Applied(type, snap)
    BY <1>1, CommitReads DEF Commit
  <1>3. type \in EventType /\ row \in Row
    BY <1>1, CommitReads DEF WireInv, BillingTypeOK
  <1> HIDE DEF type, snap
  <1>4. ASSUME type # "checkout" PROVE row'.sid = row.sid
    <2>1. row.sid # NoSub
      BY DEF Rebinds
    <2>2. snap.sub \in Subs
      BY <1>2 DEF Snapshot
    <2>3. CASE type = "paid"
      <3>1. row' = FromPaid(row, snap)
        BY <1>2, <2>3 DEF Applied
      <3>2. QED BY <1>2, <1>3, <2>1, <2>2, <3>1, SyncedFields DEF FromPaid, Binds, Row
    <2>4. CASE type = "failed"
      <3>1. row' = FromPaymentFailed(row, snap)
        BY <1>2, <2>4 DEF Applied
      <3>2. QED BY <1>3, <2>1, <3>1 DEF FromPaymentFailed, Binds, Row
    <2>5. CASE type = "updated"
      <3>1. row' = FromUpdated(row, snap)
        BY <1>2, <2>5 DEF Applied
      <3>2. QED BY <1>2, <1>3, <2>2, <3>1, SyncedFields DEF FromUpdated
    <2>6. CASE type = "deleted"
      <3>1. row' = FromDeleted(row, snap)
        BY <1>2, <2>6 DEF Applied
      <3>2. QED BY <1>3, <3>1 DEF FromDeleted, Row
    <2>7. QED BY <1>3, <1>4, <2>3, <2>4, <2>5, <2>6 DEF EventType, FetchedTypes
  <1>5. QED BY <1>2, <1>4 DEF Rebinds, ByCheckout, type

(* Only a checkout event replaces a recorded subscription id, whatever is  *)
(* delivered late, twice or at the same time.                              *)
THEOREM OnlyCheckoutMayRebind == BillingSpec => OnlyCheckoutRebinds
  <1>1. BillingIInv /\ [BillingNext]_vars => [Rebinds => ByCheckout]_vars
    BY StepRebinds DEF BillingIInv
  <1>2. QED
    BY <1>1, BillingInvariant, PTL
       DEF BillingSpec, OnlyCheckoutRebinds, Rebinds, ByCheckout
-------------------------------------------------------------------------------
\* The cancellation requests themselves.
RequestsOK ==
  /\ cancelAt \in [Tabs -> {"idle", "asking", "saving"}]
  /\ copy \in [Tabs -> Row]
  /\ replyEnd \in [Tabs -> Nat]
  /\ saved \in BOOLEAN
  /\ \A t \in Tabs : cancelAt[t] # "idle" =>
       copy[t].sid # NoSub /\ copy[t].status \in {"active", "past_due"}

\* The same with cancellation requests.
CancelWire == WireInv /\ RequestsOK
-------------------------------------------------------------------------------
\* Without requests there is nothing to cancel.
LEMMA RequestsInit == BillingInit => RequestsOK
  <1> SUFFICES ASSUME BillingInit PROVE RequestsOK
    OBVIOUS
  <1>1. saved \in BOOLEAN
    BY Zenon DEF BillingInit
  <1>2. FreshRow \in Row
    BY DEF FreshRow, Row, RowStatus
  <1>3. QED BY <1>1, <1>2 DEF BillingInit, RequestsOK

\* Webhooks leave the requests alone.
LEMMA WebhooksLeaveRequests == BillingNext => UNCHANGED cancelVars
  <1>1. ASSUME NEW s \in Subs, Stripe(s) PROVE UNCHANGED cancelVars
    BY <1>1 DEF Stripe, FirstPaymentFails, CheckoutCompletes, Renews, RenewalFails,
                Recovers, TogglesCancelling, Ends
  <1>2. ASSUME NEW w \in Workers, Runs(w) \/ Dies(w) \/ \E e \in Events : Deliver(w, e)
        PROVE  UNCHANGED cancelVars
    BY <1>2 DEF Runs, LedgerOnly, BuildDTO, Commit, Enqueue, Fails, Dies, Deliver
  <1>3. QED BY <1>1, <1>2 DEF BillingNext

\* A save of the cancellation fields gives a row.
LEMMA SavedRow ==
  ASSUME row \in Row, NEW end \in Nat
  PROVE  /\ [row EXCEPT !.cancelling = TRUE, !.periodEnd = end] \in Row
         /\ [row EXCEPT !.cancelling = TRUE, !.periodEnd = end].sid = row.sid
         /\ [row EXCEPT !.cancelling = TRUE, !.periodEnd = end].periodEnd = end
BY DEF Row

\* A request that ends is as it was.
LEMMA EndedRequest ==
  ASSUME RequestsOK, NEW t \in Tabs, Ended(t), saved' \in BOOLEAN
  PROVE  RequestsOK'
  <1>1. FreshRow \in Row
    BY DEF FreshRow, Row, RowStatus
  <1>2. QED BY <1>1 DEF RequestsOK, Ended

\* The ledger does not notice a cancellation.
LEMMA LedgerStays == LedgerIInv /\ UNCHANGED ledgerVars => LedgerIInv'
BY LedgerStepInv

\* Nothing moves but the row.
LEMMA WireStays ==
  ASSUME WireInv, UNCHANGED <<ledgerVars, stripe, log, dto, committed, notices, mails>>,
         row' \in Row
  PROVE  WireInv'
  <1>1. LedgerIInv'
    BY LedgerStays DEF WireInv
  <1>2. \A w \in Workers : ReadBacked(w)'
    BY InFlightParts DEF WireInv, ReadBacked, Current, ledgerVars
  <1>3. BillingTypeOK
    BY DEF WireInv
  <1>4. QED BY <1>1, <1>2, <1>3, WorkerFrame DEF BillingTypeOK, ledgerVars

\* Every step keeps the wire and the requests.
LEMMA CancelWireStep == CancelWire /\ [CancelNext]_vars => CancelWire'
  <1> SUFFICES ASSUME CancelWire, [CancelNext]_vars PROVE CancelWire'
    OBVIOUS
  <1>0. WireInv /\ RequestsOK /\ row \in Row /\ stripe \in [Subs -> StripeSub]
    BY DEF CancelWire, WireInv, BillingTypeOK
  <1>1. CASE BillingNext
    <2>1. WireInv'
      BY <1>0, <1>1, WireStep
    <2>2. UNCHANGED cancelVars
      BY <1>1, WebhooksLeaveRequests
    <2>3. RequestsOK'
      BY <1>0, <2>2 DEF RequestsOK, cancelVars
    <2>4. QED BY <2>1, <2>3 DEF CancelWire
  <1>2. ASSUME NEW t \in Tabs, CancelBegins(t) PROVE CancelWire'
    <2>1. UNCHANGED webhookVars
      BY <1>2 DEF CancelBegins
    <2>2. WireInv'
      BY <1>0, <2>1, WireStays DEF webhookVars, billingVars
    <2>3. RequestsOK'
      BY <1>0, <1>2 DEF CancelBegins, RequestsOK
    <2>4. QED BY <2>2, <2>3 DEF CancelWire
  <1>3. ASSUME NEW t \in Tabs, CancelScheduled(t) PROVE CancelWire'
    <2>1. PICK s \in Subs :
            /\ UNCHANGED webhookVars \/ Toggles(s)
            /\ \E end \in {stripe[s].periodEnd} \cup IF Unreadable THEN {0} ELSE {} :
                 replyEnd' = [replyEnd EXCEPT ![t] = end]
      BY <1>3, Zenon DEF CancelScheduled
    <2>2. ASSUME UNCHANGED webhookVars PROVE WireInv'
      BY <1>0, <2>2, WireStays DEF webhookVars, billingVars
    <2>3. ASSUME Toggles(s) PROVE WireInv'
      <3>1. LedgerIInv'
        BY <1>0, <2>3, LedgerStays DEF WireInv, Toggles, StripeMoves
      <3>2. QED BY <1>0, <2>3, <3>1, StripeKeeps, Zenon
    <2>4. WireInv'
      BY <2>1, <2>2, <2>3
    <2>5. replyEnd' \in [Tabs -> Nat]
      <3>1. stripe[s].periodEnd \in Nat
        BY <1>0 DEF StripeSub
      <3>2. QED BY <1>0, <2>1, <3>1 DEF RequestsOK
    <2>6. RequestsOK'
      BY <1>0, <1>3, <2>5 DEF CancelScheduled, RequestsOK
    <2>7. QED BY <2>4, <2>6 DEF CancelWire
  <1>4. ASSUME NEW t \in Tabs, CancelAborts(t) PROVE CancelWire'
    <2>1. UNCHANGED webhookVars /\ Ended(t) /\ saved' = saved
      BY <1>4 DEF CancelAborts
    <2>2. WireInv'
      BY <1>0, <2>1, WireStays DEF webhookVars, billingVars
    <2>3. saved' \in BOOLEAN
      BY <1>0, <2>1 DEF RequestsOK
    <2>4. QED BY <1>0, <2>1, <2>2, <2>3, EndedRequest DEF CancelWire
  <1>5. ASSUME NEW t \in Tabs, CancelSaves(t) PROVE CancelWire'
    <2>1. Resolved(copy[t], replyEnd[t]) \in Nat
      BY <1>0 DEF Resolved, RequestsOK, Row
    <2>2. row' \in Row
      BY <1>0, <1>5, <2>1, SavedRow DEF CancelSaves
    <2>3. WireInv'
      BY <1>0, <1>5, <2>2, WireStays DEF CancelSaves
    <2>4. saved' \in BOOLEAN /\ Ended(t)
      BY <1>5, Zenon DEF CancelSaves
    <2>5. QED BY <1>0, <2>3, <2>4, EndedRequest DEF CancelWire
  <1>6. CASE UNCHANGED vars
    <2>1. WireInv'
      BY <1>0, <1>6, WireStays DEF vars, webhookVars, billingVars
    <2>2. RequestsOK'
      BY <1>0, <1>6 DEF vars, cancelVars, RequestsOK
    <2>3. QED BY <2>1, <2>2 DEF CancelWire
  <1>7. QED BY <1>1, <1>2, <1>3, <1>4, <1>5, <1>6 DEF CancelNext

\* The wire and the requests, in every behaviour.
LEMMA CancelWireInvariant == CancelSpec => []CancelWire
  <1>1. BillingInit => CancelWire
    BY BillingInitInv, RequestsInit DEF CancelWire, BillingIInv
  <1>2. QED BY <1>1, CancelWireStep, PTL DEF CancelSpec

(* CancelTypeOK: a request that has begun carries a row with a live        *)
(* subscription in it.                                                     *)
THEOREM CancelTyping == CancelSpec => []CancelTypeOK
  <1>1. CancelWire => CancelTypeOK
    BY DEF CancelWire, WireInv, RequestsOK, CancelTypeOK
  <1>2. QED BY <1>1, CancelWireInvariant, PTL
-------------------------------------------------------------------------------
\* A cancellation never writes the row's link.
LEMMA CancelKeepsLink == CancelWire /\ [CancelNext]_vars => [Rebinds => ByCheckout]_vars
  <1> SUFFICES ASSUME CancelWire, [CancelNext]_vars, Rebinds PROVE ByCheckout
    OBVIOUS
  <1>0. WireInv /\ RequestsOK /\ row \in Row
    BY DEF CancelWire, WireInv, BillingTypeOK
  <1>1. CASE [BillingNext]_vars
    <2>1. [Rebinds => ByCheckout]_vars
      BY <1>0, <1>1, StepRebinds
    <2>2. UNCHANGED vars => row' = row
      BY DEF vars, webhookVars, billingVars
    <2>3. QED BY <2>1, <2>2 DEF Rebinds
  <1>2. ASSUME NEW t \in Tabs, CancelBegins(t) \/ CancelScheduled(t) \/ CancelAborts(t)
        PROVE  row' = row
    BY <1>2 DEF CancelBegins, CancelScheduled, CancelAborts, Toggles, StripeMoves,
                webhookVars, billingVars
  <1>3. ASSUME NEW t \in Tabs, CancelSaves(t) PROVE row'.sid = row.sid
    <2>1. Resolved(copy[t], replyEnd[t]) \in Nat
      BY <1>0 DEF Resolved, RequestsOK, Row
    <2>2. QED BY <1>0, <1>3, <2>1, SavedRow DEF CancelSaves
  <1>4. QED BY <1>1, <1>2, <1>3 DEF CancelNext, Rebinds

(* CancelNeverRebinds: however late cancellations are saved, only a        *)
(* checkout event replaces a recorded subscription id.                     *)
THEOREM CancelMayNotRebind == CancelSpec => CancelNeverRebinds
  <1>1. CancelWire /\ [CancelNext]_vars => [Rebinds => ByCheckout]_vars
    BY CancelKeepsLink
  <1>2. QED
    BY <1>1, CancelWireInvariant, PTL
       DEF CancelSpec, CancelNeverRebinds, Rebinds, ByCheckout
-------------------------------------------------------------------------------
\* A period nobody has yet, or one Stripe granted for some subscription.
Granted(end) == end = 0 \/ \E s \in Subs : end <= stripe[s].periodEnd

\* Whatever a save may write was granted.
AllGranted ==
  /\ Granted(row.periodEnd)
  /\ \A t \in Tabs : Granted(copy[t].periodEnd) /\ Granted(replyEnd[t])

\* A granted period stays granted.
LEMMA GrantsStay ==
  ASSUME stripe \in [Subs -> StripeSub], stripe' \in [Subs -> StripeSub],
         stripe' = stripe \/ Grows
  PROVE  \A end \in Nat : Granted(end) => Granted(end)'
  <1> SUFFICES ASSUME NEW end \in Nat, Granted(end) PROVE Granted(end)'
    OBVIOUS
  <1>1. CASE end = 0
    BY <1>1 DEF Granted
  <1>2. CASE end # 0
    <2>1. PICK s \in Subs : end <= stripe[s].periodEnd
      BY <1>2 DEF Granted
    <2>2. stripe[s].periodEnd \in Nat /\ stripe'[s].periodEnd \in Nat
      BY DEF StripeSub
    <2>3. stripe[s].periodEnd <= stripe'[s].periodEnd
      BY <2>2 DEF Grows
    <2>4. QED BY <2>1, <2>2, <2>3 DEF Granted
  <1>3. QED BY <1>1, <1>2

\* Stripe takes no period back, whoever asks it.
LEMMA StripeOnlyGrants ==
  ASSUME CancelWire, [CancelNext]_vars
  PROVE  stripe' = stripe \/ Grows
  <1>1. BillingTypeOK /\ StripeBacked
    BY InFlightParts DEF CancelWire, WireInv
  <1>2. ASSUME NEW s \in Subs, Stripe(s) \/ Toggles(s) PROVE Grows
    BY <1>1, <1>2, StripeStep
  <1>3. CASE BillingNext
    <2>1. ASSUME NEW w \in Workers, Commit(w) PROVE stripe' = stripe
      BY <2>1 DEF Commit
    <2>2. QED BY <1>2, <1>3, <2>1, WhoWrites
  <1>4. ASSUME NEW t \in Tabs, CancelScheduled(t) PROVE stripe' = stripe \/ Grows
    <2>1. PICK s \in Subs : UNCHANGED webhookVars \/ Toggles(s)
      BY <1>4, Zenon DEF CancelScheduled
    <2>2. QED BY <1>2, <2>1 DEF webhookVars, billingVars
  <1>5. ASSUME NEW t \in Tabs, CancelBegins(t) \/ CancelAborts(t) \/ CancelSaves(t)
        PROVE  stripe' = stripe
    BY <1>5 DEF CancelBegins, CancelAborts, CancelSaves, webhookVars, billingVars
  <1>6. CASE UNCHANGED vars
    BY <1>6 DEF vars, webhookVars, billingVars
  <1>7. QED BY <1>3, <1>4, <1>5, <1>6 DEF CancelNext

\* Only granted periods are read, kept and saved.
LEMMA GrantedStep == CancelWire /\ AllGranted /\ [CancelNext]_vars => AllGranted'
  <1> SUFFICES ASSUME CancelWire, AllGranted, [CancelNext]_vars PROVE AllGranted'
    OBVIOUS
  <1>0. /\ WireInv /\ RequestsOK
        /\ row \in Row /\ stripe \in [Subs -> StripeSub] /\ stripe' \in [Subs -> StripeSub]
    BY CancelWireStep DEF CancelWire, WireInv, BillingTypeOK
  <1>1. \A end \in Nat : Granted(end) => Granted(end)'
    BY <1>0, StripeOnlyGrants, GrantsStay
  <1>2. /\ row.periodEnd \in Nat
        /\ \A t \in Tabs : copy[t].periodEnd \in Nat /\ replyEnd[t] \in Nat
    BY <1>0 DEF Row, RequestsOK
  <1>3. /\ Granted(row.periodEnd)'  <=> row'.periodEnd = 0 \/ \E s \in Subs : row'.periodEnd <= stripe'[s].periodEnd
        /\ \A end \in Nat : Granted(end)' <=> end = 0 \/ \E s \in Subs : end <= stripe'[s].periodEnd
    BY DEF Granted
  <1>4. ASSUME row' = row PROVE Granted(row.periodEnd)'
    BY <1>1, <1>2, <1>3, <1>4 DEF AllGranted
  <1>5. ASSUME UNCHANGED cancelVars
        PROVE  \A t \in Tabs : Granted(copy[t].periodEnd)' /\ Granted(replyEnd[t])'
    <2> SUFFICES ASSUME NEW t \in Tabs PROVE Granted(copy[t].periodEnd)' /\ Granted(replyEnd[t])'
      OBVIOUS
    <2>1. copy' = copy /\ replyEnd' = replyEnd
      BY <1>5 DEF cancelVars
    <2>2. Granted(copy[t].periodEnd) /\ Granted(replyEnd[t])
      BY DEF AllGranted
    <2>3. QED BY <1>1, <1>2, <2>1, <2>2 DEF Granted
  <1>6. CASE BillingNext
    <2>1. UNCHANGED cancelVars
      BY <1>6, WebhooksLeaveRequests
    <2>2. Granted(row.periodEnd)'
      <3>1. ASSUME NEW w \in Workers, Commit(w) PROVE Granted(row.periodEnd)'
        <4>1. /\ Current(w).type \in EventType /\ dto[w] \in Snapshot
              /\ dto[w].periodEnd <= stripe[dto[w].sub].periodEnd
              /\ row' = Applied(Current(w).type, dto[w])
          BY <1>0, <3>1, CommitReads
        <4>2. row'.periodEnd \in {row.periodEnd, dto[w].periodEnd}
          BY <1>0, <4>1, AppliedFields
        <4>3. dto[w].periodEnd \in Nat /\ Granted(dto[w].periodEnd)
          BY <4>1 DEF Snapshot, Granted
        <4>4. Granted(row.periodEnd)
          BY DEF AllGranted
        <4>5. QED BY <1>1, <1>2, <1>3, <4>2, <4>3, <4>4
      <3>2. QED BY <1>4, <1>6, <3>1, WhoWrites
    <2>3. QED BY <1>5, <2>1, <2>2 DEF AllGranted
  <1>7. ASSUME NEW t \in Tabs, CancelBegins(t) PROVE AllGranted'
    <2>1. /\ row' = row /\ stripe' = stripe /\ replyEnd' = replyEnd
          /\ copy' = [copy EXCEPT ![t] = row]
      BY <1>7 DEF CancelBegins, webhookVars, billingVars
    <2>2. \A u \in Tabs : copy'[u] = IF u = t THEN row ELSE copy[u]
      BY <1>0, <2>1 DEF RequestsOK
    <2>3. QED BY <2>1, <2>2 DEF AllGranted, Granted
  <1>8. ASSUME NEW t \in Tabs, CancelScheduled(t) PROVE AllGranted'
    <2>1. PICK s \in Subs :
            /\ UNCHANGED webhookVars \/ Toggles(s)
            /\ \E end \in {stripe[s].periodEnd} \cup IF Unreadable THEN {0} ELSE {} :
                 replyEnd' = [replyEnd EXCEPT ![t] = end]
      BY <1>8, Zenon DEF CancelScheduled
    <2>2. PICK end \in {stripe[s].periodEnd, 0} : replyEnd' = [replyEnd EXCEPT ![t] = end]
      BY <2>1
    <2>3. row' = row /\ copy' = copy
      BY <1>8, <2>1 DEF CancelScheduled, Toggles, StripeMoves, webhookVars, billingVars
    <2>4. end \in Nat /\ Granted(end)
      BY <1>0 DEF Granted, StripeSub
    <2>5. ASSUME NEW u \in Tabs PROVE Granted(copy[u].periodEnd)' /\ Granted(replyEnd[u])'
      <3>1. replyEnd'[u] \in {end, replyEnd[u]}
        BY <1>0, <2>2 DEF RequestsOK
      <3>2. Granted(copy[u].periodEnd) /\ Granted(replyEnd[u])
        BY DEF AllGranted
      <3>3. Granted(replyEnd[u])' /\ Granted(copy[u].periodEnd)'
        BY <1>1, <1>2, <2>3, <2>4, <3>1, <3>2 DEF Granted
      <3>4. QED BY <3>3
    <2>6. QED BY <1>4, <2>3, <2>5 DEF AllGranted
  <1>9. ASSUME NEW t \in Tabs, Ended(t), stripe' = stripe
        PROVE  \A u \in Tabs : Granted(copy[u].periodEnd)' /\ Granted(replyEnd[u])'
    <2>1. ASSUME NEW u \in Tabs
          PROVE  /\ copy'[u].periodEnd \in {copy[u].periodEnd, 0}
                 /\ replyEnd'[u] \in {replyEnd[u], 0}
      BY <1>0, <1>9 DEF Ended, RequestsOK, FreshRow
    <2>2. QED BY <1>9, <2>1 DEF AllGranted, Granted
  <1>10. ASSUME NEW t \in Tabs, CancelAborts(t) PROVE AllGranted'
    BY <1>4, <1>9, <1>10 DEF CancelAborts, webhookVars, billingVars, AllGranted
  <1>11. ASSUME NEW t \in Tabs, CancelSaves(t) PROVE AllGranted'
    <2>1. Resolved(copy[t], replyEnd[t]) \in {copy[t].periodEnd, replyEnd[t]}
      BY DEF Resolved
    <2>2. row'.periodEnd = Resolved(copy[t], replyEnd[t])
      BY <1>0, <1>2, <1>11, <2>1, SavedRow DEF CancelSaves
    <2>3. stripe' = stripe /\ Ended(t)
      BY <1>11 DEF CancelSaves
    <2>4. Granted(row.periodEnd)'
      BY <1>3, <2>1, <2>2, <2>3 DEF AllGranted, Granted
    <2>5. QED BY <1>9, <2>3, <2>4 DEF AllGranted
  <1>12. CASE UNCHANGED vars
    BY <1>4, <1>5, <1>12 DEF vars, webhookVars, billingVars, AllGranted
  <1>13. QED BY <1>6, <1>7, <1>8, <1>10, <1>11, <1>12 DEF CancelNext

(* The first part of AccessFollowsStripe, for every subscription, tab and  *)
(* time: unlimited chats only while Stripe has granted some subscription   *)
(* of the customer a period, whatever a late cancellation mixes up.        *)
THEOREM UnlimitedIsGranted ==
  CancelSpec =>
    [](\A now \in Nat :
         Access(row, now) = "unlimited" => \E s \in Subs : now < stripe[s].periodEnd)
  <1>1. BillingInit => AllGranted
    BY DEF BillingInit, FreshRow, AllGranted, Granted
  <1>2. CancelWire /\ AllGranted =>
          \A now \in Nat :
            Access(row, now) = "unlimited" => \E s \in Subs : now < stripe[s].periodEnd
    <2> SUFFICES ASSUME CancelWire, AllGranted, NEW now \in Nat, Access(row, now) = "unlimited"
                 PROVE  \E s \in Subs : now < stripe[s].periodEnd
      OBVIOUS
    <2>1. row.periodEnd > now
      BY DEF Access, Pro
    <2>2. row.periodEnd \in Nat /\ \A s \in Subs : stripe[s].periodEnd \in Nat
      BY DEF CancelWire, WireInv, BillingTypeOK, Row, StripeSub
    <2>3. QED BY <2>1, <2>2 DEF AllGranted, Granted
  <1>3. QED
    BY <1>1, <1>2, CancelWireInvariant, GrantedStep, PTL DEF CancelSpec
-------------------------------------------------------------------------------
\* An event in the ledger has been emitted.
LoggedOnly == \A e \in Events : ledger[e] # "absent" => e <= Len(log)

\* The row names a subscription some event was about.
Linked == row.sid # NoSub => \E i \in 1 .. Len(log) : log[i].sub = row.sid

\* Every event so far is about the subscription of e.
Alike(e) == \A f \in 1 .. Len(log) : log[f].sub = log[e].sub

\* What worker w has done for the receipt of the invoice it handles.
Carrying(w) ==
  /\ committed[w] => at[w] = "claimed" /\ (Current(w).type = "paid" => job[w] \in notices)
  /\ at[w] = "returned" /\ Current(w).type = "paid" /\ Alike(job[w])
       => job[w] \in notices \cap mails

\* What makes ChargedGetsReceipt inductive.
ReceiptInv ==
  /\ LoggedOnly
  /\ Linked
  /\ \A w \in Workers : Carrying(w)
  /\ ChargedGetsReceipt

\* At the start there is nothing to tell of.
LEMMA ReceiptInit == BillingInit => ReceiptInv
BY DEF BillingInit, LedgerInit, FreshRow, ReceiptInv, LoggedOnly, Linked, Carrying,
       ChargedGetsReceipt

\* New events are in no worker's hands, and not in the ledger.
LEMMA ReceiptStripe ==
  ASSUME WireInv, ReceiptInv, LogGrows,
         UNCHANGED <<ledgerVars, row, dto, committed, notices, mails>>
  PROVE  ReceiptInv'
  <1>1. /\ log \in Seq(Event) /\ log' \in Seq(Event) /\ Len(log) <= Len(log')
        /\ Len(log) \in Nat /\ Len(log') \in Nat
        /\ \A i \in 1 .. Len(log) : i \in 1 .. Len(log') /\ log'[i] = log[i]
    BY DEF LogGrows, WireInv, BillingTypeOK
  <1>2. UNCHANGED <<ledger, at, job, row, committed, notices, mails>>
    BY DEF ledgerVars
  <1>3. ledger \in [Events -> {"absent", "processing"} \cup Claimable \cup Terminal]
        /\ Events \subseteq Nat \ {0}
    BY BillingAssumption DEF BillingAssumption, WireInv, BillingTypeOK, LedgerTypeOK
  <1>4. LoggedOnly'
    BY <1>1, <1>2, <1>3 DEF ReceiptInv, LoggedOnly
  <1>5. Linked'
    BY <1>1, <1>2 DEF ReceiptInv, Linked
  <1>6. ASSUME NEW e \in 1 .. Len(log), Alike(e)' PROVE Alike(e)
    BY <1>1, <1>6 DEF Alike
  <1>7. ASSUME NEW w \in Workers PROVE Carrying(w)'
    <2>1. CASE at[w] = "idle"
      BY <1>2, <2>1 DEF ReceiptInv, Carrying
    <2>2. CASE at[w] # "idle"
      <3>1. job[w] \in 1 .. Len(log)
        BY <1>1, <2>2, CurrentEvent
      <3>2. Current(w)' = Current(w)
        BY <1>1, <1>2, <3>1 DEF Current
      <3>3. Alike(job[w])' => Alike(job[w])
        BY <1>2, <1>6, <3>1
      <3>4. QED BY <1>2, <3>2, <3>3 DEF ReceiptInv, Carrying
    <2>3. QED BY <2>1, <2>2
  <1>8. ChargedGetsReceipt'
    <2> SUFFICES ASSUME NEW e \in 1 .. Len(log'), log'[e].type = "paid",
                        ledger'[e] = "processed",
                        \A f \in 1 .. Len(log') : log'[f].sub = log'[e].sub
                 PROVE  e \in notices' \cap mails'
      BY DEF ChargedGetsReceipt
    <2>1. e \in 1 .. Len(log)
      <3>1. e \in Events
        BY <1>1, BillingAssumption DEF LogGrows, BillingAssumption
      <3>2. e <= Len(log)
        BY <1>2, <3>1 DEF ReceiptInv, LoggedOnly
      <3>3. QED BY <1>1, <3>2
    <2>2. log[e].type = "paid" /\ \A f \in 1 .. Len(log) : log[f].sub = log[e].sub
      BY <1>1, <2>1
    <2>3. e \in notices \cap mails
      BY <1>2, <2>1, <2>2 DEF ReceiptInv, ChargedGetsReceipt
    <2>4. QED BY <1>2, <2>3
  <1>9. QED BY <1>4, <1>5, <1>7, <1>8 DEF ReceiptInv

\* A step of worker w: the others carry on, and a row closes only under a worker
\* that has returned.
LEMMA ReceiptWorker ==
  ASSUME WireInv, ReceiptInv, NEW w \in Workers, log' = log,
         \A v \in Workers \ {w} :
           at'[v] = at[v] /\ job'[v] = job[v] /\ committed'[v] = committed[v],
         notices \subseteq notices', mails \subseteq mails',
         \A e \in Events : ledger'[e] # "absent" => ledger[e] # "absent" \/ e <= Len(log),
         \A e \in Events : ledger'[e] = "processed" =>
           ledger[e] = "processed" \/ (at[w] = "returned" /\ e = job[w]),
         Linked', Carrying(w)'
  PROVE  ReceiptInv'
  <1>1. LoggedOnly'
    BY DEF ReceiptInv, LoggedOnly
  <1>2. \A v \in Workers \ {w} : Carrying(v)'
    BY DEF ReceiptInv, Carrying, Current, Alike
  <1>3. ChargedGetsReceipt'
    <2> SUFFICES ASSUME NEW e \in 1 .. Len(log), log[e].type = "paid",
                        ledger'[e] = "processed", Alike(e)
                 PROVE  e \in notices \cap mails
      BY DEF ChargedGetsReceipt, Alike
    <2>1. e \in Events
      BY BillingAssumption DEF BillingAssumption, WireInv, BillingTypeOK
    <2>2. CASE ledger[e] = "processed"
      BY <2>2 DEF ReceiptInv, ChargedGetsReceipt, Alike
    <2>3. CASE at[w] = "returned" /\ e = job[w]
      BY <2>3 DEF ReceiptInv, Carrying, Current
    <2>4. QED BY <2>1, <2>2, <2>3
  <1>4. QED BY <1>1, <1>2, <1>3 DEF ReceiptInv

\* A paid invoice whose handler returns without a receipt was of another
\* subscription than the one the row names.
LEMMA StaleIsForeign ==
  ASSUME WireInv, ReceiptInv, NEW w \in Workers, at[w] = "claimed", dto[w] # NoSnap,
         Current(w).type = "paid", ~ Mails("paid", dto[w])
  PROVE  ~ Alike(job[w])
  <1>1. dto[w].sub = Current(w).sub
    BY InFlightParts DEF WireInv, ReadBacked
  <1>2. row.sid # NoSub /\ row.sid # Current(w).sub
    BY <1>1 DEF Mails, Binds
  <1>3. PICK i \in 1 .. Len(log) : log[i].sub = row.sid
    BY <1>2 DEF ReceiptInv, Linked
  <1>4. QED BY <1>2, <1>3 DEF Alike, Current

\* A transaction links the row to nothing but its event's subscription.
LEMMA AppliedLink ==
  ASSUME row \in Row, NEW type \in EventType, NEW snap \in Snapshot
  PROVE  Applied(type, snap).sid \in {row.sid, snap.sub}
  <1>1. snap.sub \in Subs
    BY DEF Snapshot
  <1>2. CASE type = "checkout"
    BY <1>2 DEF Applied, FromCheckout
  <1>3. CASE type = "paid"
    <2>1. Applied(type, snap) = FromPaid(row, snap)
      BY <1>3 DEF Applied
    <2>2. QED BY <1>1, <2>1, SyncedFields DEF FromPaid, Row
  <1>4. CASE type = "failed"
    <2>1. Applied(type, snap) = FromPaymentFailed(row, snap)
      BY <1>4 DEF Applied
    <2>2. QED BY <2>1 DEF FromPaymentFailed, Row
  <1>5. CASE type = "updated"
    <2>1. Applied(type, snap) = FromUpdated(row, snap)
      BY <1>5 DEF Applied
    <2>2. QED BY <1>1, <2>1, SyncedFields DEF FromUpdated
  <1>6. CASE type = "deleted"
    <2>1. Applied(type, snap) = FromDeleted(row, snap)
      BY <1>6 DEF Applied
    <2>2. QED BY <2>1 DEF FromDeleted, Row
  <1>7. QED BY <1>2, <1>3, <1>4, <1>5, <1>6 DEF EventType, FetchedTypes

\* The transaction leaves a notification row, or the invoice is somebody else's.
LEMMA ReceiptCommit ==
  ASSUME WireInv, ReceiptInv, NEW w \in Workers, Commit(w)
  PROVE  ReceiptInv'
  <1>1. /\ at[w] = "claimed" /\ dto[w] # NoSnap /\ log' = log /\ mails' = mails
        /\ ledger' = ledger /\ job' = job
    BY DEF Commit, ledgerVars, HandlerReturns
  <1>2. /\ job[w] \in DOMAIN log /\ Current(w) \in Event
        /\ dto[w] \in Snapshot /\ dto[w].sub = Current(w).sub
        /\ row' = Applied(Current(w).type, dto[w])
    BY <1>1, CurrentEvent, CommitReads, InFlightParts DEF WireInv, ReadBacked
  <1>3. log \in Seq(Event) /\ job[w] \in 1 .. Len(log) /\ log[job[w]].sub = dto[w].sub
    BY <1>2 DEF WireInv, BillingTypeOK, Current
  <1>4. Linked'
    <2>1. row'.sid \in {row.sid, dto[w].sub}
      <3>1. row \in Row /\ Current(w).type \in EventType
        BY <1>2 DEF WireInv, BillingTypeOK, Event
      <3>2. QED BY <1>2, <3>1, AppliedLink
    <2>2. QED BY <1>1, <1>3, <2>1 DEF ReceiptInv, Linked
  <1>5. CASE Mails(Current(w).type, dto[w])
    <2>1. /\ at' = at
          /\ committed' = [committed EXCEPT ![w] = TRUE]
          /\ notices' = IF Current(w).type = "deleted" THEN notices ELSE notices \cup {job[w]}
      BY <1>5 DEF Commit, ledgerVars
    <2>2. committed \in [Workers -> BOOLEAN]
      BY DEF WireInv, BillingTypeOK
    <2>3. Current(w)' = Current(w)
      BY <1>1 DEF Current
    <2>4. Carrying(w)'
      BY <1>1, <2>1, <2>2, <2>3 DEF Carrying
    <2>5. \A v \in Workers \ {w} : committed'[v] = committed[v]
      BY <2>1, <2>2
    <2>6. notices \subseteq notices'
      BY <2>1
    <2>7. QED BY <1>1, <1>4, <2>1, <2>4, <2>5, <2>6, ReceiptWorker
  <1>6. CASE ~ Mails(Current(w).type, dto[w])
    <2>1. /\ at' = [at EXCEPT ![w] = "returned"]
          /\ committed' = [committed EXCEPT ![w] = FALSE]
          /\ notices' = notices
      BY <1>6 DEF Commit, HandlerReturns, Forget
    <2>2. committed \in [Workers -> BOOLEAN] /\ at \in [Workers -> {"idle", "stored"} \cup Running]
      BY DEF WireInv, BillingTypeOK, LedgerTypeOK
    <2>3. Current(w)' = Current(w) /\ (Alike(job[w])' <=> Alike(job[w]))
      BY <1>1 DEF Current, Alike
    <2>4. Current(w).type = "paid" => ~ Alike(job[w])
      BY <1>1, <1>6, StaleIsForeign
    <2>5. Carrying(w)'
      BY <1>1, <2>1, <2>2, <2>3, <2>4 DEF Carrying
    <2>6. \A v \in Workers \ {w} : committed'[v] = committed[v] /\ at'[v] = at[v]
      BY <2>1, <2>2
    <2>7. QED BY <1>1, <1>4, <2>1, <2>5, <2>6, ReceiptWorker
  <1>7. QED BY <1>5, <1>6

\* The other steps of a worker.
LEMMA ReceiptOthers ==
  ASSUME WireInv, ReceiptInv, NEW w \in Workers,
         \/ LedgerOnly(w) \/ BuildDTO(w) \/ Enqueue(w) \/ Fails(w) \/ Dies(w)
         \/ \E e \in Events : Deliver(w, e)
  PROVE  ReceiptInv'
  <1>1. /\ committed \in [Workers -> BOOLEAN] /\ at \in [Workers -> {"idle", "stored"} \cup Running]
        /\ job \in [Workers -> Events \cup {NoEvent}]
        /\ \A v \in Workers : at[v] # "idle" => job[v] \in Events
        /\ ledger \in [Events -> {"absent", "processing"} \cup Claimable \cup Terminal]
    BY DEF WireInv, BillingTypeOK, LedgerTypeOK
  <1>2. log' = log /\ row' = row
    BY DEF LedgerOnly, BuildDTO, Enqueue, Fails, Dies, Deliver, billingVars
  <1>3. Linked' /\ Carrying(w)
    BY <1>2 DEF ReceiptInv, Linked
  <1>4. /\ job'[w] = job[w] => (Current(w)' = Current(w) /\ (Alike(job[w])' <=> Alike(job[w])))
    BY <1>2 DEF Current, Alike
  <1> USE DEF Running, Claimable, Terminal
  <1>5. CASE LedgerOnly(w)
    <2>1. /\ UNCHANGED <<committed, notices, mails>>
          /\ at[w] # "claimed" /\ at[w] # "idle" /\ at'[w] # "returned"
          /\ ~ committed[w]
      BY <1>1, <1>3, <1>5
         DEF LedgerOnly, Claim, RecordProcessed, RecordFailed, Answer, billingVars, Carrying
    <2>2. \A v \in Workers \ {w} : at'[v] = at[v] /\ job'[v] = job[v]
      BY <1>1, <1>5 DEF LedgerOnly, Claim, RecordProcessed, RecordFailed, Answer
    <2>3. \A e \in Events : /\ ledger'[e] # "absent" => ledger[e] # "absent"
                            /\ ledger'[e] = "processed" =>
                                 ledger[e] = "processed" \/ (at[w] = "returned" /\ e = job[w])
      BY <1>1, <1>5 DEF LedgerOnly, Claim, RecordProcessed, RecordFailed, UpdateWhere
    <2>4. Carrying(w)'
      BY <2>1 DEF Carrying
    <2>5. QED BY <1>2, <1>3, <2>1, <2>2, <2>3, <2>4, ReceiptWorker
  <1>6. CASE BuildDTO(w)
    <2>1. UNCHANGED <<ledger, at, job, committed, notices, mails>>
      BY <1>6 DEF BuildDTO, ledgerVars
    <2>2. Carrying(w)'
      BY <1>3, <1>4, <2>1 DEF Carrying
    <2>3. QED BY <1>2, <1>3, <2>1, <2>2, ReceiptWorker
  <1>7. CASE Enqueue(w)
    <2>1. /\ ledger' = ledger /\ job' = job /\ notices' = notices
          /\ at' = [at EXCEPT ![w] = "returned"]
          /\ mails' = mails \cup {job[w]}
          /\ committed' = [committed EXCEPT ![w] = FALSE]
          /\ committed[w]
      BY <1>7 DEF Enqueue, HandlerReturns, Forget
    <2>2. Carrying(w)'
      BY <1>1, <1>3, <1>4, <2>1 DEF Carrying
    <2>3. \A v \in Workers \ {w} : at'[v] = at[v] /\ committed'[v] = committed[v]
      BY <1>1, <2>1
    <2>4. QED BY <1>2, <1>3, <2>1, <2>2, <2>3, ReceiptWorker
  <1>8. CASE Fails(w) \/ Dies(w)
    <2>1. /\ ledger' = ledger /\ notices' = notices /\ mails' = mails
          /\ at'[w] # "returned" /\ ~ committed'[w]
          /\ \A v \in Workers \ {w} :
               at'[v] = at[v] /\ job'[v] = job[v] /\ committed'[v] = committed[v]
      BY <1>1, <1>8 DEF Fails, Dies, HandlerRaises, Crash, Answer, Forget
    <2>2. Carrying(w)'
      BY <2>1 DEF Carrying
    <2>3. QED BY <1>2, <1>3, <2>1, <2>2, ReceiptWorker
  <1>9. CASE \E e \in Events : Deliver(w, e)
    <2>1. PICK e \in Events : Deliver(w, e)
      BY <1>9
    <2>2. /\ at[w] = "idle" /\ at' = [at EXCEPT ![w] = "stored"]
          /\ job' = [job EXCEPT ![w] = e] /\ e <= Len(log)
          /\ UNCHANGED <<committed, notices, mails>>
          /\ ledger' = [ledger EXCEPT ![e] = IF @ \in {"absent"} THEN "pending" ELSE @]
      BY <2>1 DEF Deliver, Receive, UpdateWhere, billingVars
    <2>3. ~ committed[w] /\ at'[w] = "stored"
      BY <1>1, <1>3, <2>2 DEF Carrying
    <2>4. Carrying(w)'
      BY <2>2, <2>3 DEF Carrying
    <2>5. \A v \in Workers \ {w} : at'[v] = at[v] /\ job'[v] = job[v]
      BY <1>1, <2>2
    <2>6. \A f \in Events : /\ ledger'[f] # "absent" => ledger[f] # "absent" \/ f <= Len(log)
                            /\ ledger'[f] = "processed" => ledger[f] = "processed"
      BY <1>1, <2>2
    <2>7. QED BY <1>2, <1>3, <2>2, <2>4, <2>5, <2>6, ReceiptWorker
  <1>10. QED BY <1>5, <1>6, <1>7, <1>8, <1>9

\* A cancellation's save keeps the link, its other steps the row.
LEMMA ReceiptStays ==
  ASSUME ReceiptInv, UNCHANGED <<ledgerVars, log, committed, notices, mails>>,
         row'.sid = row.sid
  PROVE  ReceiptInv'
BY DEF ReceiptInv, LoggedOnly, Linked, Carrying, Current, Alike, ChargedGetsReceipt, ledgerVars

\* Every step of billing, with or without cancellations.
LEMMA ReceiptStep == CancelWire /\ ReceiptInv /\ [CancelNext]_vars => ReceiptInv'
  <1> SUFFICES ASSUME CancelWire, ReceiptInv, [CancelNext]_vars PROVE ReceiptInv'
    OBVIOUS
  <1>0. /\ WireInv /\ RequestsOK /\ BillingTypeOK /\ StripeBacked /\ row \in Row
    BY InFlightParts DEF CancelWire, WireInv, BillingTypeOK
  <1>1. ASSUME NEW s \in Subs, Stripe(s) \/ Toggles(s) PROVE ReceiptInv'
    <2>1. LogGrows /\ UNCHANGED <<ledgerVars, row, dto, committed, notices, mails>>
      BY <1>0, <1>1, StripeStep
    <2>2. QED BY <1>0, <2>1, ReceiptStripe
  <1>2. ASSUME NEW w \in Workers, Runs(w) \/ Dies(w) \/ \E e \in Events : Deliver(w, e)
        PROVE  ReceiptInv'
    BY <1>0, <1>2, ReceiptCommit, ReceiptOthers DEF Runs
  <1>3. CASE BillingNext
    BY <1>1, <1>2, <1>3 DEF BillingNext
  <1>4. ASSUME UNCHANGED webhookVars PROVE ReceiptInv'
    BY <1>4, ReceiptStays DEF webhookVars, billingVars
  <1>5. ASSUME NEW t \in Tabs, CancelBegins(t) \/ CancelAborts(t) PROVE ReceiptInv'
    BY <1>4, <1>5 DEF CancelBegins, CancelAborts
  <1>6. ASSUME NEW t \in Tabs, CancelScheduled(t) PROVE ReceiptInv'
    <2>1. PICK s \in Subs : UNCHANGED webhookVars \/ Toggles(s)
      BY <1>6, Zenon DEF CancelScheduled
    <2>2. QED BY <1>1, <1>4, <2>1
  <1>7. ASSUME NEW t \in Tabs, CancelSaves(t) PROVE ReceiptInv'
    <2>1. Resolved(copy[t], replyEnd[t]) \in Nat
      BY <1>0 DEF Resolved, RequestsOK, Row
    <2>2. row'.sid = row.sid
      BY <1>0, <1>7, <2>1, SavedRow DEF CancelSaves
    <2>3. QED BY <1>7, <2>2, ReceiptStays DEF CancelSaves
  <1>8. CASE UNCHANGED vars
    BY <1>4, <1>8 DEF vars
  <1>9. QED BY <1>3, <1>5, <1>6, <1>7, <1>8 DEF CancelNext

(* ChargedGetsReceipt, for any subscriptions, events, workers and order of *)
(* deliveries, and also while cancellations are saved: a processed payment *)
(* has its receipt queued unless another subscription had events too.      *)
THEOREM ChargedAreTold == CancelSpec => []ChargedGetsReceipt
  <1>1. ReceiptInv => ChargedGetsReceipt
    BY DEF ReceiptInv
  <1>2. QED BY <1>1, ReceiptInit, ReceiptStep, CancelWireInvariant, PTL DEF CancelSpec

\* Webhooks alone are webhooks with no cancellation request.
LEMMA BillingIsCancel == BillingSpec => CancelSpec
  <1>1. [BillingNext]_vars => [CancelNext]_vars
    BY DEF CancelNext
  <1>2. QED BY <1>1, PTL DEF BillingSpec, CancelSpec

(* The same of the webhooks alone, whatever the order of deliveries.       *)
THEOREM ChargedAreToldByWebhooks == BillingSpec => []ChargedGetsReceipt
  <1>1. QED BY BillingIsCancel, ChargedAreTold, PTL
-------------------------------------------------------------------------------
\* Deliveries in order, each answered before the next, and every period readable.
Orderly == InOrder /\ Overlapping = {} /\ ~ Unreadable

\* The row shows what the handler of event e wrote.
Written(e) ==
  \/ ledger[e] \in Terminal
  \/ \E w \in Workers : /\ job[w] = e
                        /\ at[w] = "returned" \/ (at[w] = "claimed" /\ committed[w])

\* What Stripe has to say of subscription s has been written, all of it or all
\* but the failed invoices.
AllWritten(s)  == \A e \in 1 .. Len(log) : log[e].sub = s => Written(e)
MostWritten(s) == \A e \in 1 .. Len(log) : log[e].sub = s /\ log[e].type # "failed" => Written(e)

\* No event but failed invoices of the same subscription came after event i.
LastWord(i) ==
  \A j \in 1 .. Len(log) : j > i /\ log[j].sub = log[i].sub => log[j].type = "failed"

\* A snapshot, or the row, says of subscription s what Stripe says now.
Tells(snap) ==
  /\ snap.status = stripe[snap.sub].status
  /\ snap.periodEnd = stripe[snap.sub].periodEnd
  /\ snap.cancelling = stripe[snap.sub].cancelling

\* An event reaches the ledger when all before it are answered.
InTurn == \A f \in Events : ledger[f] # "absent" => \A e \in Events : e < f => e \in acked

\* A subscription whose first payment went through.
Begun(s) == stripe[s].status \notin {"none", "incomplete"}

\* Its status and period at Stripe, and the events there are of it.
StripeTrue ==
  /\ \A s \in Subs :
       /\ stripe[s].status \in {"none", "incomplete", "active", "past_due", "canceled"}
       /\ ~ Begun(s) => stripe[s].periodEnd = 0 /\ ~ stripe[s].cancelling
       /\ Begun(s) => /\ stripe[s].periodEnd # 0
                      /\ \E i \in 1 .. Len(log) : log[i].sub = s /\ log[i].type = "checkout"
  /\ \A i \in 1 .. Len(log) : log[i].type # "failed" => Begun(log[i].sub)

\* The last event of a subscription says what Stripe says now.
LogTells ==
  \A i \in 1 .. Len(log) : log[i].type \notin FetchedTypes =>
    /\ LastWord(i) => Tells(log[i].snap)
    /\ log[i].type = "deleted" => log[i].snap.status = "canceled"

\* So does what a handler has read for the last event, fetched or sent.
ReadTells ==
  \A w \in Workers : dto[w] # NoSnap =>
    /\ LastWord(job[w]) => Tells(dto[w])
    /\ Current(w).type = "deleted" => dto[w].status = "canceled"

\* A row without a subscription has nothing on it, and no checkout was written.
Unbound ==
  row.sid = NoSub =>
    /\ row.periodEnd = 0 /\ ~ row.cancelling
    /\ \A t \in Tabs : cancelAt[t] = "idle"
    /\ \A e \in 1 .. Len(log) : Written(e) => log[e].type \notin FetchedTypes

\* A row with a subscription, once all that Stripe has to say of it is written.
Bound ==
  row.sid # NoSub =>
    /\ AllWritten(row.sid) => row.status = MapStatus(stripe[row.sid].status)
    /\ MostWritten(row.sid) =>
         /\ stripe[row.sid].cancelling => row.cancelling
         /\ ~ saved => /\ row.periodEnd = stripe[row.sid].periodEnd
                       /\ row.cancelling = stripe[row.sid].cancelling

\* The row is bound by the newest checkout that was written, while no newer one has
\* been received.
LastCheckout ==
  \A e \in 1 .. Len(log) :
    /\ log[e].type = "checkout"
    /\ Written(e)
    /\ \A f \in e + 1 .. Len(log) : log[f].type = "checkout" => ledger[f] = "absent"
    => row.sid = log[e].sub

\* Billing in step with the events, between any two statements of a handler.
OrderInv == InTurn /\ StripeTrue /\ LogTells /\ ReadTells /\ Unbound /\ Bound /\ LastCheckout

\* All that is known of billing in step with the events.
Facts ==
  /\ CancelWire /\ ReceiptInv /\ SettledInv
  /\ Orderly /\ OrderInv
-------------------------------------------------------------------------------
\* A step of billing with cancellations is a step of the ledger, or leaves it alone.
LEMMA CancelStepLedger == [CancelNext]_vars => [LedgerNext]_ledgerVars
  <1> SUFFICES ASSUME [CancelNext]_vars PROVE [LedgerNext]_ledgerVars
    OBVIOUS
  <1>1. CASE [BillingNext]_vars
    BY <1>1, BillingStepLedger
  <1>2. ASSUME NEW t \in Tabs,
               CancelBegins(t) \/ CancelScheduled(t) \/ CancelAborts(t) \/ CancelSaves(t)
        PROVE  UNCHANGED ledgerVars
    BY <1>2 DEF CancelBegins, CancelScheduled, CancelAborts, CancelSaves, Toggles,
                StripeMoves, webhookVars
  <1>3. QED BY <1>1, <1>2 DEF CancelNext

\* The types, and what is on the wire, one by one.
LEMMA FactTypes ==
  ASSUME Facts
  PROVE  /\ WireInv /\ RequestsOK /\ LedgerIInv /\ Alone /\ BillingTypeOK
         /\ LoggedOnly /\ Linked
         /\ ledger \in [Events -> {"absent", "processing"} \cup Claimable \cup Terminal]
         /\ at \in [Workers -> {"idle", "stored"} \cup Running]
         /\ job \in [Workers -> Events \cup {NoEvent}]
         /\ stripe \in [Subs -> StripeSub] /\ log \in Seq(Event) /\ row \in Row
         /\ dto \in [Workers -> Snapshot \cup {NoSnap}]
         /\ committed \in [Workers -> BOOLEAN]
         /\ Len(log) \in Nat /\ Len(log) <= MaxEvents
         /\ Events = 1 .. MaxEvents /\ MaxEvents \in Nat /\ Handled = Events
         /\ NoEvent \notin Events
         /\ \A i \in 1 .. Len(log) : i \in Events /\ i \in DOMAIN log /\ log[i] \in Event
         /\ \A w \in Workers : committed[w] => at[w] = "claimed"
         /\ \A w \in Workers : at[w] # "idle" => job[w] \in Events /\ job[w] \in 1 .. Len(log)
         /\ InTurn /\ StripeTrue /\ LogTells /\ ReadTells /\ Unbound /\ Bound /\ LastCheckout
         /\ Overlapping = {} /\ InOrder /\ ~ Unreadable
  <1>1. /\ WireInv /\ RequestsOK /\ LedgerIInv /\ Alone /\ BillingTypeOK /\ LedgerTypeOK
        /\ LoggedOnly /\ Linked /\ \A w \in Workers : Carrying(w)
        /\ OrderInv /\ Orderly
    BY DEF Facts, CancelWire, WireInv, SettledInv, LedgerIInv, ReceiptInv
  <1>2. /\ stripe \in [Subs -> StripeSub] /\ log \in Seq(Event) /\ row \in Row
        /\ dto \in [Workers -> Snapshot \cup {NoSnap}]
        /\ committed \in [Workers -> BOOLEAN]
        /\ Len(log) <= MaxEvents
        /\ \A w \in Workers : at[w] # "idle" => job[w] <= Len(log)
    BY <1>1 DEF BillingTypeOK
  <1>3. /\ ledger \in [Events -> {"absent", "processing"} \cup Claimable \cup Terminal]
        /\ at \in [Workers -> {"idle", "stored"} \cup Running]
        /\ job \in [Workers -> Events \cup {NoEvent}]
        /\ \A w \in Workers : at[w] # "idle" => job[w] \in Events
    BY <1>1 DEF LedgerTypeOK
  <1>4. Events = 1 .. MaxEvents /\ MaxEvents \in Nat /\ Handled = Events /\ NoEvent \notin Events
    BY BillingAssumption, LedgerAssumption DEF BillingAssumption, LedgerAssumption
  <1>5. Len(log) \in Nat /\ \A i \in 1 .. Len(log) : i \in Events /\ i \in DOMAIN log /\ log[i] \in Event
    BY <1>2, <1>4
  <1>6. \A w \in Workers : committed[w] => at[w] = "claimed"
    BY <1>1 DEF Carrying
  <1>7. \A w \in Workers : at[w] # "idle" => job[w] \in Events /\ job[w] \in 1 .. Len(log)
    BY <1>2, <1>3, <1>4, <1>5
  <1>8. /\ InTurn /\ StripeTrue /\ LogTells /\ ReadTells /\ Unbound /\ Bound /\ LastCheckout
        /\ Overlapping = {} /\ InOrder /\ ~ Unreadable
    BY <1>1 DEF OrderInv, Orderly
  <1>9. QED BY <1>1, <1>2, <1>3, <1>4, <1>5, <1>6, <1>7, <1>8

\* The event a worker runs is the newest in the ledger, and that worker's alone.
LEMMA HeldIsNewest ==
  ASSUME Facts, NEW w \in Workers, at[w] \in Running
  PROVE  /\ job[w] \notin acked
         /\ ledger[job[w]] = "processing"
         /\ \A v \in Workers \ {w} : job[v] # job[w]
         /\ \A f \in Events : f > job[w] => ledger[f] = "absent" /\ ~ Written(f)
  <1>0. at[w] # "idle"
    BY DEF Running
  <1>1. job[w] \in Events \ Overlapping /\ LedgerIInv /\ Alone /\ InTurn
    BY <1>0, FactTypes
  <1>2. Holds(w, job[w])
    BY DEF Holds
  <1>3. job[w] \notin acked /\ \A v \in Workers \ {w} : job[v] # job[w]
    BY <1>1, <1>2 DEF Alone
  <1>4. \A v \in Workers : at[v] \in Running => ledger[job[v]] = "processing"
    BY <1>1 DEF LedgerIInv, HeldIsProcessing
  <1>5. ASSUME NEW f \in Events, f > job[w] PROVE ledger[f] = "absent" /\ ~ Written(f)
    <2>1. ledger[f] = "absent"
      <3>1. Events \subseteq Nat
        BY FactTypes
      <3>2. job[w] < f
        BY <1>1, <1>5, <3>1
      <3>3. QED BY <1>1, <1>3, <3>2 DEF InTurn
    <2>2. ~ Written(f)
      BY <1>4, <2>1 DEF Written, Terminal, Running
    <2>3. QED BY <2>1, <2>2
  <1>6. QED BY <1>3, <1>4, <1>5
-------------------------------------------------------------------------------
\* A snapshot says of its subscription what Stripe will say after this step.
WillTell(snap) ==
  /\ snap.status = stripe'[snap.sub].status
  /\ snap.periodEnd = stripe'[snap.sub].periodEnd
  /\ snap.cancelling = stripe'[snap.sub].cancelling

\* An event that Stripe adds tells of subscription s as it is then.
Told(s, new) ==
  /\ new.sub = s
  /\ new.type \notin FetchedTypes =>
       WillTell(new.snap) /\ (new.type = "deleted" => new.snap.status = "canceled")

\* What Stripe did to subscription s, and which events tell of it.
Moved(s) ==
  /\ \A t \in Subs \ {s} : stripe'[t] = stripe[t]
  /\ log' \in Seq(Event) /\ Len(log) < Len(log') /\ Len(log') <= MaxEvents
  /\ \A i \in 1 .. Len(log) : log'[i] = log[i]
  /\ \A i \in Len(log) + 1 .. Len(log') : Told(s, log'[i])
  /\ \/ /\ stripe[s].status = "none"
        /\ stripe'[s].status = "incomplete"
        /\ stripe'[s].periodEnd = 0 /\ ~ stripe'[s].cancelling
        /\ \A i \in Len(log) + 1 .. Len(log') : log'[i].type = "failed"
     \/ /\ stripe'[s].status \in {"active", "past_due", "canceled"}
        /\ stripe'[s].periodEnd # 0
        /\ \E i \in Len(log) + 1 .. Len(log') : log'[i].type # "failed"
        /\ Begun(s) \/ \E i \in Len(log) + 1 .. Len(log') : log'[i].type = "checkout"

\* A snapshot of what Stripe did tells of it.
LEMMA CarriedTells ==
  ASSUME stripe \in [Subs -> StripeSub], NEW s \in Subs, NEW status \in StripeStatus,
         NEW periodEnd \in Nat, NEW cancelling \in BOOLEAN,
         StripeMoves(s, status, periodEnd, cancelling)
  PROVE  /\ stripe'[s].status = status /\ stripe'[s].periodEnd = periodEnd
         /\ stripe'[s].cancelling = cancelling
         /\ \A t \in Subs \ {s} : stripe'[t] = stripe[t]
         /\ \A new \in {Carried("updated", s)} : new \in Event /\ new.type = "updated" /\ Told(s, new)
         /\ \A new \in {Carried("deleted", s)} :
              new \in Event /\ new.type = "deleted" /\ (status = "canceled" => Told(s, new))
         /\ \A type \in FetchedTypes : \A new \in {Fetched(type, s)} :
              new \in Event /\ new.type = type /\ Told(s, new)
  <1>1. /\ stripe'[s].status = status /\ stripe'[s].periodEnd = periodEnd
        /\ stripe'[s].cancelling = cancelling
        /\ \A t \in Subs \ {s} : stripe'[t] = stripe[t]
    BY DEF StripeMoves
  <1>2. /\ SnapOf(s)' \in Snapshot /\ SnapOf(s)'.sub = s /\ SnapOf(s)'.status = status
        /\ SnapOf(s)'.periodEnd = periodEnd /\ SnapOf(s)'.cancelling = cancelling
    BY <1>1 DEF SnapOf, Snapshot
  <1>3. ASSUME NEW type \in {"updated", "deleted"}, NEW new \in {Carried(type, s)}
        PROVE  /\ new \in Event /\ new.type = type /\ new.sub = s
               /\ WillTell(new.snap) /\ new.snap.status = status
    <2>1. new = [type |-> type, sub |-> s, snap |-> SnapOf(s)']
      BY <1>3 DEF Carried
    <2>2. new.type = type /\ new.sub = s /\ new.snap = SnapOf(s)'
      BY <2>1
    <2>3. new \in Event
      BY <1>2, <2>1 DEF Event, EventType
    <2>4. WillTell(new.snap)
      BY <1>1, <1>2, <2>2 DEF WillTell
    <2>5. QED BY <1>2, <2>2, <2>3, <2>4
  <1>4. ASSUME NEW type \in FetchedTypes, NEW new \in {Fetched(type, s)}
        PROVE  new \in Event /\ new.type = type /\ Told(s, new)
    BY <1>4 DEF Fetched, Event, EventType, Told
  <1>5. QED BY <1>1, <1>3, <1>4 DEF Told

\* Appending one or two events that tell of the move.
LEMMA EmitsTold ==
  ASSUME log \in Seq(Event), MaxEvents \in Nat, NEW s \in Subs, NEW a \in Event, NEW b \in Event,
         Told(s, a), Told(s, b), EmitOne(a) \/ Emit(a, b)
  PROVE  /\ log' \in Seq(Event) /\ Len(log) < Len(log') /\ Len(log') <= MaxEvents
         /\ \A i \in 1 .. Len(log) : log'[i] = log[i]
         /\ \A i \in Len(log) + 1 .. Len(log') : log'[i] \in {a, b} /\ Told(s, log'[i])
         /\ \E i \in Len(log) + 1 .. Len(log') : log'[i] = a
         /\ Emit(a, b) => \E i \in Len(log) + 1 .. Len(log') : log'[i] = b
         /\ EmitOne(a) => \A i \in Len(log) + 1 .. Len(log') : log'[i] = a
  <1>1. CASE EmitOne(a)
    <2>1. log' = Append(log, a) /\ Len(log) < MaxEvents
      BY <1>1 DEF EmitOne
    <2>2. /\ log' \in Seq(Event) /\ Len(log') = Len(log) + 1 /\ Len(log') <= MaxEvents
          /\ \A i \in 1 .. Len(log) : log'[i] = log[i]
          /\ log'[Len(log) + 1] = a
      BY <2>1
    <2>3. \A i \in Len(log) + 1 .. Len(log') : i = Len(log) + 1
      BY <2>2
    <2>4. ~ Emit(a, b)
      <3>1. Emit(a, b) => Len(log') = Len(log) + 2
        BY DEF Emit
      <3>2. QED BY <2>2, <3>1
    <2>5. QED BY <2>2, <2>3, <2>4
  <1>2. CASE Emit(a, b)
    <2>1. log' = Append(Append(log, a), b) /\ Len(log) + 2 <= MaxEvents
      BY <1>2 DEF Emit
    <2>2. /\ log' \in Seq(Event) /\ Len(log') = Len(log) + 2 /\ Len(log') <= MaxEvents
          /\ \A i \in 1 .. Len(log) : log'[i] = log[i]
          /\ log'[Len(log) + 1] = a /\ log'[Len(log) + 2] = b
      BY <2>1
    <2>3. /\ \A i \in Len(log) + 1 .. Len(log') : i = Len(log) + 1 \/ i = Len(log) + 2
          /\ Len(log) + 1 \in Len(log) + 1 .. Len(log')
          /\ Len(log) + 2 \in Len(log) + 1 .. Len(log')
      BY <2>2
    <2>4. ~ EmitOne(a)
      <3>1. EmitOne(a) => Len(log') = Len(log) + 1
        BY DEF EmitOne
      <3>2. QED BY <2>2, <3>1
    <2>5. QED BY <2>2, <2>3, <2>4
  <1>3. QED BY <1>1, <1>2

\* Every move of Stripe is told of, by an event that is no failed invoice or by the
\* first event of its subscription.
LEMMA StripeTellsMove ==
  ASSUME Facts, NEW s \in Subs, Stripe(s) \/ Toggles(s)
  PROVE  Moved(s)
  <1>1. /\ stripe \in [Subs -> StripeSub] /\ log \in Seq(Event) /\ MaxEvents \in Nat
        /\ stripe[s].periodEnd \in Nat /\ stripe[s].cancelling \in BOOLEAN
        /\ Begun(s) => stripe[s].periodEnd # 0
        /\ ~ Begun(s) => stripe[s].periodEnd = 0
    BY FactTypes DEF StripeSub, StripeTrue
  <1> USE DEF StripeStatus
  <1>2. CASE FirstPaymentFails(s)
    <2>1. StripeMoves(s, "incomplete", 0, FALSE) /\ stripe[s].status = "none"
      BY <1>2 DEF FirstPaymentFails
    <2>2. PICK a \in {Fetched("failed", s)} : EmitOne(a)
      BY <1>2 DEF FirstPaymentFails
    <2>3. /\ a \in Event /\ a.type = "failed" /\ Told(s, a)
          /\ stripe'[s].status = "incomplete" /\ stripe'[s].periodEnd = 0
          /\ stripe'[s].cancelling = FALSE
          /\ \A t \in Subs \ {s} : stripe'[t] = stripe[t]
      BY <1>1, <2>1, <2>2, CarriedTells DEF FetchedTypes
    <2>4. /\ log' \in Seq(Event) /\ Len(log) < Len(log') /\ Len(log') <= MaxEvents
          /\ \A i \in 1 .. Len(log) : log'[i] = log[i]
          /\ \A i \in Len(log) + 1 .. Len(log') : Told(s, log'[i]) /\ log'[i] = a
      BY <1>1, <2>2, <2>3, EmitsTold
    <2>5. QED BY <2>1, <2>3, <2>4 DEF Moved
  <1>3. ASSUME NEW status \in {"active", "past_due", "canceled"}, NEW periodEnd \in Nat \ {0},
               NEW cancelling \in BOOLEAN, StripeMoves(s, status, periodEnd, cancelling),
               NEW a \in Event, NEW b \in Event, Told(s, a), Told(s, b),
               EmitOne(a) \/ Emit(a, b), a.type # "failed",
               Begun(s) \/ a.type = "checkout" \/ (Emit(a, b) /\ b.type = "checkout")
        PROVE  Moved(s)
    <2>1. /\ stripe'[s].status = status /\ stripe'[s].periodEnd # 0
          /\ \A t \in Subs \ {s} : stripe'[t] = stripe[t]
      <3>1. status \in StripeStatus /\ periodEnd \in Nat
        OBVIOUS
      <3>2. QED BY <1>1, <1>3, <3>1, CarriedTells
    <2>2. /\ log' \in Seq(Event) /\ Len(log) < Len(log') /\ Len(log') <= MaxEvents
          /\ \A i \in 1 .. Len(log) : log'[i] = log[i]
          /\ \A i \in Len(log) + 1 .. Len(log') : Told(s, log'[i])
          /\ \E i \in Len(log) + 1 .. Len(log') : log'[i] = a
          /\ Emit(a, b) => \E i \in Len(log) + 1 .. Len(log') : log'[i] = b
      BY <1>1, <1>3, EmitsTold
    <2>3. QED BY <1>3, <2>1, <2>2 DEF Moved
  <1>4. CASE CheckoutCompletes(s)
    <2>1. StripeMoves(s, "active", 1, FALSE)
      BY <1>4 DEF CheckoutCompletes
    <2>2. PICK a \in {Fetched("checkout", s)} : TRUE
      OBVIOUS
    <2>3. PICK b \in {Fetched("paid", s)} : TRUE
      OBVIOUS
    <2>4. /\ a \in Event /\ a.type = "checkout" /\ Told(s, a)
          /\ b \in Event /\ b.type = "paid" /\ Told(s, b)
      BY <1>1, <2>1, <2>2, <2>3, CarriedTells DEF FetchedTypes
    <2>5. Emit(a, b) \/ Emit(b, a)
      BY <1>4, <2>2, <2>3 DEF CheckoutCompletes
    <2>6. "active" \in {"active", "past_due", "canceled"} /\ 1 \in Nat \ {0} /\ FALSE \in BOOLEAN
          /\ a.type # "failed" /\ b.type # "failed"
      BY <2>4
    <2>7. CASE Emit(a, b)
      BY <1>3, <2>1, <2>4, <2>6, <2>7
    <2>8. CASE Emit(b, a)
      BY <1>3, <2>1, <2>4, <2>6, <2>8
    <2>9. QED BY <2>5, <2>7, <2>8
  <1>5. CASE Renews(s) \/ RenewalFails(s) \/ Recovers(s)
    <2>1. PICK status \in {"active", "past_due"}, periodEnd \in Nat \ {0}, cancelling \in BOOLEAN :
            StripeMoves(s, status, periodEnd, cancelling)
      <3>1. \/ StripeMoves(s, "active", stripe[s].periodEnd + 1, FALSE)
            \/ StripeMoves(s, "past_due", stripe[s].periodEnd + 1, FALSE)
            \/ StripeMoves(s, "active", stripe[s].periodEnd, stripe[s].cancelling)
        BY <1>5 DEF Renews, RenewalFails, Recovers
      <3>2. stripe[s].periodEnd \in Nat \ {0} /\ stripe[s].periodEnd + 1 \in Nat \ {0}
        <4>1. Begun(s)
          BY <1>5 DEF Renews, RenewalFails, Recovers, Begun
        <4>2. QED BY <1>1, <4>1
      <3>3. FALSE \in BOOLEAN /\ "active" \in {"active", "past_due"} /\ "past_due" \in {"active", "past_due"}
        OBVIOUS
      <3>4. QED BY <1>1, <3>1, <3>2, <3>3, Zenon
    <2>2. PICK a \in {Carried("updated", s)} : TRUE
      OBVIOUS
    <2>3. PICK b \in {Fetched("paid", s), Fetched("failed", s)} : Emit(a, b)
      BY <1>5, <2>2 DEF Renews, RenewalFails, Recovers
    <2>4. a \in Event /\ a.type = "updated" /\ Told(s, a) /\ b \in Event /\ Told(s, b)
      BY <1>1, <2>1, <2>2, <2>3, CarriedTells DEF FetchedTypes
    <2>5. Begun(s)
      BY <1>5 DEF Renews, RenewalFails, Recovers, Begun
    <2>6. QED BY <1>3, <2>1, <2>3, <2>4, <2>5
  <1>6. CASE TogglesCancelling(s) \/ Toggles(s) \/ Ends(s)
    <2>1. Begun(s) /\ stripe[s].status \in {"active", "past_due"} /\ stripe[s].periodEnd \in Nat \ {0}
      BY <1>1, <1>6 DEF TogglesCancelling, Toggles, Ends, Begun
    <2>2. CASE TogglesCancelling(s) \/ Toggles(s)
      <3>1. StripeMoves(s, stripe[s].status, stripe[s].periodEnd, ~ stripe[s].cancelling)
        BY <2>2 DEF TogglesCancelling, Toggles
      <3>2. PICK cancelling \in BOOLEAN :
              StripeMoves(s, stripe[s].status, stripe[s].periodEnd, cancelling)
        BY <3>1, Zenon
      <3>3. PICK a \in {Carried("updated", s)} : EmitOne(a)
        BY <2>2 DEF TogglesCancelling, Toggles
      <3>4. a \in Event /\ a.type = "updated" /\ Told(s, a)
        BY <1>1, <2>1, <3>2, <3>3, CarriedTells
      <3>5. QED BY <1>3, <2>1, <3>2, <3>3, <3>4
    <2>3. CASE Ends(s)
      <3>1. StripeMoves(s, "canceled", stripe[s].periodEnd, stripe[s].cancelling)
        BY <2>3 DEF Ends
      <3>2. PICK a \in {Carried("deleted", s)} : EmitOne(a)
        BY <2>3 DEF Ends
      <3>3. a \in Event /\ a.type = "deleted" /\ Told(s, a)
        BY <1>1, <2>1, <3>1, <3>2, CarriedTells
      <3>4. QED BY <1>1, <1>3, <2>1, <3>1, <3>2, <3>3
    <2>4. QED BY <1>6, <2>2, <2>3
  <1>7. QED BY <1>2, <1>4, <1>5, <1>6 DEF Stripe
-------------------------------------------------------------------------------
\* A move of Stripe: what it adds is not written, and a last word before it was
\* about another subscription.
LEMMA MoveKeepsOrder ==
  ASSUME Facts, NEW s \in Subs, Moved(s),
         UNCHANGED <<ledgerVars, row, dto, committed, saved>>,
         \A t \in Tabs : cancelAt[t] = "idle" => cancelAt'[t] = "idle"
  PROVE  OrderInv'
  <1>1. UNCHANGED <<ledger, acked, at, job, row, dto, committed, saved>>
    BY DEF ledgerVars
  <1>2. /\ \A t \in Subs \ {s} : stripe'[t] = stripe[t]
        /\ log' \in Seq(Event) /\ Len(log) < Len(log') /\ Len(log') <= MaxEvents
        /\ \A i \in 1 .. Len(log) : log'[i] = log[i]
        /\ \A i \in Len(log) + 1 .. Len(log') : Told(s, log'[i])
    BY DEF Moved
  <1>3. /\ Len(log) \in Nat /\ Len(log') \in Nat
        /\ \A i \in 1 .. Len(log) : i \in 1 .. Len(log') /\ log[i] \in Event
        /\ \A i \in 1 .. Len(log') : i \in 1 .. Len(log) \/ i \in Len(log) + 1 .. Len(log')
        /\ \A i \in Len(log) + 1 .. Len(log') :
             i \in 1 .. Len(log') /\ \A j \in 1 .. Len(log) : i > j
    BY <1>2, FactTypes
  <1>4. \A e \in 1 .. Len(log) : Written(e)' <=> Written(e)
    BY <1>1 DEF Written
  <1>5. \A e \in Len(log) + 1 .. Len(log') : ~ Written(e)'
    <2> SUFFICES ASSUME NEW e \in Len(log) + 1 .. Len(log'), Written(e)' PROVE FALSE
      OBVIOUS
    <2>1. e \in Events /\ ~ e <= Len(log) /\ e \notin 1 .. Len(log)
      BY <1>2, <1>3, FactTypes
    <2>2. ledger[e] = "absent"
      BY <2>1, FactTypes DEF LoggedOnly
    <2>3. PICK w \in Workers : job[w] = e /\ at[w] \in {"returned", "claimed"}
      BY <1>1, <2>2 DEF Written, Terminal
    <2>4. QED BY <2>1, <2>3, FactTypes
  <1>6. \/ /\ stripe[s].status = "none"
           /\ stripe'[s].status = "incomplete"
           /\ stripe'[s].periodEnd = 0 /\ ~ stripe'[s].cancelling
           /\ \A i \in Len(log) + 1 .. Len(log') : log'[i].type = "failed"
           /\ \A i \in 1 .. Len(log) : log[i].sub # s
        \/ /\ stripe'[s].status \in {"active", "past_due", "canceled"}
           /\ stripe'[s].periodEnd # 0
           /\ \E i \in Len(log) + 1 .. Len(log') : log'[i].type # "failed"
           /\ Begun(s) \/ \E i \in Len(log) + 1 .. Len(log') : log'[i].type = "checkout"
    <2>1. \A i \in 1 .. Len(log) : stripe[log[i].sub].status # "none"
      BY InFlightParts, FactTypes DEF WireInv, EventBacked
    <2>2. QED BY <2>1 DEF Moved
  <1>7. ASSUME NEW i \in 1 .. Len(log), LastWord(i)' PROVE LastWord(i) /\ log[i].sub # s
    <2>1. LastWord(i)
      BY <1>2, <1>3, <1>7 DEF LastWord
    <2>2. log[i].sub # s
      <3>1. ASSUME NEW j \in Len(log) + 1 .. Len(log'), log'[j].type # "failed", log[i].sub = s
            PROVE  FALSE
        BY <1>2, <1>3, <1>7, <3>1 DEF LastWord, Told
      <3>2. QED BY <1>6, <3>1
    <2>3. QED BY <2>1, <2>2
  <1>8. ASSUME NEW t \in Subs \ {s}
        PROVE  /\ AllWritten(t)' <=> AllWritten(t)
               /\ MostWritten(t)' <=> MostWritten(t)
    <2>1. \A i \in Len(log) + 1 .. Len(log') : log'[i].sub # t
      BY <1>2 DEF Told
    <2>2. QED BY <1>2, <1>3, <1>4, <2>1 DEF AllWritten, MostWritten
  <1>9. ASSUME row.sid = s PROVE ~ AllWritten(s)' /\ ~ MostWritten(s)'
    <2>1. PICK j \in 1 .. Len(log) : log[j].sub = s
      <3>1. row.sid # NoSub
        BY <1>9, RowAssumption DEF RowAssumption
      <3>2. QED BY <1>9, <3>1, FactTypes DEF Linked
    <2>2. PICK i \in Len(log) + 1 .. Len(log') : log'[i].type # "failed"
      BY <1>6, <2>1
    <2>3. i \in 1 .. Len(log') /\ log'[i].sub = s /\ ~ Written(i)'
      BY <1>2, <1>3, <1>5 DEF Told
    <2>4. QED BY <2>2, <2>3 DEF AllWritten, MostWritten
  <1>10. InTurn'
    BY <1>1, FactTypes DEF InTurn
  <1>11. StripeTrue'
    <2>1. ASSUME NEW t \in Subs
          PROVE  /\ stripe'[t].status \in {"none", "incomplete", "active", "past_due", "canceled"}
                 /\ ~ Begun(t)' => stripe'[t].periodEnd = 0 /\ ~ stripe'[t].cancelling
                 /\ Begun(t)' => /\ stripe'[t].periodEnd # 0
                                 /\ \E i \in 1 .. Len(log') : log'[i].sub = t /\ log'[i].type = "checkout"
      <3>1. CASE t # s \/ (t = s /\ Begun(s))
        <4>1. Begun(t) => \E i \in 1 .. Len(log) : log[i].sub = t /\ log[i].type = "checkout"
          BY FactTypes DEF StripeTrue
        <4>2. Begun(t) => \E i \in 1 .. Len(log') : log'[i].sub = t /\ log'[i].type = "checkout"
          BY <1>2, <1>3, <4>1
        <4>3. CASE t # s
          <5>1. stripe'[t] = stripe[t]
            BY <1>2, <4>3
          <5>2. QED BY <4>2, <5>1, FactTypes DEF StripeTrue, Begun
        <4>4. CASE t = s /\ Begun(s)
          BY <1>6, <4>2, <4>4 DEF Begun
        <4>5. QED BY <3>1, <4>3, <4>4
      <3>2. CASE t = s /\ ~ Begun(s)
        <4>1. \A i \in Len(log) + 1 .. Len(log') : i \in 1 .. Len(log') /\ log'[i].sub = s
          BY <1>2, <1>3 DEF Told
        <4>2. QED BY <1>6, <3>2, <4>1 DEF Begun
      <3>3. QED BY <3>1, <3>2
    <2>2. ASSUME NEW i \in 1 .. Len(log'), log'[i].type # "failed" PROVE Begun(log[i].sub)'
      <3>1. CASE i \in 1 .. Len(log)
        <4>1. log'[i] = log[i] /\ Begun(log[i].sub) /\ log[i].sub \in Subs
          BY <1>2, <1>3, <2>2, <3>1, FactTypes DEF StripeTrue, Event
        <4>2. QED BY <1>2, <1>6, <4>1 DEF Begun
      <3>2. CASE i \in Len(log) + 1 .. Len(log')
        BY <1>2, <1>6, <2>2, <3>2 DEF Begun, Told
      <3>3. QED BY <1>3, <3>1, <3>2
    <2>3. QED BY <2>1, <2>2 DEF StripeTrue
  <1>12. LogTells'
    <2> SUFFICES ASSUME NEW i \in 1 .. Len(log'), log'[i].type \notin FetchedTypes
                 PROVE  /\ LastWord(i)' => WillTell(log'[i].snap)
                        /\ log'[i].type = "deleted" => log'[i].snap.status = "canceled"
      BY DEF LogTells, Tells, WillTell
    <2>1. CASE i \in 1 .. Len(log)
      <3>1. /\ log'[i] = log[i] /\ log[i].sub \in Subs
            /\ log[i].snap.sub = log[i].sub
        BY <1>2, <1>3, <2>1, InFlightParts, FactTypes DEF WireInv, EventBacked, Event
      <3>2. /\ LastWord(i) => Tells(log[i].snap)
            /\ log[i].type = "deleted" => log[i].snap.status = "canceled"
        BY <2>1, <3>1, FactTypes DEF LogTells
      <3>3. LastWord(i)' => Tells(log[i].snap) /\ stripe'[log[i].sub] = stripe[log[i].sub]
        BY <1>2, <1>7, <2>1, <3>1, <3>2
      <3>4. QED BY <3>1, <3>2, <3>3 DEF Tells, WillTell
    <2>2. CASE i \in Len(log) + 1 .. Len(log')
      BY <1>2, <2>2 DEF Told
    <2>3. QED BY <1>3, <2>1, <2>2
  <1>13. ReadTells'
    <2> SUFFICES ASSUME NEW w \in Workers, dto[w] # NoSnap
                 PROVE  /\ LastWord(job[w])' => Tells(dto[w])'
                        /\ Current(w)'.type = "deleted" => dto[w].status = "canceled"
      BY <1>1 DEF ReadTells
    <2>1. /\ at[w] = "claimed" /\ dto[w].sub = Current(w).sub
      BY InFlightParts, FactTypes DEF WireInv, ReadBacked
    <2>2. job[w] \in 1 .. Len(log)
      BY <2>1, FactTypes
    <2>3. Current(w)' = Current(w) /\ dto[w].sub \in Subs /\ dto[w].sub = log[job[w]].sub
      BY <1>1, <1>2, <1>3, <2>1, <2>2 DEF Current, Event
    <2>4. /\ LastWord(job[w]) => Tells(dto[w])
          /\ Current(w).type = "deleted" => dto[w].status = "canceled"
      BY FactTypes DEF ReadTells
    <2>5. LastWord(job[w])' => Tells(dto[w]) /\ dto[w].sub # s
      <3>1. ASSUME NEW i \in 1 .. Len(log), i = job[w] PROVE LastWord(i)' <=> LastWord(job[w])'
        BY <1>1, <3>1 DEF LastWord
      <3>2. QED BY <1>7, <2>2, <2>3, <2>4, <3>1
    <2>6. LastWord(job[w])' => Tells(dto[w])'
      <3>1. ASSUME dto[w].sub # s, Tells(dto[w]) PROVE Tells(dto[w])'
        <4>1. stripe'[dto[w].sub] = stripe[dto[w].sub] /\ dto' = dto
          BY <1>1, <1>2, <2>3, <3>1
        <4>2. QED BY <3>1, <4>1 DEF Tells
      <3>2. QED BY <2>5, <3>1
    <2>7. QED BY <2>3, <2>4, <2>6
  <1>14. Unbound'
    <2>1. Unbound
      BY FactTypes
    <2>2. \A e \in 1 .. Len(log') : Written(e)' => e \in 1 .. Len(log) /\ Written(e) /\ log'[e] = log[e]
      BY <1>2, <1>3, <1>4, <1>5
    <2>3. QED BY <1>1, <2>1, <2>2 DEF Unbound
  <1>15. Bound'
    <2> SUFFICES ASSUME row.sid # NoSub
                 PROVE  /\ AllWritten(row.sid)' => row.status = MapStatus(stripe'[row.sid].status)
                        /\ MostWritten(row.sid)' =>
                             /\ stripe'[row.sid].cancelling => row.cancelling
                             /\ ~ saved => /\ row.periodEnd = stripe'[row.sid].periodEnd
                                           /\ row.cancelling = stripe'[row.sid].cancelling
      BY <1>1 DEF Bound
    <2>1. row.sid \in Subs
      BY FactTypes DEF Row
    <2>2. ASSUME NEW t \in Subs, t = row.sid
          PROVE  (AllWritten(row.sid)' <=> AllWritten(t)') /\ (MostWritten(row.sid)' <=> MostWritten(t)')
      BY <1>1, <2>2 DEF AllWritten, MostWritten
    <2>3. CASE row.sid = s
      <3>1. ~ AllWritten(row.sid)' /\ ~ MostWritten(row.sid)'
        BY <1>9, <2>2, <2>3
      <3>2. QED BY <3>1
    <2>4. CASE row.sid # s
      <3>1. stripe'[row.sid] = stripe[row.sid]
        BY <1>2, <2>1, <2>4
      <3>2. (AllWritten(row.sid)' => AllWritten(row.sid)) /\ (MostWritten(row.sid)' => MostWritten(row.sid))
        BY <1>8, <2>1, <2>2, <2>4
      <3>3. QED BY <3>1, <3>2, FactTypes DEF Bound
    <2>5. QED BY <2>3, <2>4
  <1>16. LastCheckout'
    <2> SUFFICES ASSUME NEW e \in 1 .. Len(log'), log'[e].type = "checkout", Written(e)',
                        \A f \in e + 1 .. Len(log') : log'[f].type = "checkout" => ledger'[f] = "absent"
                 PROVE  row.sid = log'[e].sub
      BY <1>1 DEF LastCheckout
    <2>1. e \in 1 .. Len(log) /\ Written(e) /\ log'[e] = log[e]
      BY <1>2, <1>3, <1>4, <1>5
    <2>2. \A f \in e + 1 .. Len(log) : log[f].type = "checkout" => ledger[f] = "absent"
      BY <1>2, <1>3, <2>1 DEF ledgerVars
    <2>3. QED BY <2>1, <2>2, FactTypes DEF LastCheckout
  <1>17. QED BY <1>10, <1>11, <1>12, <1>13, <1>14, <1>15, <1>16 DEF OrderInv
-------------------------------------------------------------------------------
\* A step that leaves Stripe and the row alone writes nothing more.
LEMMA QuietKeepsOrder ==
  ASSUME Facts, UNCHANGED <<stripe, log, row, saved>>,
         row.sid = NoSub => \A t \in Tabs : cancelAt'[t] = "idle",
         InTurn', ReadTells', \A e \in 1 .. Len(log) : Written(e)' => Written(e),
         \A e \in 1 .. Len(log) : ledger'[e] = "absent" => ledger[e] = "absent"
  PROVE  OrderInv'
  <1>1. /\ InTurn /\ StripeTrue /\ LogTells /\ ReadTells /\ Unbound /\ Bound /\ LastCheckout
        /\ row \in Row
    BY FactTypes
  <1>2. StripeTrue' /\ LogTells'
    BY <1>1 DEF StripeTrue, Begun, LogTells, LastWord, Tells
  <1>3. Unbound'
    BY <1>1 DEF Unbound
  <1>6. LastCheckout'
    <2> SUFFICES ASSUME NEW e \in 1 .. Len(log), log[e].type = "checkout", Written(e)',
                        \A f \in e + 1 .. Len(log) : log[f].type = "checkout" => ledger'[f] = "absent"
                 PROVE  row.sid = log[e].sub
      BY DEF LastCheckout
    <2>1. Written(e) /\ \A f \in e + 1 .. Len(log) : f \in 1 .. Len(log)
      BY FactTypes
    <2>2. \A f \in e + 1 .. Len(log) : log[f].type = "checkout" => ledger[f] = "absent"
      BY <2>1
    <2>3. QED BY <1>1, <2>1, <2>2 DEF LastCheckout
  <1>4. Bound'
    <2>1. (AllWritten(row.sid)' => AllWritten(row.sid)) /\ (MostWritten(row.sid)' => MostWritten(row.sid))
      BY DEF AllWritten, MostWritten
    <2>2. QED BY <1>1, <2>1 DEF Bound
  <1>5. QED BY <1>2, <1>3, <1>4, <1>6 DEF OrderInv

\* What was read is forgotten or still tells.
LEMMA ReadStays ==
  ASSUME Facts, UNCHANGED <<stripe, log>>,
         \A v \in Workers : dto'[v] = NoSnap \/ (dto'[v] = dto[v] /\ job'[v] = job[v])
  PROVE  ReadTells'
  <1> SUFFICES ASSUME NEW w \in Workers, dto'[w] # NoSnap
               PROVE  /\ LastWord(job[w])' => Tells(dto[w])'
                      /\ Current(w)'.type = "deleted" => dto'[w].status = "canceled"
    BY DEF ReadTells
  <1>1. dto'[w] = dto[w] /\ job'[w] = job[w]
    OBVIOUS
  <1>2. /\ LastWord(job[w]) => Tells(dto[w])
        /\ Current(w).type = "deleted" => dto[w].status = "canceled"
    BY <1>1, FactTypes DEF ReadTells
  <1>3. (LastWord(job[w])' => LastWord(job[w])) /\ Current(w)' = Current(w)
    BY <1>1 DEF LastWord, Current
  <1>4. Tells(dto[w]) => Tells(dto[w])'
    BY <1>1 DEF Tells
  <1>5. QED BY <1>1, <1>2, <1>3, <1>4

\* The ledger's own steps, and deliveries.
LEMMA LedgerOrder ==
  ASSUME Facts, NEW w \in Workers, LedgerOnly(w) \/ \E e \in Events : Deliver(w, e)
  PROVE  OrderInv'
  <1>1. /\ committed \in [Workers -> BOOLEAN] /\ at \in [Workers -> {"idle", "stored"} \cup Running]
        /\ job \in [Workers -> Events \cup {NoEvent}]
        /\ \A v \in Workers : at[v] # "idle" => job[v] \in Events
        /\ ledger \in [Events -> {"absent", "processing"} \cup Claimable \cup Terminal]
        /\ \A v \in Workers : committed[v] => at[v] = "claimed"
        /\ \A i \in 1 .. Len(log) : i \in Events
        /\ InTurn /\ Events = 1 .. MaxEvents /\ MaxEvents \in Nat /\ InOrder
    BY FactTypes
  <1>2. UNCHANGED <<stripe, log, row, dto, committed>> /\ UNCHANGED cancelVars
    BY DEF LedgerOnly, Deliver, billingVars
  <1>3. row.sid = NoSub => \A t \in Tabs : cancelAt'[t] = "idle"
    BY <1>2, FactTypes DEF Unbound, cancelVars
  <1>4. saved' = saved
    BY <1>2 DEF cancelVars
  <1> USE DEF Running, Claimable, Terminal
  <1>5. CASE LedgerOnly(w)
    <2>1. /\ \A v \in Workers \ {w} : at'[v] = at[v] /\ job'[v] = job[v]
          /\ at[w] # "claimed" /\ at[w] # "idle" /\ acked \subseteq acked'
          /\ at'[w] \in {"idle", "claimed"} /\ ~ committed[w]
      BY <1>1, <1>5 DEF LedgerOnly, Claim, RecordProcessed, RecordFailed, Answer, Ack
    <2>2. \A e \in Events : /\ ledger'[e] # "absent" => ledger[e] # "absent"
                            /\ ledger'[e] = "absent" => ledger[e] = "absent"
                            /\ ledger'[e] \in Terminal =>
                                 ledger[e] \in Terminal \/ (at[w] = "returned" /\ e = job[w])
      BY <1>1, <1>5 DEF LedgerOnly, Claim, RecordProcessed, RecordFailed, UpdateWhere
    <2>3. InTurn'
      BY <1>1, <2>1, <2>2 DEF InTurn
    <2>4. \A v \in Workers : dto'[v] = NoSnap \/ (dto'[v] = dto[v] /\ job'[v] = job[v])
      <3>1. dto[w] = NoSnap
        BY <2>1, InFlightParts, FactTypes DEF WireInv, ReadBacked
      <3>2. QED BY <1>2, <2>1, <3>1
    <2>5. \A e \in 1 .. Len(log) : Written(e)' => Written(e)
      BY <1>1, <1>2, <2>1, <2>2 DEF Written
    <2>6. ReadTells'
      BY <1>2, <2>4, ReadStays
    <2>7. \A e \in 1 .. Len(log) : ledger'[e] = "absent" => ledger[e] = "absent"
      BY <1>1, <2>2
    <2>8. QED BY <1>2, <1>3, <1>4, <2>3, <2>5, <2>6, <2>7, QuietKeepsOrder
  <1>6. CASE \E e \in Events : Deliver(w, e)
    <2>1. PICK e \in Events : Deliver(w, e)
      BY <1>6
    <2>2. /\ at[w] = "idle" /\ at' = [at EXCEPT ![w] = "stored"]
          /\ job' = [job EXCEPT ![w] = e] /\ acked' = acked
          /\ ledger' = [ledger EXCEPT ![e] = IF @ \in {"absent"} THEN "pending" ELSE @]
          /\ \A f \in 1 .. e - 1 : f \in acked
      BY <1>1, <2>1 DEF Deliver, Receive, UpdateWhere
    <2>3. \A v \in Workers \ {w} : at'[v] = at[v] /\ job'[v] = job[v]
      BY <1>1, <2>2
    <2>4. \A f \in Events : /\ ledger'[f] # "absent" => ledger[f] # "absent" \/ f = e
                            /\ ledger'[f] = "absent" => ledger[f] = "absent"
                            /\ ledger'[f] \in Terminal => ledger[f] \in Terminal
      BY <1>1, <2>2
    <2>5. InTurn'
      <3>1. \A f \in Events : f < e => f \in 1 .. e - 1
        BY <1>1
      <3>2. QED BY <1>1, <2>2, <2>4, <3>1 DEF InTurn
    <2>6. \A v \in Workers : dto'[v] = NoSnap \/ (dto'[v] = dto[v] /\ job'[v] = job[v])
      <3>1. dto[w] = NoSnap
        BY <2>2, InFlightParts, FactTypes DEF WireInv, ReadBacked
      <3>2. QED BY <1>2, <2>3, <3>1
    <2>7. at'[w] = "stored"
      BY <1>1, <2>2
    <2>8. \A f \in 1 .. Len(log) : Written(f)' => Written(f)
      BY <1>1, <1>2, <2>3, <2>4, <2>7 DEF Written
    <2>9. ReadTells'
      BY <1>2, <2>6, ReadStays
    <2>10. \A f \in 1 .. Len(log) : ledger'[f] = "absent" => ledger[f] = "absent"
      BY <1>1, <2>4
    <2>11. QED BY <1>2, <1>3, <1>4, <2>5, <2>8, <2>9, <2>10, QuietKeepsOrder
  <1>7. QED BY <1>5, <1>6

\* The mapper reads what Stripe says now, or what the event said.
LEMMA BuildOrder ==
  ASSUME Facts, NEW w \in Workers, BuildDTO(w)
  PROVE  OrderInv'
  <1>1. /\ UNCHANGED <<ledger, acked, at, job, stripe, log, row, committed, cancelVars>>
        /\ at[w] = "claimed"
    BY DEF BuildDTO, ledgerVars
  <1>2. /\ WireInv /\ stripe \in [Subs -> StripeSub] /\ job[w] \in 1 .. Len(log)
        /\ dto \in [Workers -> Snapshot \cup {NoSnap}]
        /\ InTurn /\ ReadTells /\ ~ Unreadable
    BY <1>1, FactTypes
  <1>3. Current(w) \in Event /\ EventBacked(Current(w)) /\ Current(w) = log[job[w]]
    BY <1>1, <1>2, CurrentEvent DEF Current
  <1> DEFINE read == IF Current(w).type \in FetchedTypes
                     THEN SnapOf(Current(w).sub) ELSE Current(w).snap
  <1>4. dto' = [dto EXCEPT ![w] = [read EXCEPT !.periodEnd = read.periodEnd]]
    BY <1>2 DEF BuildDTO
  <1>5. /\ read \in Snapshot
        /\ LastWord(job[w]) => Tells(read)
        /\ Current(w).type = "deleted" => read.status = "canceled"
    <2>1. Current(w).sub \in Subs /\ stripe[Current(w).sub] \in StripeSub
      BY <1>2, <1>3 DEF Event
    <2>2. CASE Current(w).type \in FetchedTypes
      <3>1. read = SnapOf(Current(w).sub)
        BY <2>2
      <3>2. SnapOf(Current(w).sub) \in Snapshot
        BY <1>3, <2>1 DEF SnapOf, Snapshot, StripeSub, EventBacked
      <3>3. Tells(SnapOf(Current(w).sub))
        BY DEF Tells, SnapOf
      <3>4. QED BY <2>2, <3>1, <3>2, <3>3 DEF FetchedTypes
    <2>3. CASE Current(w).type \notin FetchedTypes
      <3>1. read = Current(w).snap /\ read \in Snapshot
        BY <1>3, <2>3 DEF Event, EventBacked
      <3>2. QED BY <1>2, <1>3, <2>3, <3>1, FactTypes DEF LogTells
    <2>4. QED BY <2>2, <2>3
  <1> HIDE DEF read
  <1>6. /\ dto'[w].status = read.status /\ dto'[w].sub = read.sub
        /\ dto'[w].periodEnd = read.periodEnd /\ dto'[w].cancelling = read.cancelling
        /\ \A v \in Workers \ {w} : dto'[v] = dto[v]
    BY <1>2, <1>4, <1>5 DEF Snapshot
  <1>7. ReadTells'
    <2> SUFFICES ASSUME NEW v \in Workers, dto'[v] # NoSnap
                 PROVE  /\ LastWord(job[v])' => Tells(dto[v])'
                        /\ Current(v)'.type = "deleted" => dto'[v].status = "canceled"
      BY DEF ReadTells
    <2>1. (LastWord(job[v])' => LastWord(job[v])) /\ Current(v)' = Current(v)
      BY <1>1 DEF LastWord, Current
    <2>2. CASE v = w
      <3>1. Tells(read) => Tells(dto[w])'
        BY <1>1, <1>6 DEF Tells
      <3>2. QED BY <1>5, <1>6, <2>1, <2>2, <3>1
    <2>3. CASE v # w
      <3>1. dto'[v] = dto[v]
        BY <1>6, <2>3
      <3>2. /\ LastWord(job[v]) => Tells(dto[v])
            /\ Current(v).type = "deleted" => dto[v].status = "canceled"
        BY <1>2, <3>1 DEF ReadTells
      <3>3. Tells(dto[v]) => Tells(dto[v])'
        BY <1>1, <3>1 DEF Tells
      <3>4. QED BY <2>1, <3>1, <3>2, <3>3
    <2>4. QED BY <2>2, <2>3
  <1>8. InTurn' /\ \A e \in 1 .. Len(log) : Written(e)' => Written(e)
    BY <1>1, <1>2 DEF InTurn, Written
  <1>9. saved' = saved /\ (row.sid = NoSub => \A t \in Tabs : cancelAt'[t] = "idle")
    BY <1>1, FactTypes DEF Unbound, cancelVars
  <1>10. QED BY <1>1, <1>7, <1>8, <1>9, QuietKeepsOrder

\* Enqueueing what was committed writes nothing new; an exception or a death
\* leaves the event to be written again.
LEMMA LeavesOrder ==
  ASSUME Facts, NEW w \in Workers, Enqueue(w) \/ Fails(w) \/ Dies(w)
  PROVE  OrderInv'
  <1>1. /\ committed \in [Workers -> BOOLEAN] /\ at \in [Workers -> {"idle", "stored"} \cup Running]
        /\ job \in [Workers -> Events \cup {NoEvent}]
        /\ dto \in [Workers -> Snapshot \cup {NoSnap}]
        /\ \A v \in Workers : committed[v] => at[v] = "claimed"
        /\ InTurn
    BY FactTypes
  <1>2. /\ HandlerReturns(w) \/ HandlerRaises(w) \/ Crash(w)
        /\ Forget(w)
        /\ UNCHANGED <<stripe, log, row, cancelVars>>
    BY DEF Enqueue, Fails, Dies
  <1>3. /\ ledger' = ledger /\ acked' = acked
        /\ \A v \in Workers \ {w} : at'[v] = at[v] /\ job'[v] = job[v]
    BY <1>1, <1>2 DEF HandlerReturns, HandlerRaises, Crash, Answer
  <1>4. /\ dto'[w] = NoSnap /\ ~ committed'[w]
        /\ \A v \in Workers \ {w} : dto'[v] = dto[v] /\ committed'[v] = committed[v]
    BY <1>1, <1>2 DEF Forget
  <1>5. at'[w] = "returned" => committed[w] /\ at[w] = "claimed" /\ job'[w] = job[w]
    BY <1>1 DEF Enqueue, Fails, Dies, HandlerReturns, HandlerRaises, Crash, Answer
  <1>6. \A e \in 1 .. Len(log) : Written(e)' => Written(e)
    BY <1>3, <1>4, <1>5 DEF Written
  <1>7. InTurn'
    BY <1>1, <1>3 DEF InTurn
  <1>8. ReadTells'
    BY <1>2, <1>3, <1>4, ReadStays
  <1>9. saved' = saved /\ (row.sid = NoSub => \A t \in Tabs : cancelAt'[t] = "idle")
    BY <1>2, FactTypes DEF Unbound, cancelVars
  <1>10. QED BY <1>2, <1>3, <1>6, <1>7, <1>8, <1>9, QuietKeepsOrder
-------------------------------------------------------------------------------
\* What a transaction leaves alone, writes of a failed invoice, or writes in full.
Leaves(type, snap) ==
  /\ row' = row /\ row.sid # snap.sub
  /\ type \in {"updated", "deleted"} \/ row.sid # NoSub
  /\ type # "checkout"

WritesStatus(type, snap) ==
  /\ type = "failed" /\ row.sid \in {NoSub, snap.sub}
  /\ row'.sid = snap.sub /\ row'.status = MapStatus(snap.status)
  /\ row'.periodEnd = row.periodEnd /\ row'.cancelling = row.cancelling

WritesAll(type, snap) ==
  /\ type # "failed" /\ (type = "checkout" \/ row.sid \in {NoSub, snap.sub})
  /\ row'.sid = snap.sub
  /\ type # "deleted" => row'.status = MapStatus(snap.status)
  /\ type = "deleted" => row'.status = "canceled"
  /\ snap.periodEnd # 0 => row'.periodEnd = snap.periodEnd
  /\ row'.cancelling = snap.cancelling

\* The handlers' transactions do one of the three.
LEMMA AppliedWrites ==
  ASSUME row \in Row, NEW type \in EventType, NEW snap \in Snapshot,
         row' = Applied(type, snap)
  PROVE  Leaves(type, snap) \/ WritesStatus(type, snap) \/ WritesAll(type, snap)
  <1>1. snap.sub \in Subs /\ snap.periodEnd \in Nat
    BY DEF Snapshot
  <1>2. /\ Synced(row, snap) \in Row
        /\ Synced(row, snap).sid = row.sid
        /\ Synced(row, snap).status = MapStatus(snap.status)
        /\ Synced(row, snap).cancelling = snap.cancelling
        /\ snap.periodEnd # 0 => Synced(row, snap).periodEnd = snap.periodEnd
    BY <1>1, SyncedFields DEF Synced, Row, Resolved
  <1>3. CASE type = "checkout"
    <2>1. row' = FromCheckout(row, snap)
      BY <1>3 DEF Applied
    <2>2. QED BY <1>3, <2>1 DEF FromCheckout, WritesAll
  <1>4. CASE type = "paid"
    <2>1. row' = FromPaid(row, snap)
      BY <1>4 DEF Applied
    <2>2. CASE Binds(row, snap.sub)
      <3>1. row' = [Synced(row, snap) EXCEPT !.sid = snap.sub]
        BY <2>1, <2>2 DEF FromPaid
      <3>2. /\ row'.sid = snap.sub /\ row'.status = Synced(row, snap).status
            /\ row'.cancelling = Synced(row, snap).cancelling
            /\ row'.periodEnd = Synced(row, snap).periodEnd
        BY <1>2, <3>1 DEF Row
      <3>3. QED BY <1>2, <1>4, <2>2, <3>2 DEF Binds, WritesAll
    <2>3. CASE ~ Binds(row, snap.sub)
      BY <1>4, <2>1, <2>3 DEF FromPaid, Binds, Leaves
    <2>4. QED BY <2>2, <2>3
  <1>5. CASE type = "failed"
    <2>1. row' = FromPaymentFailed(row, snap)
      BY <1>5 DEF Applied
    <2>2. CASE Binds(row, snap.sub)
      <3>1. row' = [row EXCEPT !.sid = snap.sub, !.status = MapStatus(snap.status)]
        BY <2>1, <2>2 DEF FromPaymentFailed
      <3>2. QED BY <1>5, <2>2, <3>1 DEF Row, Binds, WritesStatus
    <2>3. CASE ~ Binds(row, snap.sub)
      BY <1>5, <2>1, <2>3 DEF FromPaymentFailed, Binds, Leaves
    <2>4. QED BY <2>2, <2>3
  <1>6. CASE type = "updated"
    <2>1. row' = FromUpdated(row, snap)
      BY <1>6 DEF Applied
    <2>2. QED BY <1>2, <1>6, <2>1 DEF FromUpdated, IsCurrent, Leaves, WritesAll
  <1>7. CASE type = "deleted"
    <2>1. row' = FromDeleted(row, snap)
      BY <1>7 DEF Applied
    <2>2. CASE IsCurrent(row, snap.sub)
      <3>1. row' = [row EXCEPT !.status = "canceled", !.periodEnd = snap.periodEnd,
                               !.cancelling = snap.cancelling, !.ended = TRUE]
        BY <2>1, <2>2 DEF FromDeleted
      <3>2. QED BY <1>7, <2>2, <3>1 DEF IsCurrent, Row, WritesAll
    <2>3. CASE ~ IsCurrent(row, snap.sub)
      BY <1>7, <2>1, <2>3 DEF FromDeleted, IsCurrent, Leaves
    <2>4. QED BY <2>2, <2>3
  <1>8. QED BY <1>3, <1>4, <1>5, <1>6, <1>7 DEF EventType, FetchedTypes

\* A transaction is the last thing the ledger knows of; when nothing Stripe has to
\* say of its subscription is left, what it wrote is what Stripe says now.
LEMMA CommitOrder ==
  ASSUME Facts, NEW w \in Workers, Commit(w)
  PROVE  OrderInv'
  <1>1. /\ at[w] = "claimed" /\ dto[w] # NoSnap /\ ~ committed[w]
        /\ UNCHANGED <<ledger, acked, job, stripe, log, cancelVars>>
    BY DEF Commit, HandlerReturns, ledgerVars
  <1>2. /\ committed \in [Workers -> BOOLEAN] /\ at \in [Workers -> {"idle", "stored"} \cup Running]
        /\ dto \in [Workers -> Snapshot \cup {NoSnap}] /\ row \in Row
        /\ stripe \in [Subs -> StripeSub]
        /\ WireInv /\ InTurn /\ StripeTrue /\ LogTells /\ ReadTells /\ Unbound /\ Bound
        /\ LastCheckout /\ job[w] \in 1 .. Len(log) /\ Len(log) \in Nat
        /\ \A e \in 1 .. Len(log) : e \in Events /\ log[e] \in Event
    BY <1>1, FactTypes
  <1>3. PICK i \in 1 .. Len(log), s \in Subs, type \in EventType, snap \in Snapshot :
          /\ i = job[w] /\ snap = dto[w] /\ s = snap.sub /\ type = Current(w).type
          /\ row' = Applied(type, snap)
          /\ s = log[i].sub /\ type = log[i].type /\ s # NoSub
    <2>1. Current(w).sub = dto[w].sub /\ Current(w) = log[job[w]]
      BY <1>1, <1>2, InFlightParts DEF WireInv, ReadBacked, Current
    <2>2. dto[w].sub \in Subs /\ dto[w].sub # NoSub
      BY <1>1, <1>2, RowAssumption DEF Snapshot
    <2>3. /\ Current(w).type \in EventType /\ dto[w] \in Snapshot
          /\ row' = Applied(Current(w).type, dto[w])
      BY <1>2, CommitReads
    <2>4. QED BY <1>2, <2>1, <2>2, <2>3
  <1>4. /\ \A f \in 1 .. Len(log) : f > i => ~ Written(f)
        /\ \A v \in Workers \ {w} : job[v] # i
        /\ ledger[i] = "processing"
    <2>1. at[w] \in Running
      BY <1>1 DEF Running
    <2>2. QED BY <1>2, <1>3, <2>1, HeldIsNewest
  <1>5. /\ at' = at /\ committed' = [committed EXCEPT ![w] = TRUE] /\ dto' = dto
        \/ /\ at' = [at EXCEPT ![w] = "returned"] /\ Forget(w)
    BY DEF Commit, HandlerReturns, ledgerVars
  <1>6. /\ \A v \in Workers \ {w} : at'[v] = at[v] /\ committed'[v] = committed[v] /\ dto'[v] = dto[v]
        /\ dto'[w] \in {NoSnap, dto[w]}
        /\ at'[w] = "returned" \/ (at'[w] = "claimed" /\ committed'[w])
    BY <1>1, <1>2, <1>5 DEF Forget
  <1>7. Written(i)'
    BY <1>1, <1>3, <1>6 DEF Written
  <1>8. ASSUME NEW e \in 1 .. Len(log), e # i PROVE Written(e)' <=> Written(e)
    BY <1>1, <1>3, <1>6, <1>8 DEF Written
  <1>9. ReadTells'
    <2>1. \A v \in Workers : dto'[v] = NoSnap \/ (dto'[v] = dto[v] /\ job'[v] = job[v])
      BY <1>1, <1>6
    <2>2. QED BY <1>1, <2>1, ReadStays
  <1>10. InTurn' /\ StripeTrue' /\ LogTells'
    BY <1>1, <1>2 DEF InTurn, StripeTrue, Begun, LogTells, LastWord, Tells
  <1>11. Leaves(type, snap) \/ WritesStatus(type, snap) \/ WritesAll(type, snap)
    BY <1>2, <1>3, AppliedWrites
  <1>12. LastWord(i) => Tells(snap)
    BY <1>1, <1>2, <1>3 DEF ReadTells
  <1>13. /\ AllWritten(s)' => LastWord(i)
         /\ MostWritten(s)' => LastWord(i)
    BY <1>1, <1>2, <1>3, <1>4, <1>8 DEF AllWritten, MostWritten, LastWord
  <1>14. ASSUME NEW t \in Subs
         PROVE  /\ t # s => (AllWritten(t)' => AllWritten(t))
                /\ t # s \/ type = "failed" => (MostWritten(t)' => MostWritten(t))
    <2>1. t # s => \A e \in 1 .. Len(log) : log[e].sub = t => e # i
      BY <1>3
    <2>2. type = "failed" => \A e \in 1 .. Len(log) : log[e].type # "failed" => e # i
      BY <1>3
    <2>3. QED BY <1>1, <1>8, <2>1, <2>2 DEF AllWritten, MostWritten
  <1>15. CASE Leaves(type, snap)
    <2>1. /\ row' = row /\ row.sid # s /\ type # "checkout"
          /\ type \in {"updated", "deleted"} \/ row.sid # NoSub
      BY <1>3, <1>15 DEF Leaves
    <2>2. Unbound'
      <3>1. CASE row.sid = NoSub
        <4>1. type \notin FetchedTypes
          BY <2>1, <3>1 DEF FetchedTypes
        <4>2. \A e \in 1 .. Len(log) : Written(e)' => log[e].type \notin FetchedTypes
          BY <1>2, <1>3, <1>8, <3>1, <4>1 DEF Unbound
        <4>3. QED BY <1>1, <1>2, <2>1, <4>2 DEF Unbound, cancelVars
      <3>2. CASE row.sid # NoSub
        BY <2>1, <3>2 DEF Unbound
      <3>3. QED BY <3>1, <3>2
    <2>3. Bound'
      <3> SUFFICES ASSUME row.sid # NoSub
                   PROVE  /\ AllWritten(row.sid)' => row.status = MapStatus(stripe[row.sid].status)
                          /\ MostWritten(row.sid)' =>
                               /\ stripe[row.sid].cancelling => row.cancelling
                               /\ ~ saved => /\ row.periodEnd = stripe[row.sid].periodEnd
                                             /\ row.cancelling = stripe[row.sid].cancelling
        BY <1>1, <2>1 DEF Bound, cancelVars
      <3>1. PICK t \in Subs : t = row.sid
        BY <1>2 DEF Row
      <3>2. (AllWritten(row.sid)' <=> AllWritten(t)') /\ (MostWritten(row.sid)' <=> MostWritten(t)')
        BY <2>1, <3>1 DEF AllWritten, MostWritten
      <3>3. (AllWritten(t)' => AllWritten(t)) /\ (MostWritten(t)' => MostWritten(t))
        BY <1>14, <2>1, <3>1
      <3>4. QED BY <1>2, <3>1, <3>2, <3>3 DEF Bound
    <2>4. LastCheckout'
      BY <1>1, <1>2, <1>3, <1>8, <2>1 DEF LastCheckout
    <2>5. QED BY <1>9, <1>10, <2>2, <2>3, <2>4 DEF OrderInv
  <1>16. CASE WritesStatus(type, snap) \/ WritesAll(type, snap)
    <2>1. /\ row'.sid = s /\ row'.sid # NoSub
          /\ type = "checkout" \/ row.sid \in {NoSub, s}
      BY <1>3, <1>16 DEF WritesStatus, WritesAll
    <2>2. Unbound'
      BY <2>1 DEF Unbound
    <2>3. LastCheckout'
      <3> SUFFICES ASSUME NEW e \in 1 .. Len(log), log[e].type = "checkout", Written(e)',
                          \A f \in e + 1 .. Len(log) : log[f].type = "checkout" => ledger[f] = "absent"
                   PROVE  s = log[e].sub
        BY <1>1, <2>1 DEF LastCheckout
      <3>1. CASE e = i
        BY <1>3, <3>1
      <3>2. CASE e # i
        <4>1. Written(e) /\ e < i
          BY <1>2, <1>4, <1>8, <3>2
        <4>2. type # "checkout"
          BY <1>2, <1>3, <1>4, <4>1
        <4>3. row.sid = log[e].sub
          BY <1>2, <4>1 DEF LastCheckout
        <4>4. row.sid # NoSub
          BY <1>2, <4>3, RowAssumption DEF Event
        <4>5. QED BY <2>1, <4>2, <4>3, <4>4
      <3>3. QED BY <3>1, <3>2
    <2>4. (AllWritten(row.sid)' <=> AllWritten(s)') /\ (MostWritten(row.sid)' <=> MostWritten(s)')
      BY <1>1, <2>1 DEF AllWritten, MostWritten
    <2>5. AllWritten(s)' => row'.status = MapStatus(stripe[s].status)
      <3> SUFFICES ASSUME Tells(snap) PROVE row'.status = MapStatus(stripe[s].status)
        BY <1>12, <1>13
      <3>1. snap.status = stripe[s].status
        BY <1>3 DEF Tells
      <3>2. type = "deleted" => snap.status = "canceled"
        BY <1>1, <1>2, <1>3 DEF ReadTells
      <3>3. QED BY <1>16, <3>1, <3>2 DEF WritesStatus, WritesAll, MapStatus
    <2>6. MostWritten(s)' =>
            /\ stripe[s].cancelling => row'.cancelling
            /\ ~ saved => /\ row'.periodEnd = stripe[s].periodEnd
                          /\ row'.cancelling = stripe[s].cancelling
      <3> SUFFICES ASSUME MostWritten(s)'
                   PROVE  /\ stripe[s].cancelling => row'.cancelling
                          /\ ~ saved => /\ row'.periodEnd = stripe[s].periodEnd
                                        /\ row'.cancelling = stripe[s].cancelling
        OBVIOUS
      <3>1. Tells(snap)
        BY <1>12, <1>13
      <3>2. CASE WritesAll(type, snap)
        <4>1. stripe[s].periodEnd # 0
          BY <1>2, <1>3, <3>2 DEF StripeTrue, WritesAll
        <4>2. QED BY <1>3, <3>1, <3>2, <4>1 DEF WritesAll, Tells
      <3>3. CASE WritesStatus(type, snap)
        <4>1. /\ MostWritten(s) /\ row'.periodEnd = row.periodEnd /\ row'.cancelling = row.cancelling
          BY <1>3, <1>14, <3>3 DEF WritesStatus
        <4>2. CASE row.sid = s
          <5>1. MostWritten(row.sid)
            BY <4>1, <4>2
          <5>2. QED BY <1>2, <1>3, <4>1, <4>2, <5>1 DEF Bound
        <4>3. CASE row.sid = NoSub
          <5>1. ~ Begun(s)
            BY <1>2, <1>3, <4>1, <4>3 DEF StripeTrue, Unbound, MostWritten, FetchedTypes
          <5>2. /\ stripe[s].periodEnd = 0 /\ ~ stripe[s].cancelling
                /\ row.periodEnd = 0 /\ ~ row.cancelling
            BY <1>2, <1>3, <4>3, <5>1 DEF StripeTrue, Unbound
          <5>3. stripe[s].cancelling \in BOOLEAN /\ row.cancelling \in BOOLEAN
            BY <1>2, <1>3 DEF StripeSub, Row
          <5>4. QED BY <4>1, <5>2, <5>3
        <4>4. QED BY <1>3, <3>3, <4>2, <4>3 DEF WritesStatus
      <3>4. QED BY <1>16, <3>2, <3>3
    <2>7. Bound'
      <3>1. stripe' = stripe /\ saved' = saved
        BY <1>1 DEF cancelVars
      <3>2. QED BY <2>1, <2>4, <2>5, <2>6, <3>1 DEF Bound
    <2>8. QED BY <1>9, <1>10, <2>2, <2>3, <2>7 DEF OrderInv
  <1>17. QED BY <1>11, <1>15, <1>16
-------------------------------------------------------------------------------
\* A cancellation reads, asks and saves: only its save writes the row, and nothing
\* more than a cancellation the row did not show and a period.
LEMMA CancelOrder ==
  ASSUME Facts, NEW t \in Tabs,
         CancelBegins(t) \/ CancelScheduled(t) \/ CancelAborts(t) \/ CancelSaves(t)
  PROVE  OrderInv'
  <1>1. /\ WireInv /\ RequestsOK /\ row \in Row /\ BillingTypeOK /\ StripeBacked
        /\ InTurn /\ StripeTrue /\ LogTells /\ ReadTells /\ Unbound /\ Bound /\ LastCheckout
    BY FactTypes, InFlightParts DEF WireInv
  <1>2. row.sid # NoSub
    BY <1>1 DEF CancelBegins, CancelScheduled, CancelAborts, CancelSaves, Unbound
  <1>3. ASSUME UNCHANGED <<ledgerVars, stripe, log, dto, committed>>
        PROVE  /\ InTurn' /\ ReadTells'
               /\ \A e \in 1 .. Len(log) : Written(e)' <=> Written(e)
    <2>1. UNCHANGED <<ledger, acked, at, job>>
      BY <1>3 DEF ledgerVars
    <2>2. ReadTells'
      BY <1>3, <2>1, ReadStays
    <2>3. QED BY <1>1, <1>3, <2>1, <2>2 DEF InTurn, Written
  <1>4. ASSUME UNCHANGED webhookVars, saved' = saved PROVE OrderInv'
    BY <1>2, <1>3, <1>4, QuietKeepsOrder DEF webhookVars, billingVars, ledgerVars
  <1>5. CASE CancelBegins(t) \/ CancelAborts(t)
    BY <1>4, <1>5 DEF CancelBegins, CancelAborts
  <1>6. CASE CancelScheduled(t)
    <2>1. PICK s \in Subs : UNCHANGED webhookVars \/ Toggles(s)
      BY <1>6, Zenon DEF CancelScheduled
    <2>2. saved' = saved /\ \A u \in Tabs : cancelAt[u] = "idle" => cancelAt'[u] = "idle"
      BY <1>1, <1>6 DEF CancelScheduled, RequestsOK
    <2>3. CASE Toggles(s)
      <3>1. UNCHANGED <<ledgerVars, row, dto, committed>>
        BY <1>1, <2>3, StripeStep
      <3>2. Moved(s)
        BY <2>3, StripeTellsMove
      <3>3. QED BY <2>2, <3>1, <3>2, MoveKeepsOrder
    <2>4. QED BY <1>4, <2>1, <2>2, <2>3
  <1>7. CASE CancelSaves(t)
    <2>1. /\ row' = [row EXCEPT !.cancelling = TRUE,
                                !.periodEnd = Resolved(copy[t], replyEnd[t])]
          /\ saved' = TRUE /\ UNCHANGED <<ledgerVars, stripe, log, dto, committed>>
      BY <1>7 DEF CancelSaves
    <2>2. row'.sid = row.sid /\ row'.status = row.status /\ row'.cancelling = TRUE
      BY <1>1, <2>1 DEF Row
    <2>3. /\ InTurn' /\ ReadTells'
          /\ \A e \in 1 .. Len(log) : Written(e)' <=> Written(e)
      BY <1>3, <2>1
    <2>4. StripeTrue' /\ LogTells'
      BY <1>1, <2>1 DEF StripeTrue, Begun, LogTells, LastWord, Tells
    <2>5. Unbound' /\ LastCheckout'
      BY <1>1, <1>2, <2>1, <2>2, <2>3 DEF Unbound, LastCheckout, ledgerVars
    <2>6. AllWritten(row.sid)' => AllWritten(row.sid)
      BY <2>1, <2>2, <2>3 DEF AllWritten
    <2>7. Bound'
      BY <1>1, <2>1, <2>2, <2>6 DEF Bound
    <2>8. QED BY <2>3, <2>4, <2>5, <2>7 DEF OrderInv
  <1>8. QED BY <1>5, <1>6, <1>7

\* Every step keeps the row in step with the events.
LEMMA OrderStep == Facts /\ [CancelNext]_vars => OrderInv'
  <1> SUFFICES ASSUME Facts, [CancelNext]_vars PROVE OrderInv'
    OBVIOUS
  <1>1. ASSUME NEW s \in Subs, Stripe(s), UNCHANGED cancelVars PROVE OrderInv'
    <2>1. UNCHANGED <<ledgerVars, row, dto, committed>>
      BY <1>1, StripeStep, FactTypes, InFlightParts DEF WireInv
    <2>2. Moved(s)
      BY <1>1, StripeTellsMove
    <2>3. saved' = saved /\ cancelAt' = cancelAt
      BY <1>1 DEF cancelVars
    <2>4. QED BY <2>1, <2>2, <2>3, MoveKeepsOrder
  <1>2. ASSUME NEW w \in Workers, Runs(w) \/ Dies(w) \/ \E e \in Events : Deliver(w, e)
        PROVE  OrderInv'
    BY <1>2, LedgerOrder, BuildOrder, LeavesOrder, CommitOrder DEF Runs
  <1>3. CASE BillingNext
    BY <1>1, <1>2, <1>3, WebhooksLeaveRequests DEF BillingNext
  <1>4. CASE UNCHANGED vars
    <2>1. /\ UNCHANGED <<stripe, log, row, dto, committed>> /\ UNCHANGED cancelVars
          /\ UNCHANGED <<ledger, acked, at, job>>
      BY <1>4 DEF vars, webhookVars, ledgerVars, billingVars
    <2>2. InTurn' /\ \A e \in 1 .. Len(log) : Written(e)' => Written(e)
      BY <2>1, FactTypes DEF InTurn, Written
    <2>3. ReadTells'
      BY <2>1, ReadStays
    <2>4. saved' = saved /\ (row.sid = NoSub => \A t \in Tabs : cancelAt'[t] = "idle")
      BY <2>1, FactTypes DEF Unbound, cancelVars
    <2>5. QED BY <2>1, <2>2, <2>3, <2>4, QuietKeepsOrder
  <1>5. QED BY <1>3, <1>4, CancelOrder DEF CancelNext

\* All of it, in order or not.
CancelIInv ==
  /\ CancelWire /\ AllGranted /\ ReceiptInv /\ SettledInv
  /\ Orderly => OrderInv

\* The inductive invariant holds of every behaviour.
LEMMA CancelInvariant == CancelSpec => []CancelIInv
  <1>1. ASSUME BillingInit PROVE CancelIInv
    <2>1. CancelWire
      BY <1>1, BillingInitInv, RequestsInit DEF CancelWire, BillingIInv
    <2>2. AllGranted
      BY <1>1 DEF BillingInit, FreshRow, AllGranted, Granted
    <2>3. SettledInv
      BY <1>1, <2>1, LedgerAssumption
         DEF BillingInit, LedgerInit, CancelWire, WireInv, LedgerAssumption,
             SettledInv, Alone, AckedIsSettled, Holds, Running
    <2>4. /\ \A e \in Events : ledger[e] = "absent"
          /\ Len(log) = 0 /\ \A s \in Subs : stripe[s].status = "none" /\ stripe[s].periodEnd = 0
                                              /\ stripe[s].cancelling = FALSE
          /\ \A w \in Workers : dto[w] = NoSnap
          /\ \A t \in Tabs : cancelAt[t] = "idle"
          /\ row.sid = NoSub /\ row.periodEnd = 0 /\ row.cancelling = FALSE
      BY <1>1 DEF BillingInit, LedgerInit, FreshRow
    <2>5. OrderInv
      BY <2>4 DEF OrderInv, InTurn, StripeTrue, Begun, LogTells, ReadTells, Unbound, Bound,
                  LastCheckout
    <2>6. QED BY <1>1, <2>1, <2>2, <2>3, <2>5, ReceiptInit DEF CancelIInv
  <1>2. ASSUME CancelIInv, [CancelNext]_vars PROVE CancelIInv'
    <2>1. CancelWire' /\ AllGranted' /\ ReceiptInv'
      BY <1>2, CancelWireStep, GrantedStep, ReceiptStep DEF CancelIInv
    <2>2. SettledInv'
      BY <1>2, CancelStepLedger, SettledStep DEF CancelIInv
    <2>3. ASSUME Orderly PROVE OrderInv'
      <3>1. Facts
        BY <1>2, <2>3 DEF CancelIInv, Facts
      <3>2. QED BY <1>2, <3>1, OrderStep
    <2>4. Orderly' => Orderly
      BY DEF Orderly
    <2>5. QED BY <2>1, <2>2, <2>3, <2>4 DEF CancelIInv
  <1>3. QED BY <1>1, <1>2, PTL DEF CancelSpec

\* When every event is settled, all that Stripe has to say has been written.
LEMMA SettledIsWritten ==
  ASSUME Settled
  PROVE  /\ \A e \in 1 .. Len(log) : Written(e)
         /\ \A s \in Subs : AllWritten(s) /\ MostWritten(s)
BY DEF Settled, Written, AllWritten, MostWritten

\* The row of a settled account, in order.
LEMMA SettledRow ==
  ASSUME CancelIInv, Orderly, Settled, row.sid # NoSub
  PROVE  /\ row.sid \in Subs
         /\ row.status = MapStatus(stripe[row.sid].status)
         /\ stripe[row.sid].status \in {"none", "incomplete", "active", "past_due", "canceled"}
         /\ stripe[row.sid].cancelling => row.cancelling
         /\ ~ saved => /\ row.periodEnd = stripe[row.sid].periodEnd
                       /\ row.cancelling = stripe[row.sid].cancelling
  <1>1. Facts
    BY DEF CancelIInv, Facts
  <1>2. row.sid \in Subs /\ StripeTrue /\ Bound
    BY <1>1, FactTypes DEF Row
  <1>3. AllWritten(row.sid) /\ MostWritten(row.sid)
    BY <1>2, SettledIsWritten
  <1>4. QED BY <1>2, <1>3 DEF Bound, StripeTrue

(* RowAgrees, for any subscriptions, tabs, retries, exceptions and deaths  *)
(* of workers: events delivered in order, one at a time, leave the row     *)
(* saying what Stripe says.                                                *)
THEOREM RowFollowsStripe == CancelSpec => [](Orderly => RowAgrees)
  <1>1. CancelIInv => (Orderly => RowAgrees)
    BY SettledRow DEF RowAgrees, AgreesWhenSettled
  <1>2. QED BY <1>1, CancelInvariant, PTL

(* LatestCheckoutRules, under the same conditions: of the subscriptions a  *)
(* customer bought the row ends up with the last one.                      *)
THEOREM LatestCheckoutWins == CancelSpec => [](Orderly => LatestCheckoutRules)
  <1>1. ASSUME CancelIInv, Orderly, Settled PROVE LatestCheckoutRules
    <2>1. LastCheckout
      BY <1>1, FactTypes DEF CancelIInv, Facts
    <2>2. QED BY <1>1, <2>1, SettledIsWritten DEF LatestCheckoutRules, LastCheckout
  <1>2. CancelIInv => (Orderly => LatestCheckoutRules)
    BY <1>1 DEF LatestCheckoutRules
  <1>3. QED BY <1>2, CancelInvariant, PTL

(* AccessFollowsStripe, under the same conditions: unlimited chats are     *)
(* always within a period Stripe granted, and settled events give what the *)
(* subscription gives.                                                     *)
THEOREM AccessIsStripes == CancelSpec => [](Orderly => AccessFollowsStripe)
  <1>1. ASSUME CancelIInv, Orderly PROVE AccessFollowsStripe
    <2> SUFFICES ASSUME NEW now \in 0 .. MaxPeriod
                 PROVE  /\ Access(row, now) = "unlimited" => \E s \in Subs : now < stripe[s].periodEnd
                        /\ Settled /\ row.sid # NoSub /\ ~ saved =>
                             /\ Access(row, now) = "payment_overdue" <=> stripe[row.sid].status = "past_due"
                             /\ Access(row, now) = "unlimited" <=>
                                  stripe[row.sid].status = "active" /\ now < stripe[row.sid].periodEnd
      BY DEF AccessFollowsStripe
    <2>1. /\ row \in Row /\ row.periodEnd \in Nat /\ now \in Nat /\ now >= 0
          /\ \A s \in Subs : stripe[s].periodEnd \in Nat
          /\ Granted(row.periodEnd)
      BY <1>1, BillingAssumption
         DEF BillingAssumption, CancelIInv, CancelWire, WireInv, BillingTypeOK, Row, StripeSub, AllGranted
    <2>2. Access(row, now) = "unlimited" => \E s \in Subs : now < stripe[s].periodEnd
      <3> SUFFICES ASSUME Access(row, now) = "unlimited" PROVE \E s \in Subs : now < stripe[s].periodEnd
        OBVIOUS
      <3>1. row.periodEnd > now
        BY DEF Access, Pro
      <3>2. QED BY <2>1, <3>1 DEF Granted
    <2>3. ASSUME Settled, row.sid # NoSub, ~ saved
          PROVE  /\ Access(row, now) = "payment_overdue" <=> stripe[row.sid].status = "past_due"
                 /\ Access(row, now) = "unlimited" <=>
                      stripe[row.sid].status = "active" /\ now < stripe[row.sid].periodEnd
      <3>1. /\ row.status = MapStatus(stripe[row.sid].status)
            /\ stripe[row.sid].status \in {"none", "incomplete", "active", "past_due", "canceled"}
            /\ row.periodEnd = stripe[row.sid].periodEnd
        BY <1>1, <2>3, SettledRow
      <3>2. QED BY <2>1, <3>1 DEF Access, Pro, MapStatus
    <2>4. QED BY <2>2, <2>3
  <1>2. CancelIInv => (Orderly => AccessFollowsStripe)
    BY <1>1
  <1>3. QED BY <1>2, CancelInvariant, PTL
-------------------------------------------------------------------------------
\* The handler of e has gone all the way, recorded or about to be.
Finished(e) == ledger[e] = "processed" \/ \E w \in Workers : job[w] = e /\ at[w] = "returned"

\* EndIsTold holds as soon as the handler returns.
ToldInv == \A e \in 1 .. Len(log) : Finished(e) /\ EndsCurrent(e) => e \in mails

\* A finished event has nothing before it that could still be settled.
LEMMA FinishedIsNewest ==
  ASSUME Facts, NEW w \in Workers, at[w] \in Running, NEW e \in Events, e > job[w]
  PROVE  ~ Finished(e)
  <1>1. ledger[e] = "absent"
    BY HeldIsNewest
  <1>2. ASSUME NEW v \in Workers, job[v] = e, at[v] = "returned" PROVE FALSE
    <2>1. ledger[job[v]] = "processing"
      BY <1>2, HeldIsNewest DEF Running
    <2>2. QED BY <1>1, <1>2, <2>1
  <1>3. QED BY <1>1, <1>2 DEF Finished

\* What a step must not do to keep ToldInv.
LEMMA ToldKeeps ==
  ASSUME Facts, ToldInv, mails \subseteq mails', Len(log') \in Nat, Len(log) <= Len(log'),
         \A i \in 1 .. Len(log) : log'[i] = log[i],
         \A e \in Events : Finished(e)' => Finished(e) \/ e \in mails' \/ ~ EndsCurrent(e)',
         \A e, f \in Events :
           f < e /\ Finished(e) /\ ledger'[f] \in Terminal => ledger[f] \in Terminal,
         \A e \in 1 .. Len(log') : e \in Events
  PROVE  ToldInv'
  <1> SUFFICES ASSUME NEW e \in 1 .. Len(log'), Finished(e)', EndsCurrent(e)' PROVE e \in mails'
    BY DEF ToldInv
  <1>1. /\ e \in Events /\ Len(log) \in Nat /\ LoggedOnly
        /\ \A w \in Workers : at[w] # "idle" => job[w] \in 1 .. Len(log)
    BY FactTypes
  <1>2. CASE e \in mails'
    BY <1>2
  <1>3. CASE Finished(e)
    <2>1. e \in 1 .. Len(log)
      BY <1>1, <1>3 DEF Finished, LoggedOnly
    <2>2. \A f \in 1 .. e - 1 : ledger'[f] \in Terminal /\ log'[f] = log[f] /\ f \in Events /\ f < e
      BY <1>1, <2>1 DEF EndsCurrent
    <2>3. \A f \in 1 .. e - 1 : ledger[f] \in Terminal
      BY <1>1, <1>3, <2>2
    <2>4. PICK c \in 1 .. e - 1 : /\ log'[c].type = "checkout" /\ log'[c].sub = log'[e].sub
                                  /\ \A f \in c + 1 .. e : log'[f].type # "checkout"
      BY DEF EndsCurrent
    <2>5. \A f \in c + 1 .. e : f \in 1 .. Len(log) /\ log'[f] = log[f]
      BY <1>1, <2>1
    <2>6. EndsCurrent(e)
      BY <2>1, <2>2, <2>3, <2>4, <2>5 DEF EndsCurrent
    <2>7. QED BY <1>3, <2>1, <2>6 DEF ToldInv
  <1>4. QED BY <1>1, <1>2, <1>3

\* When nothing moves but Stripe, the row and the requests.
LEMMA ToldStays ==
  ASSUME Facts, ToldInv, UNCHANGED <<ledger, at, job, mails>>, Len(log') \in Nat,
         Len(log) <= Len(log'), Len(log') <= MaxEvents, \A i \in 1 .. Len(log) : log'[i] = log[i]
  PROVE  ToldInv'
  <1>1. \A e \in 1 .. Len(log') : e \in Events
    BY FactTypes
  <1>2. \A e \in Events : Finished(e)' => Finished(e)
    BY DEF Finished
  <1>3. QED BY <1>1, <1>2, ToldKeeps

\* The end of the current subscription is not taken for that of another.
LEMMA EndIsCurrent ==
  ASSUME Facts, NEW w \in Workers, at[w] = "claimed", dto[w] # NoSnap, EndsCurrent(job[w])
  PROVE  Mails(Current(w).type, dto[w])
  <1> DEFINE i == job[w]
  <1>1. /\ i \in 1 .. Len(log) /\ Len(log) \in Nat /\ WireInv /\ LastCheckout
        /\ \A f \in 1 .. Len(log) : f \in Events
    BY FactTypes
  <1>2. Current(w) = log[i] /\ log[i].type = "deleted" /\ dto[w].sub = log[i].sub
    BY <1>1, InFlightParts DEF WireInv, ReadBacked, Current, EndsCurrent
  <1>3. PICK c \in 1 .. i - 1 : /\ log[c].type = "checkout" /\ log[c].sub = log[i].sub
                                /\ \A f \in c + 1 .. i : log[f].type # "checkout"
    BY DEF EndsCurrent
  <1>4. c \in 1 .. Len(log) /\ Written(c)
    BY <1>1, <1>3 DEF EndsCurrent, Written
  <1>5. \A f \in c + 1 .. Len(log) : log[f].type = "checkout" => ledger[f] = "absent"
    <2> SUFFICES ASSUME NEW f \in c + 1 .. Len(log), f > i PROVE ledger[f] = "absent"
      BY <1>1, <1>3
    <2>1. f \in Events
      BY <1>1, <1>4
    <2>2. QED BY <2>1, HeldIsNewest DEF Running
  <1>6. row.sid = log[i].sub
    BY <1>1, <1>3, <1>4, <1>5 DEF LastCheckout
  <1>7. QED BY <1>2, <1>6 DEF Mails, IsCurrent

\* A handler that finishes has queued its e-mail or had none to send.
LEMMA ToldWorker ==
  ASSUME Facts, ToldInv, NEW w \in Workers,
         Runs(w) \/ Dies(w) \/ \E e \in Events : Deliver(w, e)
  PROVE  ToldInv'
  <1>1. /\ at \in [Workers -> {"idle", "stored"} \cup Running]
        /\ job \in [Workers -> Events \cup {NoEvent}]
        /\ ledger \in [Events -> {"absent", "processing"} \cup Claimable \cup Terminal]
        /\ committed \in [Workers -> BOOLEAN] /\ Handled = Events
        /\ \A v \in Workers : at[v] # "idle" => job[v] \in Events
        /\ \A v \in Workers : committed[v] => at[v] = "claimed"
        /\ Events \subseteq Nat /\ Len(log) \in Nat /\ Len(log) <= MaxEvents
        /\ \A i \in 1 .. Len(log) : i \in Events
    BY FactTypes
  <1>2. log' = log /\ mails \subseteq mails'
    BY DEF Runs, LedgerOnly, BuildDTO, Commit, Enqueue, Fails, Dies, Deliver, billingVars
  <1>3. ASSUME \A e \in Events : Finished(e)' => Finished(e) \/ e \in mails' \/ ~ EndsCurrent(e)',
               \A e, f \in Events :
                 f < e /\ Finished(e) /\ ledger'[f] \in Terminal => ledger[f] \in Terminal
        PROVE  ToldInv'
    BY <1>1, <1>2, <1>3, ToldKeeps
  <1>4. CASE BuildDTO(w)
    <2>1. UNCHANGED <<ledger, at, job, mails>>
      BY <1>4 DEF BuildDTO, ledgerVars
    <2>2. QED BY <1>1, <1>2, <2>1, ToldStays
  <1>5. CASE LedgerOnly(w)
    <2>1. /\ \A v \in Workers \ {w} : at'[v] = at[v] /\ job'[v] = job[v]
          /\ at'[w] # "returned"
      BY <1>1, <1>5 DEF LedgerOnly, Claim, RecordProcessed, RecordFailed, Answer
    <2>2. \A e \in Events :
            ledger'[e] \in Terminal =>
              \/ ledger[e] \in Terminal /\ ledger'[e] = ledger[e]
              \/ at[w] = "returned" /\ e = job[w]
      BY <1>1, <1>5 DEF LedgerOnly, Claim, RecordProcessed, RecordFailed, UpdateWhere, Terminal,
                        Claimable
    <2>3. \A e \in Events : Finished(e)' => Finished(e)
      BY <2>1, <2>2 DEF Finished, Terminal
    <2>4. ASSUME NEW e \in Events, NEW f \in Events, f < e, Finished(e),
                 ledger'[f] \in Terminal, ledger[f] \notin Terminal
          PROVE  FALSE
      <3>1. at[w] = "returned" /\ f = job[w]
        BY <2>2, <2>4
      <3>2. at[w] \in Running /\ e > job[w]
        BY <1>1, <2>4, <3>1 DEF Running
      <3>3. QED BY <2>4, <3>2, FinishedIsNewest
    <2>5. QED BY <1>3, <2>3, <2>4
  <1>6. CASE \E e \in Events : Deliver(w, e)
    <2>1. PICK e \in Events : Receive(w, e)
      BY <1>6 DEF Deliver
    <2>2. /\ \A v \in Workers \ {w} : at'[v] = at[v] /\ job'[v] = job[v]
          /\ at'[w] = "stored"
      BY <1>1, <2>1 DEF Receive
    <2>3. \A f \in Events : ledger'[f] \in Terminal => ledger'[f] = ledger[f]
      BY <1>1, <2>1 DEF Receive, UpdateWhere, Terminal
    <2>4. \A f \in Events : Finished(f)' => Finished(f)
      BY <2>2, <2>3 DEF Finished, Terminal
    <2>5. QED BY <1>3, <2>3, <2>4
  <1>7. CASE Enqueue(w) \/ Fails(w) \/ Dies(w)
    <2>1. HandlerReturns(w) \/ HandlerRaises(w) \/ Crash(w)
      BY <1>7 DEF Enqueue, Fails, Dies
    <2>2. /\ ledger' = ledger
          /\ \A v \in Workers \ {w} : at'[v] = at[v] /\ job'[v] = job[v]
      BY <1>1, <2>1 DEF HandlerReturns, HandlerRaises, Crash, Answer
    <2>3. at'[w] = "returned" => job'[w] = job[w] /\ job[w] \in mails'
      BY <1>1, <1>7 DEF Enqueue, Fails, Dies, HandlerReturns, HandlerRaises, Crash, Answer
    <2>4. \A e \in Events : Finished(e)' => Finished(e) \/ e \in mails'
      BY <2>2, <2>3 DEF Finished
    <2>5. QED BY <1>3, <2>2, <2>4
  <1>8. CASE Commit(w)
    <2>1. /\ at[w] = "claimed" /\ dto[w] # NoSnap /\ job' = job /\ ledger' = ledger
          /\ \A v \in Workers \ {w} : at'[v] = at[v]
      BY <1>1, <1>8 DEF Commit, HandlerReturns, ledgerVars
    <2>2. at'[w] = "returned" => ~ Mails(Current(w).type, dto[w])
      <3>1. Mails(Current(w).type, dto[w]) => at' = at
        BY <1>8 DEF Commit, ledgerVars
      <3>2. QED BY <2>1, <3>1
    <2>3. EndsCurrent(job[w])' => EndsCurrent(job[w])
      BY <1>2, <2>1 DEF EndsCurrent
    <2>4. at'[w] = "returned" => ~ EndsCurrent(job[w])'
      BY <2>1, <2>2, <2>3, EndIsCurrent
    <2>5. \A e \in Events : Finished(e)' => Finished(e) \/ ~ EndsCurrent(e)'
      BY <2>1, <2>4 DEF Finished
    <2>6. QED BY <1>3, <2>1, <2>5
  <1>9. QED BY <1>4, <1>5, <1>6, <1>7, <1>8 DEF Runs

\* Stripe and the requests finish no handler.
LEMMA ToldStep == Facts /\ ToldInv /\ [CancelNext]_vars => ToldInv'
  <1> SUFFICES ASSUME Facts, ToldInv, [CancelNext]_vars PROVE ToldInv'
    OBVIOUS
  <1>1. Len(log) \in Nat /\ Len(log) <= MaxEvents /\ MaxEvents \in Nat /\ log \in Seq(Event)
    BY FactTypes
  <1>2. ASSUME NEW s \in Subs, Moved(s), UNCHANGED <<ledgerVars, mails>> PROVE ToldInv'
    <2>1. /\ Len(log') \in Nat /\ Len(log) <= Len(log') /\ Len(log') <= MaxEvents
          /\ \A i \in 1 .. Len(log) : log'[i] = log[i]
      BY <1>1, <1>2 DEF Moved
    <2>2. UNCHANGED <<ledger, at, job, mails>>
      BY <1>2 DEF ledgerVars
    <2>3. QED BY <2>1, <2>2, ToldStays
  <1>3. ASSUME UNCHANGED <<ledgerVars, log, mails>> PROVE ToldInv'
    BY <1>1, <1>3, ToldStays DEF ledgerVars
  <1>4. ASSUME NEW s \in Subs, Stripe(s) PROVE ToldInv'
    <2>1. UNCHANGED <<ledgerVars, mails>>
      BY <1>4 DEF Stripe, FirstPaymentFails, CheckoutCompletes, Renews, RenewalFails, Recovers,
                  TogglesCancelling, Toggles, Ends, StripeMoves
    <2>2. QED BY <1>2, <1>4, <2>1, StripeTellsMove
  <1>5. ASSUME NEW t \in Tabs,
               CancelBegins(t) \/ CancelScheduled(t) \/ CancelAborts(t) \/ CancelSaves(t)
        PROVE  ToldInv'
    <2>1. CASE CancelBegins(t) \/ CancelAborts(t) \/ CancelSaves(t)
      BY <1>3, <2>1 DEF CancelBegins, CancelAborts, CancelSaves, webhookVars, billingVars
    <2>2. CASE CancelScheduled(t)
      <3>1. PICK s \in Subs : UNCHANGED webhookVars \/ Toggles(s)
        BY <2>2, Zenon DEF CancelScheduled
      <3>2. CASE UNCHANGED webhookVars
        BY <1>3, <3>2 DEF webhookVars, billingVars
      <3>3. CASE Toggles(s)
        <4>1. UNCHANGED <<ledgerVars, mails>>
          BY <3>3 DEF Toggles, StripeMoves
        <4>2. QED BY <1>2, <3>3, <4>1, StripeTellsMove
      <3>4. QED BY <3>1, <3>2, <3>3
    <2>3. QED BY <1>5, <2>1, <2>2
  <1>6. CASE UNCHANGED vars
    BY <1>3, <1>6 DEF vars, webhookVars, billingVars
  <1>7. QED BY <1>4, <1>5, <1>6, ToldWorker DEF CancelNext, BillingNext

(* EndIsTold, under the same conditions: losing the subscription bought    *)
(* last is told by e-mail, however often the handler failed after it had   *)
(* committed the end.                                                      *)
THEOREM EndsAreTold == CancelSpec => [](Orderly => EndIsTold)
  <1>1. BillingInit => (Orderly => ToldInv)
    BY DEF BillingInit, ToldInv
  <1>2. ASSUME CancelIInv, Orderly => ToldInv, [CancelNext]_vars PROVE (Orderly => ToldInv)'
    <2>1. Orderly' => Orderly
      BY DEF Orderly
    <2>2. Orderly => Facts
      BY <1>2 DEF CancelIInv, Facts
    <2>3. QED BY <1>2, <2>1, <2>2, ToldStep
  <1>3. (Orderly => ToldInv) => (Orderly => EndIsTold)
    BY DEF ToldInv, EndIsTold, Finished
  <1>4. QED BY <1>1, <1>2, <1>3, CancelInvariant, PTL DEF CancelSpec
===============================================================================
