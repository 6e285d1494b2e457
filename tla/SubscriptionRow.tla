---------------------------- MODULE SubscriptionRow ----------------------------
(***************************************************************************)
(* The one UserSubscription row of a customer and what each Stripe event   *)
(* does to it (services/user_subscription.py), as operators from a row and *)
(* a Stripe snapshot to the next row.  A moment is a natural number, 0     *)
(* stands for None.  Kept: the fields that decide entitlement and binding. *)
(* current_period_start and canceled_at decide nothing and are left out;   *)
(* "ended" says whether ended_at is set; started_at is represented by the  *)
(* subscription whose start date it is.                                    *)
(***************************************************************************)
EXTENDS Naturals

CONSTANTS Subs,    \* Stripe subscription ids of the customer
          NoSub,   \* the empty stripe_subscription_id / started_at
          NoSnap   \* no snapshot

StripeStatus == {"trialing", "active", "past_due", "canceled", "unpaid",
                 "incomplete_expired", "incomplete", "paused"}
RowStatus    == {"inactive", "active", "past_due", "canceled"}

\* What a mapper reads from a Stripe Subscription (the four DTOs).
Snapshot == [sub : Subs, status : StripeStatus, periodEnd : Nat,
             cancelling : BOOLEAN, ended : BOOLEAN]

ASSUME RowAssumption == NoSub \notin Subs /\ NoSnap \notin Snapshot

Row == [sid : Subs \cup {NoSub}, status : RowStatus, started : Subs \cup {NoSub},
        periodEnd : Nat, cancelling : BOOLEAN, ended : BOOLEAN]

\* The row checkout created before any Stripe event of the customer.
FreshRow == [sid |-> NoSub, status |-> "inactive", started |-> NoSub,
             periodEnd |-> 0, cancelling |-> FALSE, ended |-> FALSE]

MapStatus(status) ==
  CASE status \in {"active", "trialing"} -> "active"
    [] status = "past_due" -> "past_due"
    [] status \in {"canceled", "unpaid", "incomplete_expired"} -> "canceled"
    [] OTHER -> "inactive"

\* _resolve_current_period_end: an unreadable period keeps the stored one.
Resolved(row, periodEnd) == IF periodEnd # 0 THEN periodEnd ELSE row.periodEnd

\* Mutants: any event binds; an unbound row adopts nothing.
BindsAny(row, sub) == TRUE
BindsBound(row, sub) == row.sid = sub

\* _bind_subscription_event, for the invoice events: an unbound row adopts.
Binds(row, sub) == row.sid \in {NoSub, sub}

\* The check of the updated and deleted events: only the current subscription.
IsCurrent(row, sub) == row.sid = sub

\* The fields every synchronisation copies from the snapshot.
Synced(row, snap) ==
  [row EXCEPT !.status = MapStatus(snap.status),
              !.periodEnd = Resolved(row, snap.periodEnd),
              !.cancelling = snap.cancelling,
              !.ended = snap.ended,
              !.started = IF @ = NoSub THEN snap.sub ELSE @]

\* Mutant: a recorded id is kept.
FromCheckoutKeeps(row, snap) == IF Binds(row, snap.sub) THEN [Synced(row, snap) EXCEPT !.sid = snap.sub] ELSE row

\* sync_user_subscription_from_checkout: a whole snapshot, written verbatim.
FromCheckout(row, snap) ==
  [sid |-> snap.sub, status |-> MapStatus(snap.status), started |-> snap.sub,
   periodEnd |-> snap.periodEnd, cancelling |-> snap.cancelling, ended |-> snap.ended]

\* mark_subscription_paid
FromPaid(row, snap) ==
  IF Binds(row, snap.sub) THEN [Synced(row, snap) EXCEPT !.sid = snap.sub] ELSE row

\* mark_subscription_payment_failed: only the link and the status.
FromPaymentFailed(row, snap) ==
  IF Binds(row, snap.sub)
  THEN [row EXCEPT !.sid = snap.sub, !.status = MapStatus(snap.status)]
  ELSE row

\* Mutants: the current-subscription check is dropped; the flag is not copied.
FromUpdatedAny(row, snap) == Synced(row, snap)
FromUpdatedForgets(row, snap) ==
  IF IsCurrent(row, snap.sub)
  THEN [Synced(row, snap) EXCEPT !.cancelling = row.cancelling]
  ELSE row

\* sync_user_subscription_from_stripe
FromUpdated(row, snap) == IF IsCurrent(row, snap.sub) THEN Synced(row, snap) ELSE row

\* mark_subscription_deleted: the period is written as it came, None included.
FromDeleted(row, snap) ==
  IF IsCurrent(row, snap.sub)
  THEN [row EXCEPT !.status = "canceled", !.periodEnd = snap.periodEnd,
                   !.cancelling = snap.cancelling, !.ended = TRUE]
  ELSE row
-------------------------------------------------------------------------------
\* UserSubscription.pro: a paid status backed by a period end to come.
Pro(row, now) == row.status \in {"active", "past_due"} /\ row.periodEnd > now

\* Mutant: pro is asked first, and holds through the grace period.
AccessProFirst(row, now) ==
  CASE Pro(row, now) -> "unlimited"
    [] ~ Pro(row, now) /\ row.status = "past_due" -> "payment_overdue"
    [] OTHER -> "free"

\* resolve_private_chat_access of a user with a row; a guest or a user without
\* one is "free", and nobody is capped while accounts are switched off.
Access(row, now) ==
  CASE row.status = "past_due" -> "payment_overdue"
    [] row.status # "past_due" /\ Pro(row, now) -> "unlimited"
    [] OTHER -> "free"
===============================================================================
