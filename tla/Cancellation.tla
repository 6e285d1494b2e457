------------------------------ MODULE Cancellation ------------------------------
(***************************************************************************)
(* Billing with the cancellation view added: cancel_user_subscription reads*)
(* the row without a lock, asks Stripe to cancel at the period end, and    *)
(* saves two fields of the copy it read.  Webhooks, Stripe and the other   *)
(* tabs of the user run between the three steps.                           *)
(***************************************************************************)
EXTENDS StripeWebhooks

CancelTypeOK ==
  /\ BillingTypeOK
  /\ cancelAt \in [Tabs -> {"idle", "asking", "saving"}]
  /\ copy \in [Tabs -> Row]
  /\ replyEnd \in [Tabs -> Nat]
  /\ saved \in BOOLEAN
  /\ \A t \in Tabs : cancelAt[t] # "idle" =>
       copy[t].sid # NoSub /\ copy[t].status \in {"active", "past_due"}

\* The checks of cancel_user_subscription; a request they refuse changes nothing.
CancelBegins(t) ==
  /\ cancelAt[t] = "idle"
  /\ row.sid # NoSub
  /\ ~ row.cancelling
  /\ row.status \in {"active", "past_due"}
  /\ cancelAt' = [cancelAt EXCEPT ![t] = "asking"]
  /\ copy' = [copy EXCEPT ![t] = row]
  /\ UNCHANGED <<webhookVars, replyEnd, saved>>

\* Stripe schedules the cancellation and, if that is a change, says so in an event.
CancelScheduled(t) ==
  /\ cancelAt[t] = "asking"
  /\ \E s \in Subs :
       /\ s = copy[t].sid
       /\ stripe[s].status \in {"active", "past_due"}
       /\ \/ stripe[s].cancelling /\ UNCHANGED webhookVars
          \/ ~ stripe[s].cancelling /\ Toggles(s)
       /\ \E end \in {stripe[s].periodEnd} \cup IF Unreadable THEN {0} ELSE {} :
            replyEnd' = [replyEnd EXCEPT ![t] = end]
  /\ cancelAt' = [cancelAt EXCEPT ![t] = "saving"]
  /\ UNCHANGED <<copy, saved>>

Ended(t) ==
  /\ cancelAt' = [cancelAt EXCEPT ![t] = "idle"]
  /\ copy' = [copy EXCEPT ![t] = FreshRow]
  /\ replyEnd' = [replyEnd EXCEPT ![t] = 0]

\* A StripeError while asking, or the worker dies on the way.
CancelAborts(t) ==
  /\ cancelAt[t] # "idle"
  /\ Ended(t)
  /\ UNCHANGED <<webhookVars, saved>>

\* Mutant: save() without update_fields writes the whole copy.
CancelSavesAll(t) ==
  /\ cancelAt[t] = "saving"
  /\ row' = [copy[t] EXCEPT !.cancelling = TRUE,
                            !.periodEnd = Resolved(copy[t], replyEnd[t])]
  /\ Ended(t)
  /\ saved' = TRUE
  /\ UNCHANGED <<ledgerVars, stripe, log, dto, committed, notices, mails>>

\* save(update_fields = cancel_at_period_end, current_period_end, updated_at)
CancelSaves(t) ==
  /\ cancelAt[t] = "saving"
  /\ row' = [row EXCEPT !.cancelling = TRUE,
                        !.periodEnd = Resolved(copy[t], replyEnd[t])]
  /\ Ended(t)
  /\ saved' = TRUE
  /\ UNCHANGED <<ledgerVars, stripe, log, dto, committed, notices, mails>>

CancelNext ==
  \/ BillingNext
  \/ \E t \in Tabs :
       CancelBegins(t) \/ CancelScheduled(t) \/ CancelAborts(t) \/ CancelSaves(t)

CancelSpec == BillingInit /\ [][CancelNext]_vars
-------------------------------------------------------------------------------
(* A cancellation that finishes late never takes the row back to the       *)
(* subscription it was read with: still only a checkout event rebinds it.  *)
CancelNeverRebinds ==
  [][row.sid # NoSub /\ row'.sid # row.sid
       => \E w \in Workers : at[w] = "claimed" /\ Current(w).type = "checkout"]_vars

(* When every event is settled the row says what Stripe says about the     *)
(* subscription it names, in full until the user's own cancellation has    *)
(* been saved.  After that the status still agrees and a scheduled         *)
(* cancellation is still shown; a late save may show one the user has      *)
(* since resumed, or the period of the subscription it was begun on.       *)
RowAgrees ==
  Settled /\ row.sid # NoSub =>
    /\ row.status = MapStatus(stripe[row.sid].status)
    /\ stripe[row.sid].cancelling => row.cancelling
    /\ ~ saved => AgreesWhenSettled

(* "This is the only place allowed to replace an already recorded          *)
(* stripe_subscription_id": of several subscriptions a customer bought,    *)
(* also while another is overdue, the row ends up with the one whose       *)
(* checkout event came last.                                               *)
LatestCheckoutRules ==
  Settled => \A e \in 1 .. Len(log) :
    log[e].type = "checkout" /\ (\A f \in e + 1 .. Len(log) : log[f].type # "checkout")
      => row.sid = log[e].sub

\* Is e the end of the subscription last bought, all before it settled?
EndsCurrent(e) ==
  /\ log[e].type = "deleted"
  /\ \A f \in 1 .. e - 1 : ledger[f] \in Terminal
  /\ \E c \in 1 .. e - 1 :
       /\ log[c].type = "checkout" /\ log[c].sub = log[e].sub
       /\ \A f \in c + 1 .. e : log[f].type # "checkout"

(* Whoever loses the subscription bought last is told by e-mail, though    *)
(* the end is committed before the e-mail is queued: when that fails, the  *)
(* retry finds an ended row and must queue it all the same                 *)
(* (handle_customer_subscription_deleted).                                 *)
EndIsTold ==
  \A e \in 1 .. Len(log) : ledger[e] = "processed" /\ EndsCurrent(e) => e \in mails

(* What the chat asks of the row.  No mix of two subscriptions gives       *)
(* unlimited chats beyond what Stripe granted for some subscription, not   *)
(* even a cancellation begun on one and saved onto the row of another.     *)
(* (Granted, not paid: a renewal whose payment failed has begun a period,  *)
(* too.)  And once events are settled an overdue customer is told of       *)
(* billing and capped, one with an active subscription is unlimited to the *)
(* end of its period, also after scheduling a cancellation in the Billing  *)
(* Portal.                                                                 *)
AccessFollowsStripe ==
  \A now \in 0 .. MaxPeriod :
    /\ Access(row, now) = "unlimited" => \E s \in Subs : now < stripe[s].periodEnd
    /\ Settled /\ row.sid # NoSub /\ ~ saved =>
         LET sub == stripe[row.sid]
         IN /\ Access(row, now) = "payment_overdue" <=> sub.status = "past_due"
            /\ Access(row, now) = "unlimited" <=> sub.status = "active" /\ now < sub.periodEnd
===============================================================================
