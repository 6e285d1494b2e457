-------------------------------- MODULE Checkout --------------------------------
(***************************************************************************)
(* Requests of one user to the Pro checkout: create_pro_checkout_session.  *)
(* A request locks the subscription row, refuses an active one, makes sure *)
(* of a Stripe customer and commits it, and then asks Stripe for a         *)
(* Checkout session under a key that names the current window of ten       *)
(* minutes.  Requests overlap (tabs, double submits, retries) and fail or  *)
(* die before or after Stripe did what they asked.                         *)
(***************************************************************************)
EXTENDS Naturals, Sequences, FiniteSets

CONSTANTS Requests,   \* requests that may run at once
          NoRequest,
          MaxWindows, \* bound on windows of ten minutes
          MaxForgets  \* bound on keys Stripe forgets

ASSUME CheckoutAssumption ==
  /\ NoRequest \notin Requests
  /\ IsFiniteSet(Requests)
  /\ MaxWindows \in Nat \ {0}
  /\ MaxForgets \in Nat

VARIABLES
  status,    \* of the subscription row
  customer,  \* its stripe_customer_id, 0 for none
  lock,      \* the request that holds the row lock over its Stripe call
  at,        \* the step each request has reached
  got,       \* the customer each request knows, 0 for none
  asked,     \* the window in the key of the session it asks for
  window,    \* timestamp // CHECKOUT_SESSION_IDEMPOTENCY_WINDOW_SECONDS
  customers, \* how many customers Stripe has created for this user
  keyed,     \* the customer Stripe remembers under the user's key, 0 for none
  forgets,   \* how often Stripe has forgotten that key
  sessions,  \* the Checkout sessions at Stripe, in order of creation
  late       \* sessions created since the row was last made active

rowVars == <<status, customer, lock>>
requestVars == <<at, got, asked>>
stripeVars == <<customers, keyed, forgets, sessions>>
vars == <<rowVars, requestVars, window, stripeVars, late>>

RowStatus == {"inactive", "active", "past_due", "canceled"}
InTransaction == {"customer", "save"}
Session == [window : Nat, customer : Nat, state : {"open", "complete", "expired"}]

CheckoutTypeOK ==
  /\ status \in RowStatus
  /\ customer \in Nat
  /\ lock \in Requests \cup {NoRequest}
  /\ at \in [Requests -> {"idle", "session", "asking"} \cup InTransaction]
  /\ \A r \in Requests : at[r] \in InTransaction <=> lock = r
  /\ got \in [Requests -> Nat]
  /\ asked \in [Requests -> Nat]
  /\ window \in Nat
  /\ customers \in Nat /\ keyed \in 0 .. customers /\ forgets \in Nat
  /\ sessions \in Seq(Session)
  /\ late \in Nat

CheckoutInit ==
  /\ status = "inactive" /\ customer = 0 /\ lock = NoRequest
  /\ at = [r \in Requests |-> "idle"]
  /\ got = [r \in Requests |-> 0]
  /\ asked = [r \in Requests |-> 0]
  /\ window = 1
  /\ customers = 0 /\ keyed = 0 /\ forgets = 0 /\ sessions = <<>>
  /\ late = 0
-------------------------------------------------------------------------------
Goes(r, step) == at' = [at EXCEPT ![r] = step]

Ends(r) ==
  /\ Goes(r, "idle")
  /\ got' = [got EXCEPT ![r] = 0]
  /\ asked' = [asked EXCEPT ![r] = 0]

(* _get_user_subscription_with_stripe_customer                             *)

\* Mutant: an active subscription is not refused.
LocksAny(r) ==
  /\ at[r] = "idle"
  /\ lock = NoRequest
  /\ IF customer = 0
     THEN lock' = r /\ Goes(r, "customer") /\ UNCHANGED got
     ELSE UNCHANGED lock /\ Goes(r, "session") /\ got' = [got EXCEPT ![r] = customer]
  /\ UNCHANGED <<status, customer, asked, window, stripeVars, late>>

\* The row is locked and checked; with a customer there the transaction ends at
\* once.  A refused request changes nothing.
Locks(r) ==
  /\ at[r] = "idle"
  /\ lock = NoRequest
  /\ status # "active"
  /\ IF customer = 0
     THEN lock' = r /\ Goes(r, "customer") /\ UNCHANGED got
     ELSE UNCHANGED lock /\ Goes(r, "session") /\ got' = [got EXCEPT ![r] = customer]
  /\ UNCHANGED <<status, customer, asked, window, stripeVars, late>>

\* Mutant: create_customer is called without an idempotency key.
CreatesCustomerAnew(r) ==
  /\ at[r] = "customer" /\ Goes(r, "save")
  /\ customers' = customers + 1
  /\ keyed' = customers'
  /\ got' = [got EXCEPT ![r] = customers']
  /\ UNCHANGED <<rowVars, asked, window, forgets, sessions, late>>

\* Under a known key Stripe answers with the customer it created before.
CreatesCustomer(r) ==
  /\ at[r] = "customer" /\ Goes(r, "save")
  /\ customers' = customers + (IF keyed = 0 THEN 1 ELSE 0)
  /\ keyed' = IF keyed = 0 THEN customers' ELSE keyed
  /\ got' = [got EXCEPT ![r] = keyed']
  /\ UNCHANGED <<rowVars, asked, window, forgets, sessions, late>>

\* Mutant: the customer id is not saved.
SavesNothing(r) ==
  /\ at[r] = "save" /\ Goes(r, "session")
  /\ lock' = NoRequest
  /\ UNCHANGED <<status, customer, got, asked, window, stripeVars, late>>

SavesCustomer(r) ==
  /\ at[r] = "save" /\ Goes(r, "session")
  /\ customer' = got[r]
  /\ lock' = NoRequest
  /\ UNCHANGED <<status, got, asked, window, stripeVars, late>>

\* A StripeError or a death, before or after Stripe created the customer.
RollsBack(r) ==
  /\ at[r] \in InTransaction
  /\ lock' = NoRequest
  /\ Ends(r)
  /\ UNCHANGED <<status, customer, window, stripeVars, late>>

(* create_pro_checkout_session, after the transaction                      *)

\* build_checkout_session_idempotency_key
Asks(r) ==
  /\ at[r] = "session" /\ Goes(r, "asking")
  /\ asked' = [asked EXCEPT ![r] = window]
  /\ UNCHANGED <<rowVars, got, window, stripeVars, late>>

\* Under a known key Stripe answers with the session it created before.
StripeSession(r) ==
  IF \E i \in DOMAIN sessions : sessions[i].window = asked[r]
  THEN UNCHANGED <<sessions, late>>
  ELSE /\ sessions' = Append(sessions,
                        [window |-> asked[r], customer |-> got[r], state |-> "open"])
       /\ late' = late + (IF status = "active" THEN 1 ELSE 0)

GetsSession(r) ==
  /\ at[r] = "asking"
  /\ StripeSession(r)
  /\ Ends(r)
  /\ UNCHANGED <<rowVars, window, customers, keyed, forgets>>

\* A StripeError or a death once the request is out of the transaction; Stripe
\* may have created the session all the same (GetsSession, its answer lost).
Fails(r) ==
  /\ at[r] \in {"session", "asking"}
  /\ Ends(r)
  /\ UNCHANGED <<rowVars, window, stripeVars, late>>

Handles(r) ==
  \/ Locks(r) \/ CreatesCustomer(r) \/ SavesCustomer(r) \/ RollsBack(r)
  \/ Asks(r) \/ GetsSession(r) \/ Fails(r)
-------------------------------------------------------------------------------
(* Around the requests.                                                    *)

NextWindow ==
  /\ window < MaxWindows
  /\ window' = window + 1
  /\ UNCHANGED <<rowVars, requestVars, stripeVars, late>>

\* Stripe keeps an idempotency key for a day; no request lives as long.
KeyForgotten ==
  /\ keyed # 0
  /\ lock = NoRequest
  /\ forgets < MaxForgets
  /\ keyed' = 0 /\ forgets' = forgets + 1
  /\ UNCHANGED <<rowVars, requestVars, window, customers, sessions, late>>

\* The user completes an open session, or it expires.
SessionCloses(i) ==
  /\ i \in DOMAIN sessions /\ sessions[i].state = "open"
  /\ \E s \in {"complete", "expired"} : sessions' = [sessions EXCEPT ![i].state = s]
  /\ UNCHANGED <<rowVars, requestVars, window, customers, keyed, forgets, late>>

\* The webhooks of what was bought (StripeWebhooks) write the row's status; they
\* wait for the row lock.
WebhookWrites ==
  /\ lock = NoRequest
  /\ \E i \in DOMAIN sessions : sessions[i].state = "complete"
  /\ status' \in RowStatus \ {status}
  /\ late' = 0
  /\ UNCHANGED <<customer, lock, requestVars, window, stripeVars>>

CheckoutNext ==
  \/ \E r \in Requests : Handles(r)
  \/ NextWindow
  \/ KeyForgotten
  \/ \E i \in 1 .. Len(sessions) : SessionCloses(i)
  \/ WebhookWrites

CheckoutSpec == CheckoutInit /\ [][CheckoutNext]_vars
-------------------------------------------------------------------------------
(* "A user gets one Stripe customer": requests that overlap, fail or die   *)
(* with the customer created and not saved do not create another, as long  *)
(* as Stripe remembers the key.                                            *)
OneCustomer == customers <= 1 + forgets

(* "A later failure cannot leave a Stripe customer that no local row       *)
(* points at": nothing is ever sold to a customer but the row's own.       *)
SessionsOfTheCustomer ==
  \A i \in DOMAIN sessions : customer # 0 /\ sessions[i].customer = customer

(* Once the row is active only requests that were past its check can still *)
(* create a session, at most one each (SubscriptionAlreadyActiveError).    *)
LateSales == late <= Cardinality(Requests)
===============================================================================
