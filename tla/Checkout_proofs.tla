----------------------------- MODULE Checkout_proofs -----------------------------
(***************************************************************************)
(* What Checkout guarantees for any number of overlapping requests, of     *)
(* windows and of forgotten keys.  The row lock does the work: while it is *)
(* held the row has no customer yet, so nobody is past the transaction     *)
(* (Locked), and whoever is past it knows the row's own customer (Known).  *)
(***************************************************************************)
EXTENDS Checkout, FiniteSetTheorems, TLAPS

\* The keys Stripe forgot account for every customer but the one it remembers.
Accounted == customers <= forgets + (IF keyed = 0 THEN 0 ELSE 1)

Locked == lock # NoRequest => customer = 0

Known ==
  \A r \in Requests :
    /\ at[r] \in {"session", "asking"} => got[r] = customer /\ customer # 0
    /\ at[r] = "save" => got[r] # 0

\* The requests that have passed the check of the row.
Past == {r \in Requests : at[r] # "idle"}

Room ==
  /\ status # "active" => late = 0
  /\ late + Cardinality(Past) <= Cardinality(Requests)

CustomerInv == CheckoutTypeOK /\ Accounted /\ Locked /\ Known /\ SessionsOfTheCustomer
-------------------------------------------------------------------------------
\* Before the first request.
LEMMA CheckoutTypesInit == CheckoutInit => CheckoutTypeOK
  BY CheckoutAssumption DEF CheckoutAssumption, CheckoutTypeOK, InTransaction, RowStatus, CheckoutInit, Session

\* Every step keeps the types.
LEMMA CheckoutTypesStep == CheckoutTypeOK /\ [CheckoutNext]_vars => CheckoutTypeOK'
<1> USE CheckoutAssumption DEF CheckoutAssumption, CheckoutTypeOK, InTransaction, RowStatus
<1> SUFFICES ASSUME CheckoutTypeOK, [CheckoutNext]_vars PROVE CheckoutTypeOK'
  OBVIOUS
<1> USE DEF rowVars, requestVars, stripeVars
<1>1. ASSUME NEW r \in Requests, Locks(r) PROVE CheckoutTypeOK'
  <2>1. CASE customer = 0
    BY <1>1, <2>1 DEF Locks, Goes
  <2>2. CASE customer # 0
    BY <1>1, <2>2 DEF Locks, Goes
  <2> QED BY <2>1, <2>2
<1>2. ASSUME NEW r \in Requests, CreatesCustomer(r) PROVE CheckoutTypeOK'
  BY <1>2 DEF CreatesCustomer, Goes
<1>3. ASSUME NEW r \in Requests, SavesCustomer(r) PROVE CheckoutTypeOK'
  BY <1>3 DEF SavesCustomer, Goes
<1>4. ASSUME NEW r \in Requests, RollsBack(r) PROVE CheckoutTypeOK'
  BY <1>4 DEF RollsBack, Ends, Goes
<1>5. ASSUME NEW r \in Requests, Asks(r) PROVE CheckoutTypeOK'
  BY <1>5 DEF Asks, Goes
<1>6. ASSUME NEW r \in Requests, GetsSession(r) PROVE CheckoutTypeOK'
  <2>1. sessions' \in Seq(Session) /\ late' \in Nat
    <3>1. [window |-> asked[r], customer |-> got[r], state |-> "open"] \in Session
      BY DEF Session
    <3>2. CASE \E i \in DOMAIN sessions : sessions[i].window = asked[r]
      BY <1>6, <3>2 DEF GetsSession, StripeSession
    <3>3. CASE ~ \E i \in DOMAIN sessions : sessions[i].window = asked[r]
      <4>1. sessions' = Append(sessions, [window |-> asked[r], customer |-> got[r], state |-> "open"])
        BY <1>6, <3>3 DEF GetsSession, StripeSession
      <4>2. late' = late + (IF status = "active" THEN 1 ELSE 0)
        BY <1>6, <3>3 DEF GetsSession, StripeSession
      <4> QED BY <3>1, <4>1, <4>2
    <3> QED BY <3>2, <3>3
  <2>2. got' \in [Requests -> Nat] /\ asked' \in [Requests -> Nat]
    BY <1>6 DEF GetsSession, Ends
  <2>3. at' \in [Requests -> {"idle", "session", "asking"} \cup InTransaction]
        /\ \A q \in Requests : at'[q] \in InTransaction <=> lock' = q
    BY <1>6 DEF GetsSession, Ends, Goes
  <2> QED BY <1>6, <2>1, <2>2, <2>3 DEF GetsSession
<1>7. ASSUME NEW r \in Requests, Fails(r) PROVE CheckoutTypeOK'
  BY <1>7 DEF Fails, Ends, Goes
<1>8. CASE NextWindow
  BY <1>8 DEF NextWindow
<1>9. CASE KeyForgotten
  BY <1>9 DEF KeyForgotten
<1>10. ASSUME NEW i \in 1 .. Len(sessions), SessionCloses(i) PROVE CheckoutTypeOK'
  <2>1. \A s \in {"complete", "expired"} : [sessions EXCEPT ![i].state = s] \in Seq(Session)
    <3> TAKE s \in {"complete", "expired"}
    <3>1. sessions[i] \in Session /\ i \in DOMAIN sessions
      BY <1>10 DEF SessionCloses
    <3>2. [sessions[i] EXCEPT !.state = s] \in Session
      BY <3>1 DEF Session
    <3> QED BY <3>1, <3>2
  <2>2. sessions' \in Seq(Session)
    BY <1>10, <2>1 DEF SessionCloses
  <2> QED BY <1>10, <2>2 DEF SessionCloses
<1>11. CASE WebhookWrites
  BY <1>11 DEF WebhookWrites
<1>12. CASE UNCHANGED vars
  BY <1>12 DEF vars
<1> QED
  BY <1>1, <1>2, <1>3, <1>4, <1>5, <1>6, <1>7, <1>8, <1>9, <1>10, <1>11, <1>12 DEF CheckoutNext, Handles

(* CheckoutTypeOK: the row lock is held exactly by the request that is     *)
(* inside its transaction.                                                 *)
THEOREM CheckoutTyping == CheckoutSpec => []CheckoutTypeOK
  BY CheckoutTypesInit, CheckoutTypesStep, PTL DEF CheckoutSpec
-------------------------------------------------------------------------------
\* Nothing is known, sold or forgotten yet.
LEMMA CustomerInitInv == CheckoutInit => CustomerInv
<1> SUFFICES ASSUME CheckoutInit PROVE CustomerInv
  OBVIOUS
<1>1. CheckoutTypeOK
  BY CheckoutTypesInit
<1> QED
  BY <1>1, CheckoutAssumption
  DEF CheckoutAssumption, CheckoutInit, CustomerInv, Accounted, Locked, Known, SessionsOfTheCustomer

\* Every step keeps the customers accounted for, the lock and what requests know.
LEMMA CustomerStepInv == CustomerInv /\ [CheckoutNext]_vars => CustomerInv'
<1> USE CheckoutAssumption DEF CheckoutAssumption, rowVars, requestVars, stripeVars
<1> SUFFICES ASSUME CustomerInv, [CheckoutNext]_vars PROVE CustomerInv'
  OBVIOUS
<1>t. CheckoutTypeOK /\ CheckoutTypeOK'
  BY CheckoutTypesStep DEF CustomerInv
<1> DEFINE Facts == Accounted /\ Locked /\ Known /\ SessionsOfTheCustomer
<1> SUFFICES Facts'
  BY <1>t DEF CustomerInv
<1>f. Facts
  BY DEF CustomerInv
<1> USE <1>t, <1>f DEF CheckoutTypeOK, InTransaction, Accounted, Locked, Known, SessionsOfTheCustomer
<1>1. ASSUME NEW r \in Requests, Locks(r) PROVE Facts'
  <2>1. CASE customer = 0
    BY <1>1, <2>1 DEF Locks, Goes
  <2>2. CASE customer # 0
    BY <1>1, <2>2 DEF Locks, Goes
  <2> QED BY <2>1, <2>2
<1>2. ASSUME NEW r \in Requests, CreatesCustomer(r) PROVE Facts'
  <2>1. CASE keyed = 0
    BY <1>2, <2>1 DEF CreatesCustomer, Goes
  <2>2. CASE keyed # 0
    BY <1>2, <2>2 DEF CreatesCustomer, Goes
  <2> QED BY <2>1, <2>2
<1>3. ASSUME NEW r \in Requests, SavesCustomer(r) PROVE Facts'
  BY <1>3 DEF SavesCustomer, Goes
<1>4. ASSUME NEW r \in Requests, RollsBack(r) PROVE Facts'
  BY <1>4 DEF RollsBack, Ends, Goes
<1>5. ASSUME NEW r \in Requests, Asks(r) PROVE Facts'
  BY <1>5 DEF Asks, Goes
<1>6. ASSUME NEW r \in Requests, GetsSession(r) PROVE Facts'
  <2>1. (Accounted /\ Locked /\ Known)'
    BY <1>6 DEF GetsSession, Ends, Goes
  <2>2. CASE sessions' = sessions
    BY <1>6, <2>1, <2>2 DEF GetsSession
  <2>3. CASE sessions' # sessions
    <3>1. sessions' = Append(sessions, [window |-> asked[r], customer |-> got[r], state |-> "open"])
      BY <1>6, <2>3 DEF GetsSession, StripeSession
    <3>2. got[r] = customer /\ customer # 0
      BY <1>6 DEF GetsSession
    <3>3. customer' = customer
      BY <1>6 DEF GetsSession
    <3> QED BY <2>1, <3>1, <3>2, <3>3
  <2> QED BY <2>2, <2>3
<1>7. ASSUME NEW r \in Requests, Fails(r) PROVE Facts'
  BY <1>7 DEF Fails, Ends, Goes
<1>8. CASE NextWindow
  BY <1>8 DEF NextWindow
<1>9. CASE KeyForgotten
  BY <1>9 DEF KeyForgotten
<1>10. ASSUME NEW i \in 1 .. Len(sessions), SessionCloses(i) PROVE Facts'
  <2>1. DOMAIN sessions' = DOMAIN sessions /\ \A j \in DOMAIN sessions : sessions'[j].customer = sessions[j].customer
    BY <1>10 DEF SessionCloses, Session
  <2> QED BY <1>10, <2>1 DEF SessionCloses
<1>11. CASE WebhookWrites
  BY <1>11 DEF WebhookWrites
<1>12. CASE UNCHANGED vars
  BY <1>12 DEF vars
<1> QED
  BY <1>1, <1>2, <1>3, <1>4, <1>5, <1>6, <1>7, <1>8, <1>9, <1>10, <1>11, <1>12 DEF CheckoutNext, Handles

(* OneCustomer: overlapping, failed and dead requests never make Stripe    *)
(* create a second customer while it remembers the key of the first.       *)
THEOREM CustomerIsOne == CheckoutSpec => []OneCustomer
<1>1. CustomerInv => OneCustomer
  BY DEF CustomerInv, CheckoutTypeOK, Accounted, OneCustomer
<1> QED
  BY <1>1, CustomerInitInv, CustomerStepInv, PTL DEF CheckoutSpec

(* SessionsOfTheCustomer: no session is sold to a customer the row does    *)
(* not name.                                                               *)
THEOREM SoldToTheCustomer == CheckoutSpec => []SessionsOfTheCustomer
<1>1. CustomerInv => SessionsOfTheCustomer
  BY DEF CustomerInv
<1> QED
  BY <1>1, CustomerInitInv, CustomerStepInv, PTL DEF CheckoutSpec
-------------------------------------------------------------------------------
\* A request past the check of an active row can sell once, and leaves.
LEMMA RoomInit == CheckoutInit => Room
<1> SUFFICES ASSUME CheckoutInit PROVE Room
  OBVIOUS
<1>1. Past = {} /\ late = 0
  BY DEF CheckoutInit, Past
<1>2. Cardinality(Past) = 0 /\ Cardinality(Requests) \in Nat
  BY <1>1, FS_EmptySet, FS_CardinalityType, CheckoutAssumption DEF CheckoutAssumption
<1> QED BY <1>1, <1>2 DEF Room

\* While the row is not active nothing counts, and all requests have room.
LEMMA RoomStep == CheckoutTypeOK /\ Room /\ [CheckoutNext]_vars => Room'
<1> SUFFICES ASSUME CheckoutTypeOK, Room, [CheckoutNext]_vars PROVE Room'
  OBVIOUS
<1> DEFINE n == Cardinality(Requests)
<1>1. /\ Cardinality(Past) \in Nat /\ Cardinality(Past') \in Nat /\ n \in Nat
      /\ Cardinality(Past') <= n
      /\ IsFiniteSet(Past) /\ IsFiniteSet(Past')
  <2>1. IsFiniteSet(Requests) /\ Past \subseteq Requests /\ Past' \subseteq Requests
    BY CheckoutAssumption DEF CheckoutAssumption, Past
  <2> QED BY <2>1, FS_Subset, FS_CardinalityType
<1>2. late \in Nat
  BY DEF CheckoutTypeOK
<1>3. ASSUME late' = 0 PROVE Room'
  BY <1>1, <1>3 DEF Room
<1>4. ASSUME status # "active", UNCHANGED <<status, late>> PROVE Room'
  BY <1>3, <1>4 DEF Room
<1>5. ASSUME Past' \subseteq Past, UNCHANGED <<status, late>> PROVE Room'
  <2>1. Cardinality(Past') <= Cardinality(Past)
    BY <1>1, <1>5, FS_Subset
  <2> QED BY <1>1, <1>2, <1>5, <2>1 DEF Room
<1>6. ASSUME NEW r \in Requests, GetsSession(r) PROVE Room'
  <2>1. /\ r \in Past /\ Past' = Past \ {r} /\ status' = status
        /\ \/ late' = late
           \/ status = "active" /\ late' = late + 1
    <3>1. at[r] = "asking" /\ at' = [at EXCEPT ![r] = "idle"] /\ status' = status
      BY <1>6 DEF GetsSession, Ends, Goes, rowVars
    <3>2. late' = late \/ (status = "active" /\ late' = late + 1)
      BY <1>2, <1>6 DEF GetsSession, StripeSession
    <3> QED BY <3>1, <3>2 DEF Past, CheckoutTypeOK
  <2>2. Cardinality(Past') = Cardinality(Past) - 1
    BY <1>1, <2>1, FS_RemoveElement
  <2> QED BY <1>1, <1>2, <2>1, <2>2 DEF Room
<1>7. [CheckoutNext]_vars =>
        \/ late' = 0
        \/ status # "active" /\ UNCHANGED <<status, late>>
        \/ Past' \subseteq Past /\ UNCHANGED <<status, late>>
        \/ \E r \in Requests : GetsSession(r)
  <2> USE DEF CheckoutTypeOK, Past, Goes, Ends, rowVars, requestVars
  <2>1. ASSUME NEW r \in Requests, Locks(r) PROVE status # "active" /\ UNCHANGED <<status, late>>
    BY <2>1 DEF Locks
  <2>2. ASSUME NEW r \in Requests, CreatesCustomer(r) \/ SavesCustomer(r) \/ RollsBack(r) \/ Asks(r) \/ Fails(r)
        PROVE Past' \subseteq Past /\ UNCHANGED <<status, late>>
    BY <2>2 DEF CreatesCustomer, SavesCustomer, RollsBack, Asks, Fails, InTransaction
  <2>3. CASE NextWindow \/ KeyForgotten \/ (\E i \in 1 .. Len(sessions) : SessionCloses(i)) \/ UNCHANGED vars
    BY <2>3 DEF NextWindow, KeyForgotten, SessionCloses, vars
  <2>4. CASE WebhookWrites
    BY <2>4 DEF WebhookWrites
  <2> QED BY <2>1, <2>2, <2>3, <2>4 DEF CheckoutNext, Handles
<1> QED BY <1>3, <1>4, <1>5, <1>6, <1>7

(* LateSales: however many requests overlap, what is sold after the row    *)
(* became active is at most one session for each of them.                  *)
THEOREM SalesEnd == CheckoutSpec => []LateSales
<1>1. CheckoutInit => CheckoutTypeOK /\ Room
  BY CheckoutTypesInit, RoomInit
<1>2. CheckoutTypeOK /\ Room /\ [CheckoutNext]_vars => (CheckoutTypeOK /\ Room)'
  BY CheckoutTypesStep, RoomStep
<1>3. CheckoutTypeOK /\ Room => LateSales
  <2> SUFFICES ASSUME CheckoutTypeOK, Room PROVE LateSales
    OBVIOUS
  <2>1. IsFiniteSet(Requests) /\ Past \subseteq Requests
    BY CheckoutAssumption DEF CheckoutAssumption, Past
  <2>2. Cardinality(Past) \in Nat /\ Cardinality(Requests) \in Nat
    BY <2>1, FS_Subset, FS_CardinalityType
  <2> QED BY <2>2 DEF CheckoutTypeOK, Room, LateSales
<1> QED
  BY <1>1, <1>2, <1>3, PTL DEF CheckoutSpec
===============================================================================
