------------------------------ MODULE EventClaim ------------------------------
(***************************************************************************)
(* What the webhook ledger promises, without saying how it keeps it: each  *)
(* Stripe event is held by at most one worker at a time, an event whose    *)
(* handler finished is closed for good, a handler that failed gives the    *)
(* event back, and an event whose worker died is lost with it (there is no *)
(* lease and no reaper in the code).                                       *)
(***************************************************************************)
CONSTANTS Events,    \* Stripe event ids
          Workers    \* web workers that answer the webhook endpoint

VARIABLE holder      \* holder[e]: the worker that holds e, or its fate

ClaimInit == holder = [e \in Events |-> "free"]

Moves(e, from, to) ==
  /\ holder[e] = from
  /\ holder' = [holder EXCEPT ![e] = to]

ClaimNext ==
  \E e \in Events, w \in Workers :
    \/ Moves(e, "free", w)        \* claimed
    \/ Moves(e, w, "free")        \* the handler raised
    \/ Moves(e, w, "closed")      \* the handler returned, or there is none
    \/ Moves(e, w, "lost")        \* the worker died

ClaimSpec == ClaimInit /\ [][ClaimNext]_holder
===============================================================================
