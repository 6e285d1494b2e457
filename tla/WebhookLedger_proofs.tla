-------------------------- MODULE WebhookLedger_proofs --------------------------
(***************************************************************************)
(* What WebhookLedger guarantees for any events, workers and bounds.       *)
(* The inductive invariant is LedgerIInv: types, HeldIsProcessing (an      *)
(* event somebody runs is PROCESSING) and HandlerExclusive.  Exclusion is  *)
(* not inductive alone: it survives Claim only because an event that       *)
(* somebody holds is not claimable.                                        *)
(***************************************************************************)
EXTENDS WebhookLedger, TLAPS

LedgerIInv ==
  /\ LedgerTypeOK
  /\ HeldIsProcessing
  /\ HandlerExclusive
  /\ AckedWasClaimed

\* Nothing is stored, held or answered at the start.
LEMMA LedgerInitInv == LedgerInit => LedgerIInv
  BY DEF LedgerInit, LedgerIInv, LedgerTypeOK, HeldIsProcessing, HandlerExclusive,
         AckedWasClaimed, Holds, Running, Claimable, Terminal

\* Every statement of every worker preserves the inductive invariant.
LEMMA LedgerStepInv == LedgerIInv /\ [LedgerNext]_ledgerVars => LedgerIInv'
  <1> USE DEF LedgerIInv, LedgerTypeOK, HeldIsProcessing, HandlerExclusive,
              AckedWasClaimed, Holds, Running, Claimable, Terminal,
              UpdateWhere, Answer, Ack
  <1> SUFFICES ASSUME LedgerIInv, [LedgerNext]_ledgerVars PROVE LedgerIInv'
    OBVIOUS
  <1>1. ASSUME NEW w \in Workers, NEW e \in Events, Receive(w, e) PROVE LedgerIInv'
    BY <1>1 DEF Receive
  <1>2. ASSUME NEW w \in Workers, Claim(w) PROVE LedgerIInv'
    <2> job[w] \in Events /\ ledger[job[w]] # "absent"
      BY <1>2 DEF Claim
    <2>1. CASE ledger[job[w]] \in Claimable
      <3>1. /\ ledger' = [ledger EXCEPT ![job[w]] = "processing"]
            /\ at' = [at EXCEPT ![w] = "claimed"]
            /\ UNCHANGED <<job, acked, crashes, raises>>
        BY <1>2, <2>1 DEF Claim
      <3>2. \A v \in Workers : ~ Holds(v, job[w])
        BY <2>1
      <3>3. QED BY <3>1, <3>2
    <2>2. CASE ledger[job[w]] \notin Claimable
      BY <1>2, <2>2 DEF Claim
    <2>3. QED BY <2>1, <2>2
  <1>3. ASSUME NEW w \in Workers, Ignore(w) PROVE LedgerIInv'
    BY <1>3 DEF Ignore
  <1>4. ASSUME NEW w \in Workers, HandlerReturns(w) PROVE LedgerIInv'
    BY <1>4 DEF HandlerReturns
  <1>5. ASSUME NEW w \in Workers, HandlerRaises(w) PROVE LedgerIInv'
    BY <1>5 DEF HandlerRaises
  <1>6. ASSUME NEW w \in Workers, RecordProcessed(w) PROVE LedgerIInv'
    BY <1>6 DEF RecordProcessed
  <1>7. ASSUME NEW w \in Workers, RecordFailed(w) PROVE LedgerIInv'
    BY <1>7 DEF RecordFailed
  <1>8. ASSUME NEW w \in Workers, Crash(w) PROVE LedgerIInv'
    BY <1>8 DEF Crash
  <1>9. CASE UNCHANGED ledgerVars
    BY <1>9 DEF ledgerVars
  <1>10. QED
    BY <1>1, <1>2, <1>3, <1>4, <1>5, <1>6, <1>7, <1>8, <1>9 DEF LedgerNext, WorkerStep

\* The inductive invariant holds of every behaviour.
THEOREM LedgerInvariant == LedgerSpec => []LedgerIInv
  <1>1. QED BY LedgerInitInv, LedgerStepInv, PTL DEF LedgerSpec

(* The types of the ledger's state.                                        *)
THEOREM LedgerTypes == LedgerSpec => []LedgerTypeOK
  <1>1. LedgerIInv => LedgerTypeOK
    BY DEF LedgerIInv
  <1>2. QED BY <1>1, LedgerInvariant, PTL

(* For any number of workers and deliveries: no event is run by two        *)
(* workers at once (the conditional UPDATE of handle_stripe_webhook_event).*)
THEOREM ClaimsAreExclusive == LedgerSpec => []HandlerExclusive
  <1>1. LedgerIInv => HandlerExclusive
    BY DEF LedgerIInv
  <1>2. QED BY <1>1, LedgerInvariant, PTL

(* For any number of workers and deliveries: Stripe hears 200 only about   *)
(* an event that was claimed.                                              *)
THEOREM AcksFollowClaims == LedgerSpec => []AckedWasClaimed
  <1>1. LedgerIInv => AckedWasClaimed
    BY DEF LedgerIInv
  <1>2. QED BY <1>1, LedgerInvariant, PTL
-------------------------------------------------------------------------------
Final == \A e \in Events : ledger[e] \in Terminal => ledger'[e] = ledger[e]

\* No action of a worker takes an event out of a terminal status.
LEMMA StepFinal == LedgerIInv /\ [LedgerNext]_ledgerVars => [Final]_ledgerVars
  <1> USE DEF LedgerIInv, LedgerTypeOK, HeldIsProcessing, Running, Claimable,
              Terminal, UpdateWhere, Answer, Ack, Final
  <1> SUFFICES ASSUME LedgerIInv, [LedgerNext]_ledgerVars PROVE [Final]_ledgerVars
    OBVIOUS
  <1>1. ASSUME NEW w \in Workers, NEW e \in Events, Receive(w, e) PROVE Final
    BY <1>1 DEF Receive
  <1>2. ASSUME NEW w \in Workers, WorkerStep(w) PROVE Final
    <2>1. CASE Claim(w) BY <2>1 DEF Claim
    <2>2. CASE Ignore(w) BY <2>2 DEF Ignore
    <2>3. CASE HandlerReturns(w) \/ HandlerRaises(w)
      BY <2>3 DEF HandlerReturns, HandlerRaises
    <2>4. CASE RecordProcessed(w) BY <2>4 DEF RecordProcessed
    <2>5. CASE RecordFailed(w) BY <2>5 DEF RecordFailed
    <2>6. QED BY <1>2, <2>1, <2>2, <2>3, <2>4, <2>5 DEF WorkerStep
  <1>3. ASSUME NEW w \in Workers, Crash(w) PROVE Final
    BY <1>3 DEF Crash
  <1>4. QED BY <1>1, <1>2, <1>3 DEF LedgerNext

\* Of an event whose deliveries do not overlap: one worker has it, PROCESSING
\* without a worker is the work of a crash, and what is answered nobody runs.
Alone ==
  \A e \in Events \ Overlapping :
    /\ \A v, w \in Workers : job[v] = e /\ job[w] = e => v = w
    /\ ledger[e] = "processing" => crashes > 0 \/ \E w \in Workers : Holds(w, e)
    /\ e \in acked => \A w \in Workers : ~ Holds(w, e)

SettledInv == LedgerIInv /\ Alone /\ AckedIsSettled

\* Every statement of every worker keeps it.
LEMMA SettledStep == SettledInv /\ [LedgerNext]_ledgerVars => SettledInv'
  <1> SUFFICES ASSUME SettledInv, [LedgerNext]_ledgerVars PROVE SettledInv'
    OBVIOUS
  <1>0. LedgerIInv /\ LedgerIInv'
    BY LedgerStepInv DEF SettledInv
  <1> SUFFICES ASSUME NEW e \in Events \ Overlapping
               PROVE  /\ \A v, w \in Workers : job'[v] = e /\ job'[w] = e => v = w
                      /\ ledger'[e] = "processing" => crashes' > 0 \/ \E w \in Workers : Holds(w, e)'
                      /\ e \in acked' => \A w \in Workers : ~ Holds(w, e)'
                      /\ e \in acked' => \/ ledger'[e] \in Terminal
                                         \/ ledger'[e] = "processing" /\ crashes' > 0
    BY <1>0 DEF SettledInv, Alone, AckedIsSettled, LedgerIInv, LedgerTypeOK
  <1> DEFINE Goal == /\ \A v, w \in Workers : job'[v] = e /\ job'[w] = e => v = w
                     /\ ledger'[e] = "processing" => crashes' > 0 \/ \E w \in Workers : Holds(w, e)'
                     /\ e \in acked' => \A w \in Workers : ~ Holds(w, e)'
                     /\ e \in acked' => \/ ledger'[e] \in Terminal
                                        \/ ledger'[e] = "processing" /\ crashes' > 0
  <1>1. /\ LedgerTypeOK
        /\ \A w \in Workers : at[w] # "idle" => ledger[job[w]] # "absent"
        /\ \A w \in Workers : at[w] \in Running => ledger[job[w]] = "processing"
        /\ \A v, w \in Workers : job[v] = e /\ job[w] = e => v = w
        /\ ledger[e] = "processing" => crashes > 0 \/ \E w \in Workers : Holds(w, e)
        /\ e \in acked => \A w \in Workers : ~ Holds(w, e)
        /\ e \in acked => \/ ledger[e] \in Terminal
                          \/ ledger[e] = "processing" /\ crashes > 0
    BY DEF SettledInv, Alone, AckedIsSettled, LedgerIInv, HeldIsProcessing
  <1> USE DEF LedgerTypeOK, Holds, Running, Claimable, Terminal, UpdateWhere, Answer, Ack
  <1>2. ASSUME NEW w \in Workers, NEW f \in Events, Receive(w, f) PROVE Goal
    BY <1>1, <1>2 DEF Receive
  <1>3. ASSUME NEW w \in Workers, at[w] # "idle", job[w] # e,
               \A f \in Events \ {job[w]} : ledger'[f] = ledger[f],
               \A v \in Workers \ {w} : at'[v] = at[v] /\ job'[v] = job[v],
               job'[w] \in {job[w], NoEvent}, acked' \subseteq acked \cup {job[w]},
               crashes' \in Nat, crashes <= crashes'
        PROVE  Goal
    <2>1. ledger'[e] = ledger[e] /\ (e \in acked' => e \in acked)
      BY <1>1, <1>3
    <2>2. \A v \in Workers : Holds(v, e)' <=> Holds(v, e)
      BY <1>1, <1>3, LedgerAssumption DEF LedgerAssumption
    <2>3. \A v \in Workers : job'[v] = e => job[v] = e
      BY <1>3, LedgerAssumption DEF LedgerAssumption
    <2>4. QED BY <1>1, <1>3, <2>1, <2>2, <2>3
  <1>4. ASSUME NEW w \in Workers, WorkerStep(w) \/ Crash(w) PROVE Goal
    <2>1. /\ at[w] # "idle" /\ job[w] \in Events
          /\ \A v \in Workers \ {w} : at'[v] = at[v] /\ job'[v] = job[v]
          /\ crashes' \in Nat /\ crashes <= crashes'
          /\ acked' \subseteq acked \cup {job[w]}
          /\ job'[w] \in {job[w], NoEvent}
          /\ \A f \in Events \ {job[w]} : ledger'[f] = ledger[f]
      <3>1. CASE Claim(w)
        <4>1. CASE ledger[job[w]] \in Claimable
          BY <1>1, <1>4, <3>1, <4>1 DEF Claim
        <4>2. CASE ledger[job[w]] \notin Claimable
          BY <1>1, <1>4, <3>1, <4>2 DEF Claim
        <4>3. QED BY <4>1, <4>2
      <3>2. CASE Ignore(w) \/ RecordProcessed(w) \/ RecordFailed(w)
        BY <1>1, <1>4, <3>2 DEF Ignore, RecordProcessed, RecordFailed
      <3>3. CASE HandlerReturns(w) \/ HandlerRaises(w) \/ Crash(w)
        BY <1>1, <1>4, <3>3 DEF HandlerReturns, HandlerRaises, Crash
      <3>4. QED BY <1>4, <3>1, <3>2, <3>3 DEF WorkerStep
    <2>2. CASE job[w] # e
      BY <1>3, <2>1, <2>2
    <2>3. CASE job[w] = e
      <3>1. /\ \A v \in Workers \ {w} : job[v] # e /\ job'[v] # e
            /\ e \notin acked \/ at[w] = "stored"
        BY <1>1, <2>1, <2>3
      <3>2. CASE Claim(w) /\ ledger[e] \in Claimable
        <4>1. at'[w] = "claimed" /\ job'[w] = e /\ acked' = acked /\ e \notin acked
          BY <1>1, <2>3, <3>2 DEF Claim
        <4>2. QED BY <3>1, <4>1
      <3>3. CASE Claim(w) /\ ledger[e] \notin Claimable
        <4>1. /\ at'[w] = "idle" /\ job'[w] = NoEvent /\ ledger'[e] = ledger[e]
              /\ crashes' = crashes /\ ledger[e] # "absent"
          BY <1>1, <2>3, <3>3 DEF Claim
        <4>2. \A v \in Workers : ~ Holds(v, e)
          BY <2>3, <3>1, <3>3 DEF Claim
        <4>3. ledger[e] \in Terminal \/ (ledger[e] = "processing" /\ crashes > 0)
          BY <1>1, <3>3, <4>1, <4>2
        <4>4. QED BY <1>1, <3>1, <4>1, <4>3, LedgerAssumption DEF LedgerAssumption
      <3>4. CASE Ignore(w) \/ RecordProcessed(w) \/ RecordFailed(w)
        <4>1. /\ at'[w] = "idle" /\ job'[w] = NoEvent /\ e \notin acked
              /\ ledger'[e] \in Terminal \/ (ledger'[e] = "failed" /\ acked' = acked)
          BY <1>1, <2>3, <3>1, <3>4 DEF Ignore, RecordProcessed, RecordFailed
        <4>2. QED BY <3>1, <4>1, LedgerAssumption DEF LedgerAssumption
      <3>5. CASE HandlerReturns(w) \/ HandlerRaises(w)
        <4>1. /\ at'[w] \in Running /\ job'[w] = e /\ acked' = acked /\ e \notin acked
          BY <1>1, <2>3, <3>1, <3>5 DEF HandlerReturns, HandlerRaises
        <4>2. QED BY <3>1, <4>1
      <3>6. CASE Crash(w)
        <4>1. /\ at'[w] = "idle" /\ job'[w] = NoEvent /\ acked' = acked
              /\ crashes' > 0 /\ ledger' = ledger
          BY <1>1, <2>3, <3>6 DEF Crash
        <4>2. QED BY <1>1, <3>1, <4>1, LedgerAssumption DEF LedgerAssumption
      <3>7. QED BY <1>4, <3>2, <3>3, <3>4, <3>5, <3>6 DEF WorkerStep
    <2>4. QED BY <2>2, <2>3
  <1>5. CASE UNCHANGED ledgerVars
    BY <1>1, <1>5 DEF ledgerVars
  <1>6. QED
    BY <1>2, <1>4, <1>5 DEF LedgerNext

(* For any number of workers, exceptions, crashes and retries: a 200 for an  *)
(* event whose deliveries do not overlap means that it is settled, or was    *)
(* in the hands of a worker that died.                                       *)
THEOREM AckedAreSettled == LedgerSpec => []AckedIsSettled
  <1>1. LedgerInit => SettledInv
    BY LedgerInitInv, LedgerAssumption
    DEF LedgerAssumption, SettledInv, Alone, AckedIsSettled, LedgerInit, Holds, Running
  <1>2. SettledInv => AckedIsSettled
    BY DEF SettledInv
  <1>3. QED BY <1>1, <1>2, SettledStep, PTL DEF LedgerSpec

(* For any number of workers and deliveries: a PROCESSED or IGNORED event  *)
(* never runs again.                                                       *)
THEOREM TerminalForGood == LedgerSpec => TerminalIsFinal
  <1>1. LedgerIInv /\ [LedgerNext]_ledgerVars => [Final]_ledgerVars
    BY StepFinal
  <1>2. QED BY <1>1, LedgerInvariant, PTL DEF LedgerSpec, TerminalIsFinal, Final
-------------------------------------------------------------------------------
\* What holderOf is in each case; with exclusion the CHOOSE has one candidate.
HolderCases ==
  /\ holderOf = [e \in Events |-> holderOf[e]]
  /\ \A e \in Events :
       /\ ledger[e] \in Terminal => holderOf[e] = "closed"
       /\ ledger[e] \notin Terminal \cup {"processing"} => holderOf[e] = "free"
       /\ \A w \in Workers : Holds(w, e) => holderOf[e] = w
       /\ ledger[e] = "processing" /\ (\A w \in Workers : ~ Holds(w, e))
            => holderOf[e] = "lost"

\* The cases are right wherever the inductive invariant holds.
LEMMA HolderByCases == LedgerIInv => HolderCases
  <1> SUFFICES ASSUME LedgerIInv PROVE HolderCases
    OBVIOUS
  <1>1. ASSUME NEW e \in Events, NEW w \in Workers, Holds(w, e)
        PROVE  holderOf[e] = w
    <2>1. ledger[e] = "processing"
      BY <1>1 DEF LedgerIInv, HeldIsProcessing, Holds
    <2>2. (CHOOSE v \in Workers : Holds(v, e)) = w
      BY <1>1 DEF LedgerIInv, HandlerExclusive
    <2>3. holderOf[e] = CHOOSE v \in Workers : Holds(v, e)
      BY <1>1, <2>1 DEF holderOf, Terminal
    <2>4. QED BY <2>2, <2>3
  <1>2. holderOf = [e \in Events |-> holderOf[e]]
    BY DEF holderOf
  <1>3. ASSUME NEW e \in Events
        PROVE  /\ ledger[e] \in Terminal => holderOf[e] = "closed"
               /\ ledger[e] \notin Terminal \cup {"processing"} => holderOf[e] = "free"
               /\ ledger[e] = "processing" /\ (\A w \in Workers : ~ Holds(w, e))
                    => holderOf[e] = "lost"
    BY DEF holderOf, Terminal
  <1>4. QED BY <1>1, <1>2, <1>3 DEF HolderCases

\* Every step of the ledger is one move of one event, or none.
LEMMA LedgerRefines ==
  LedgerIInv /\ LedgerIInv' /\ [LedgerNext]_ledgerVars => [Abstract!ClaimNext]_holderOf
  <1> SUFFICES ASSUME LedgerIInv, LedgerIInv', [LedgerNext]_ledgerVars
               PROVE  [Abstract!ClaimNext]_holderOf
    OBVIOUS
  <1>a. HolderCases /\ HolderCases'
    BY HolderByCases, PTL
  <1> DEFINE Same(e) == /\ ledger'[e] = ledger[e]
                        /\ \A w \in Workers : Holds(w, e)' <=> Holds(w, e)
  <1>b. ASSUME NEW e \in Events, Same(e) PROVE holderOf'[e] = holderOf[e]
    <2>1. CASE \E w \in Workers : Holds(w, e)
      BY <1>a, <1>b, <2>1 DEF HolderCases
    <2>2. CASE \A w \in Workers : ~ Holds(w, e)
      BY <1>a, <1>b, <2>2 DEF HolderCases
    <2>3. QED BY <2>1, <2>2
  <1>c. ASSUME NEW e \in Events, \A f \in Events \ {e} : Same(f)
        PROVE  holderOf' = [holderOf EXCEPT ![e] = holderOf'[e]]
    <2>1. \A f \in Events \ {e} : holderOf'[f] = holderOf[f]
      BY <1>b, <1>c
    <2>2. QED BY <1>a, <2>1 DEF HolderCases
  <1>d. ASSUME NEW e \in Events, NEW w \in Workers,
               \A f \in Events \ {e} : Same(f),
               \/ holderOf[e] = "free" /\ holderOf'[e] = w
               \/ holderOf[e] = w /\ holderOf'[e] \in {"free", "closed", "lost"}
        PROVE  Abstract!ClaimNext
    <2>1. holderOf' = [holderOf EXCEPT ![e] = holderOf'[e]]
      BY <1>c, <1>d
    <2>2. QED BY <1>d, <2>1 DEF Abstract!ClaimNext, Abstract!Moves
  <1>e. ASSUME \A e \in Events : Same(e) PROVE UNCHANGED holderOf
    <2>1. \A e \in Events : holderOf'[e] = holderOf[e]
      BY <1>b, <1>e
    <2>2. QED BY <1>a, <2>1 DEF HolderCases
  <1> USE DEF LedgerIInv, LedgerTypeOK, HeldIsProcessing, Running, Claimable, Terminal,
              UpdateWhere, Answer, Ack, Holds
  <1>1. ASSUME NEW w \in Workers, NEW e \in Events, Receive(w, e)
        PROVE  UNCHANGED holderOf
    <2>1. \A f \in Events \ {e} : Same(f)
      BY <1>1 DEF Receive
    <2>2. CASE ledger[e] = "absent"
      <3>1. holderOf[e] = "free" /\ holderOf'[e] = "free"
        BY <1>1, <1>a, <2>2 DEF Receive, HolderCases
      <3>2. QED BY <1>a, <1>c, <2>1, <3>1 DEF HolderCases
    <2>3. CASE ledger[e] # "absent"
      <3>1. Same(e)
        BY <1>1, <2>3 DEF Receive
      <3>2. QED BY <1>e, <2>1, <3>1
    <2>4. QED BY <2>2, <2>3
  <1>2. ASSUME NEW w \in Workers, Claim(w)
        PROVE  Abstract!ClaimNext \/ UNCHANGED holderOf
    <2>0. job[w] \in Events
      BY <1>2 DEF Claim
    <2>1. CASE ledger[job[w]] \in Claimable
      <3>1. \A f \in Events \ {job[w]} : Same(f)
        BY <1>2, <2>1 DEF Claim
      <3>2. holderOf[job[w]] = "free" /\ holderOf'[job[w]] = w
        BY <1>2, <1>a, <2>0, <2>1 DEF Claim, HolderCases
      <3>3. QED BY <1>d, <2>0, <3>1, <3>2
    <2>2. CASE ledger[job[w]] \notin Claimable
      <3>1. \A f \in Events : Same(f)
        BY <1>2, <2>2 DEF Claim
      <3>2. QED BY <1>e, <3>1
    <2>3. QED BY <2>1, <2>2
  <1>3. ASSUME NEW w \in Workers, Ignore(w) \/ RecordProcessed(w) \/ RecordFailed(w)
        PROVE  Abstract!ClaimNext
    <2>0. job[w] \in Events /\ Holds(w, job[w])
      BY <1>3 DEF Ignore, RecordProcessed, RecordFailed
    <2>1. \A f \in Events \ {job[w]} : Same(f)
      BY <1>3, <2>0 DEF Ignore, RecordProcessed, RecordFailed
    <2>2. holderOf[job[w]] = w
      BY <1>a, <2>0 DEF HolderCases
    <2>3. ledger'[job[w]] \in Terminal \cup {"failed"}
      BY <1>3, <2>0 DEF Ignore, RecordProcessed, RecordFailed
    <2>4. holderOf'[job[w]] \in {"free", "closed"}
      BY <1>a, <2>0, <2>3 DEF HolderCases
    <2>5. QED BY <1>d, <2>0, <2>1, <2>2, <2>4
  <1>4. ASSUME NEW w \in Workers, HandlerReturns(w) \/ HandlerRaises(w)
        PROVE  UNCHANGED holderOf
    <2>1. \A f \in Events : Same(f)
      BY <1>4 DEF HandlerReturns, HandlerRaises
    <2>2. QED BY <1>e, <2>1
  <1>5. ASSUME NEW w \in Workers, Crash(w)
        PROVE  Abstract!ClaimNext \/ UNCHANGED holderOf
    <2>1. CASE at[w] \in Running
      <3>0. job[w] \in Events /\ Holds(w, job[w])
        BY <2>1
      <3>1. \A f \in Events \ {job[w]} : Same(f)
        BY <1>5, <2>1 DEF Crash
      <3>2. holderOf[job[w]] = w
        BY <1>a, <3>0 DEF HolderCases
      <3>3. ledger'[job[w]] = "processing"
        BY <1>5, <2>1, <3>0 DEF Crash
      <3>4. ASSUME NEW v \in Workers PROVE ~ (at'[v] \in Running /\ job'[v] = job[w])
        <4>1. CASE v = w
          BY <1>5, <4>1 DEF Crash
        <4>2. CASE v # w
          <5>1. at'[v] = at[v] /\ job'[v] = job[v]
            BY <1>5, <4>2 DEF Crash
          <5>2. QED BY <3>0, <4>2, <5>1 DEF HandlerExclusive
        <4>3. QED BY <4>1, <4>2
      <3>5. holderOf'[job[w]] = "lost"
        <4> HIDE DEF LedgerIInv
        <4>1. QED BY <1>a, <3>0, <3>3, <3>4 DEF HolderCases
      <3>6. QED BY <1>d, <3>0, <3>1, <3>2, <3>5
    <2>2. CASE at[w] \notin Running
      <3>1. \A f \in Events : Same(f)
        BY <1>5, <2>2 DEF Crash
      <3>2. QED BY <1>e, <3>1
    <2>3. QED BY <2>1, <2>2
  <1>6. CASE UNCHANGED ledgerVars
    <2>1. \A f \in Events : Same(f)
      BY <1>6 DEF ledgerVars
    <2>2. QED BY <1>e, <2>1
  <1>7. QED
    BY <1>1, <1>2, <1>3, <1>4, <1>5, <1>6 DEF LedgerNext, WorkerStep

(* The ledger implements EventClaim for any events and workers: one holder *)
(* at a time, closed for good, lost with the worker that died.             *)
THEOREM LedgerImplementsClaim == LedgerSpec => ClaimedOnceAtATime
  <1>1. LedgerInit => Abstract!ClaimInit
    BY DEF LedgerInit, Abstract!ClaimInit, holderOf, Terminal
  <1>2. QED
    BY <1>1, LedgerRefines, LedgerInvariant, PTL
       DEF LedgerSpec, ClaimedOnceAtATime, Abstract!ClaimSpec
===============================================================================
