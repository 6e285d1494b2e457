--------------------------- MODULE MessageRate_proofs ---------------------------
(***************************************************************************)
(* For any set of sockets and any limit: the state keeps its type, no      *)
(* counter, stored or about to be written, exceeds the messages counted,   *)
(* and no more messages pass than the sockets can lose increments for.     *)
(*                                                                         *)
(* The last is counted.  For each v below the limit, the sockets that may  *)
(* still leave a counter of v + 1 or less are those that stand behind v;   *)
(* how many they are, for every v, is a ladder, and a message that passes  *)
(* moves the ladder on in the lexicographic order.  The library's          *)
(* induction theorems take a predicate and cannot be cited; SetInduction   *)
(* says the same of a set, from the order of the finite subsets of Nat.    *)
(***************************************************************************)
EXTENDS MessageRate, Integers, TLAPS, FiniteSetTheorems, FunctionTheorems,
        WellFoundedInduction

(* RateTypeOK: a consumer holds a value exactly between the get and the    *)
(* set, and a counter that is gone took its timeout and its messages along.*)
THEOREM RateTyping == RateSafety => []RateTypeOK
<1> USE RateAssumption DEF RateAssumption, RateTypeOK, Absent
<1>1. RateInit => RateTypeOK
  <2> SUFFICES ASSUME RateInit PROVE RateTypeOK
    OBVIOUS
  <2>1. at \in [Sockets -> {"off", "idle", "get", "set", "leaving"}]
    BY DEF RateInit
  <2>2. got \in [Sockets -> Nat] /\ \A s \in Sockets : at[s] = "set" <=> got[s] # Absent
    BY DEF RateInit
  <2>3. marked \in BOOLEAN
    BY Zenon DEF RateInit
  <2> QED BY <2>1, <2>2, <2>3 DEF RateInit
<1>2. RateTypeOK /\ [RateNext]_vars => RateTypeOK'
  <2> SUFFICES ASSUME RateTypeOK, [RateNext]_vars PROVE RateTypeOK'
    OBVIOUS
  <2>1. ASSUME NEW s \in Sockets, Opens(s) PROVE RateTypeOK'
    BY <2>1 DEF Opens
  <2>2. ASSUME NEW s \in Sockets, Heartbeat(s) PROVE RateTypeOK'
    BY <2>2 DEF Heartbeat
  <2>3. ASSUME NEW s \in Sockets, SendsNowhere(s) PROVE RateTypeOK'
    BY <2>3 DEF SendsNowhere
  <2>4. ASSUME NEW s \in Sockets, Sends(s) PROVE RateTypeOK'
    <3>1. CASE rate = Absent
      BY <2>4, <3>1 DEF Sends, Judged, Written, Over
    <3>2. CASE rate # Absent
      BY <2>4, <3>2 DEF Sends, Moves
    <3> QED BY <3>1, <3>2
  <2>5. ASSUME NEW s \in Sockets, Gets(s) PROVE RateTypeOK'
    <3>1. CASE rate = Absent
      BY <2>5, <3>1 DEF Gets, Moves, Judged, Over
    <3>2. CASE rate # Absent
      BY <2>5, <3>2 DEF Gets, Moves
    <3> QED BY <3>1, <3>2
  <2>6. ASSUME NEW s \in Sockets, Sets(s) PROVE RateTypeOK'
    BY <2>6 DEF Sets, Moves, Judged, Written, Over
  <2>7. ASSUME NEW s \in Sockets, Leaves(s) PROVE RateTypeOK'
    BY <2>7 DEF Leaves
  <2>8. ASSUME NEW s \in Sockets, Gone(s) PROVE RateTypeOK'
    BY <2>8 DEF Gone
  <2>9. ASSUME NEW s \in Sockets, Dies(s) PROVE RateTypeOK'
    BY <2>9 DEF Dies, Moves, Forgotten
  <2>10. CASE RateExpires
    BY <2>10 DEF RateExpires, Forgotten
  <2>11. CASE MarkerExpires
    BY <2>11 DEF MarkerExpires
  <2>12. CASE UNCHANGED vars
    BY <2>12 DEF vars
  <2> QED
    BY <2>1, <2>2, <2>3, <2>4, <2>5, <2>6, <2>7, <2>8, <2>9, <2>10, <2>11, <2>12 DEF RateNext
<1> QED
  BY <1>1, <1>2, PTL DEF RateSafety

(* A consumer that holds no value is not between the get and the set, so   *)
(* forgetting what was counted when nobody is leaves nothing above zero.   *)
LEMMA NobodyHolds ==
  ASSUME RateTypeOK, NEW S \in SUBSET Sockets, {s \in S : at[s] = "set"} = {}
  PROVE \A s \in S : got[s] = 0
BY DEF RateTypeOK, Absent

(* CountedWereSent, for any sockets and any limit: a stale value that is   *)
(* written, also over a key that expired, was counted before.              *)
THEOREM CountsAreReal == RateSafety => []CountedWereSent
<1> USE DEF CountedWereSent, Absent
<1>1. RateInit => CountedWereSent
  BY DEF RateInit
<1>2. RateTypeOK /\ CountedWereSent /\ [RateNext]_vars => CountedWereSent'
  <2> SUFFICES ASSUME RateTypeOK, CountedWereSent, [RateNext]_vars
               PROVE CountedWereSent'
    OBVIOUS
  <2>0. /\ rate \in Nat /\ since \in Nat /\ got \in [Sockets -> Nat]
        /\ at \in [Sockets -> {"off", "idle", "get", "set", "leaving"}]
    BY DEF RateTypeOK
  <2>1. ASSUME UNCHANGED <<rate, got, since>> PROVE CountedWereSent'
    BY <2>1
  <2>2. ASSUME NEW s \in Sockets, Sends(s) PROVE CountedWereSent'
    <3>1. CASE rate = Absent
      BY <2>0, <2>2, <3>1 DEF Sends, Written
    <3>2. CASE rate # Absent
      BY <2>0, <2>2, <3>2 DEF Sends, Moves
    <3> QED BY <3>1, <3>2
  <2>3. ASSUME NEW s \in Sockets, Gets(s) PROVE CountedWereSent'
    BY <2>0, <2>3 DEF Gets, Moves
  <2>4. ASSUME NEW s \in Sockets, Sets(s) PROVE CountedWereSent'
    BY <2>0, <2>4 DEF Sets, Moves, Written
  <2>5. ASSUME NEW s \in Sockets, Dies(s) PROVE CountedWereSent'
    <3>1. got' = [got EXCEPT ![s] = 0] /\ rate' = rate
      BY <2>5 DEF Dies, Moves
    <3>2. CASE since' = since
      BY <2>0, <3>1, <3>2
    <3>3. CASE since' # since
      <4>1. rate = 0 /\ since' = 0 /\ {r \in Sockets \ {s} : at[r] = "set"} = {}
        BY <2>5, <3>3 DEF Dies, Forgotten
      <4>2. \A r \in Sockets \ {s} : got[r] = 0
        BY <4>1, NobodyHolds
      <4> QED BY <2>0, <3>1, <4>1, <4>2
    <3> QED BY <3>2, <3>3
  <2>6. ASSUME RateExpires PROVE CountedWereSent'
    <3>1. rate' = 0 /\ got' = got
      BY <2>6 DEF RateExpires
    <3>2. CASE since' = since
      BY <2>0, <3>1, <3>2
    <3>3. CASE since' # since
      <4>1. since' = 0 /\ {s \in Sockets : at[s] = "set"} = {}
        BY <2>6, <3>3 DEF RateExpires, Forgotten
      <4>2. \A s \in Sockets : got[s] = 0
        BY <4>1, NobodyHolds
      <4> QED BY <3>1, <4>1, <4>2
    <3> QED BY <3>2, <3>3
  <2> QED
    BY <2>1, <2>2, <2>3, <2>4, <2>5, <2>6
    DEF RateNext, vars, Opens, Heartbeat, SendsNowhere, Leaves, Gone, MarkerExpires
<1> QED
  BY <1>1, <1>2, RateTyping, PTL DEF RateSafety

(* What the sockets of a user can lose, stated for a single one: nothing   *)
(* is written between its get and its set, so the counter is exact and no  *)
(* more than Limit messages pass while it lives.                           *)
THEOREM OneSocketIsLimited ==
  RateSafety => []((\A r, s \in Sockets : r = s) => passed <= Limit)
<1> DEFINE Exact == /\ passed <= Limit
                   /\ passed <= rate
                   /\ \A s \in Sockets : at[s] = "set" => passed <= got[s]
           Alone == \A r, s \in Sockets : r = s
<1>1. RateInit => (Alone => Exact)
  BY RateAssumption DEF RateInit, RateAssumption, Absent
<1>2. RateTypeOK /\ (Alone => Exact) /\ [RateNext]_vars => (Alone => Exact)'
  <2> SUFFICES ASSUME RateTypeOK, Alone, Exact, [RateNext]_vars PROVE Exact'
    OBVIOUS
  <2>0. /\ Limit \in Nat /\ rate \in Nat /\ passed \in Nat /\ got \in [Sockets -> Nat]
        /\ at \in [Sockets -> {"off", "idle", "get", "set", "leaving"}]
    BY RateAssumption DEF RateAssumption, RateTypeOK
  <2>1. CASE UNCHANGED <<rate, at, got, passed>>
    BY <2>1
  <2>2. ASSUME NEW t \in Sockets, Opens(t) PROVE Exact'
    BY <2>0, <2>2 DEF Opens
  <2>3. ASSUME NEW t \in Sockets, Sends(t) PROVE Exact'
    <3>1. CASE rate = Absent
      BY <2>0, <2>3, <3>1 DEF Sends, Written, Over, Absent
    <3>2. CASE rate # Absent
      BY <2>0, <2>3, <3>2 DEF Sends, Moves
    <3> QED BY <3>1, <3>2
  <2>4. ASSUME NEW t \in Sockets, Gets(t) PROVE Exact'
    BY <2>0, <2>4 DEF Gets, Moves
  <2>5. ASSUME NEW t \in Sockets, Sets(t) PROVE Exact'
    BY <2>0, <2>5 DEF Sets, Moves, Written, Over
  <2>6. ASSUME NEW t \in Sockets, Leaves(t) PROVE Exact'
    BY <2>0, <2>6 DEF Leaves
  <2>7. ASSUME NEW t \in Sockets, Gone(t) PROVE Exact'
    BY <2>0, <2>7 DEF Gone
  <2>8. ASSUME NEW t \in Sockets, Dies(t) PROVE Exact'
    BY <2>0, <2>8 DEF Dies, Moves
  <2>9. CASE RateExpires
    BY <2>0, <2>9 DEF RateExpires, Absent
  <2> QED
    BY <2>1, <2>2, <2>3, <2>4, <2>5, <2>6, <2>7, <2>8, <2>9
    DEF RateNext, vars, Heartbeat, SendsNowhere, MarkerExpires
<1>3. (Alone => Exact) => ((\A r, s \in Sockets : r = s) => passed <= Limit)
  OBVIOUS
<1> QED
  BY <1>1, <1>2, <1>3, RateTyping, PTL DEF RateSafety
-------------------------------------------------------------------------------
\* A set of naturals has a least element: the initial segments up to its
\* elements are finite, and inclusion is well-founded on finite sets.
LEMMA LeastNatural ==
  ASSUME NEW S \in SUBSET Nat, S # {}
  PROVE  \E m \in S : \A k \in S : m <= k
<1> DEFINE W == {0 .. k : k \in S}
<1>1. W \subseteq FiniteSubsetsOf(Nat) /\ W # {}
  <2>1. \A k \in Nat : IsFiniteSet(0 .. k) /\ 0 .. k \subseteq Nat
    BY FS_Interval
  <2> QED BY <2>1 DEF FiniteSubsetsOf
<1>2. \E x \in W : \A y \in W : ~ (<<y, x>> \in StrictSubsetOrdering(Nat))
  <2> HIDE DEF W
  <2> QED BY <1>1, WFMin, FS_StrictSubsetOrderingWellFounded
<1>3. PICK m \in S : \A k \in S : ~ (<<0 .. k, 0 .. m>> \in StrictSubsetOrdering(Nat))
  BY <1>2
<1>4. ASSUME NEW k \in S, k < m PROVE <<0 .. k, 0 .. m>> \in StrictSubsetOrdering(Nat)
  <2>1. m \in 0 .. m /\ m \notin 0 .. k /\ 0 .. k \subseteq 0 .. m
    BY <1>4
  <2>2. 0 .. k \in SUBSET Nat /\ 0 .. m \in SUBSET Nat
    OBVIOUS
  <2>3. 0 .. k # 0 .. m
    BY <2>1
  <2> QED BY <2>1, <2>2, <2>3 DEF StrictSubsetOrdering
<1>5. \A k \in S : ~ (k < m)
  BY <1>3, <1>4
<1>6. \A k \in S : k \in Nat
  OBVIOUS
<1> QED BY <1>5, <1>6

\* Induction over the naturals, of a set: there is no least number outside it.
LEMMA SetInduction ==
  ASSUME NEW S \in SUBSET Nat, 0 \in S, \A n \in S : n + 1 \in S
  PROVE  S = Nat
<1> SUFFICES ASSUME Nat \ S # {} PROVE FALSE
  OBVIOUS
<1> DEFINE Outside == Nat \ S
<1>1. PICK m \in Outside : \A k \in Outside : m <= k
  <2>1. Outside \in SUBSET Nat /\ Outside # {}
    OBVIOUS
  <2> HIDE DEF Outside
  <2> QED BY <2>1, LeastNatural
<1>2. m # 0 /\ m - 1 \in Nat /\ (m - 1) + 1 = m
  OBVIOUS
<1>3. m - 1 \in S
  BY <1>1, <1>2
<1> QED BY <1>2, <1>3

\* The factorial is the recursive function it is defined as.
LEMMA Factorials ==
  /\ factorial[0] = 1
  /\ \A n \in Nat : factorial[n] \in Nat \ {0} /\ factorial[n + 1] = (n + 1) * factorial[n]
<1> DEFINE Part(n, g) == g \in [0 .. n -> Nat \ {0}] /\ g[0] = 1 /\ \A i \in 1 .. n : g[i] = i * g[i - 1]
<1>1. \A n \in Nat : \E g : Part(n, g)
  <2> DEFINE S == {n \in Nat : \E g : Part(n, g)}
  <2>1. 0 \in S
    <3>1. Part(0, [i \in 0 .. 0 |-> 1])
      OBVIOUS
    <3> QED BY <3>1
  <2>2. ASSUME NEW n \in S PROVE n + 1 \in S
    <3>1. PICK g : Part(n, g)
      OBVIOUS
    <3> DEFINE h == [i \in 0 .. n + 1 |-> IF i = n + 1 THEN (n + 1) * g[n] ELSE g[i]]
    <3>2. n \in Nat /\ g[n] \in Nat \ {0}
      BY <3>1
    <3>3. (n + 1) * g[n] \in Nat \ {0}
      BY <3>2
    <3>4. Part(n + 1, h)
      <4>1. h \in [0 .. n + 1 -> Nat \ {0}]
        BY <3>1, <3>2, <3>3
      <4>2. h[0] = 1
        BY <3>1, <3>2
      <4>3. ASSUME NEW i \in 1 .. n + 1 PROVE h[i] = i * h[i - 1]
        <5>1. CASE i = n + 1
          BY <3>2, <5>1
        <5>2. CASE i # n + 1
          <6>1. i \in 1 .. n /\ i \in 0 .. n + 1 /\ i - 1 \in 0 .. n + 1 /\ i - 1 # n + 1
            BY <3>2, <5>2
          <6>2. h[i] = g[i] /\ h[i - 1] = g[i - 1]
            BY <5>2, <6>1
          <6>3. g[i] = i * g[i - 1] /\ g[i - 1] \in Nat /\ i \in Nat
            <7>1. i - 1 \in 0 .. n
              BY <3>2, <6>1
            <7> QED BY <3>1, <3>2, <6>1, <7>1
          <6> HIDE DEF h
          <6> QED BY <6>2, <6>3
        <5> QED BY <5>1, <5>2
      <4> QED BY <4>1, <4>2, <4>3
    <3> HIDE DEF Part, h
    <3> QED BY <3>2, <3>4
  <2> HIDE DEF Part
  <2>3. S = Nat
    <3> HIDE DEF S
    <3>1. S \in SUBSET Nat
      BY DEF S
    <3> QED BY <2>1, <2>2, <3>1, SetInduction
  <2> QED BY <2>3
<1>2. ASSUME NEW f, NEW g, NEW m \in Nat, NEW n \in Nat, Part(m, f), Part(n, g), m <= n
      PROVE  f[m] = g[m]
  <2> DEFINE S == {i \in Nat : i <= m => f[i] = g[i]}
  <2>1. 0 \in S
    BY <1>2
  <2>2. ASSUME NEW i \in S PROVE i + 1 \in S
    <3>1. i \in Nat
      OBVIOUS
    <3>2. CASE i + 1 <= m
      <4>1. i + 1 \in 1 .. m /\ i + 1 \in 1 .. n /\ i <= m /\ (i + 1) - 1 = i
        BY <1>2, <3>1, <3>2
      <4>2. f[i + 1] = (i + 1) * f[i] /\ g[i + 1] = (i + 1) * g[i]
        BY <1>2, <4>1
      <4> QED BY <3>1, <4>1, <4>2
    <3> QED BY <3>1, <3>2
  <2>3. S = Nat
    <3> HIDE DEF S
    <3>1. S \in SUBSET Nat
      BY DEF S
    <3> QED BY <2>1, <2>2, <3>1, SetInduction
  <2> QED BY <2>3
<1> DEFINE Rec(f) == f = [n \in Nat |-> IF n = 0 THEN 1 ELSE n * f[n - 1]]
           G(n) == CHOOSE g : Part(n, g)
           F == [n \in Nat |-> G(n)[n]]
<1>3. \A n \in Nat : Part(n, G(n))
  <2> HIDE DEF Part
  <2> QED BY <1>1
<1> HIDE DEF G
<1>4. \A n \in Nat : F[n] \in Nat \ {0}
  BY <1>3
<1>5. Rec(F)
  <2>1. ASSUME NEW n \in Nat PROVE F[n] = IF n = 0 THEN 1 ELSE n * F[n - 1]
    <3>1. CASE n = 0
      BY <1>3, <3>1
    <3>2. CASE n # 0
      <4>1. n - 1 \in Nat /\ n \in 1 .. n /\ n - 1 <= n
        BY <3>2
      <4>2. F[n] = n * G(n)[n - 1]
        BY <1>3, <4>1
      <4>3. G(n - 1)[n - 1] = G(n)[n - 1]
        <5> HIDE DEF Part
        <5> QED BY <1>2, <1>3, <4>1
      <4> QED BY <3>2, <4>1, <4>2, <4>3
    <3> QED BY <3>1, <3>2
  <2> QED BY <2>1
<1>6. Rec(factorial)
  <2> HIDE DEF F
  <2>1. factorial = CHOOSE f : Rec(f)
    BY Zenon DEF factorial
  <2> HIDE DEF Rec
  <2> QED BY <1>5, <2>1
<1>7. /\ factorial[0] = 1
      /\ \A n \in Nat : factorial[n + 1] = (n + 1) * factorial[n]
  BY <1>6
<1>8. \A n \in Nat : factorial[n] \in Nat \ {0}
  <2> DEFINE S == {n \in Nat : factorial[n] \in Nat \ {0}}
  <2>1. 0 \in S
    BY <1>7
  <2>2. ASSUME NEW i \in S PROVE i + 1 \in S
    <3>1. i \in Nat /\ factorial[i] \in Nat \ {0} /\ factorial[i + 1] = (i + 1) * factorial[i]
      BY <1>7
    <3>2. (i + 1) * factorial[i] \in Nat \ {0}
      BY <3>1
    <3> QED BY <3>1, <3>2
  <2>3. S = Nat
    <3> HIDE DEF S
    <3>1. S \in SUBSET Nat
      BY DEF S
    <3> QED BY <2>1, <2>2, <3>1, SetInduction
  <2> QED BY <2>3
<1> QED BY <1>7, <1>8

\* The ways to climb from 0 to n in l steps: functions that never fall.
Ladders(l, n) == {D \in [1 .. l -> 0 .. n] : \A v, w \in 1 .. l : v <= w => D[v] <= D[w]}

\* The sum of two products of factorials.
LEMMA Pascal ==
  ASSUME NEW a \in Nat, NEW b \in Nat, NEW p \in Nat, NEW q \in Nat, NEW f \in Nat,
         NEW c \in Nat, NEW d \in Nat,
         c * ((a * p) * q) = f, d * (p * (b * q)) = f
  PROVE  (c + d) * ((a * p) * (b * q)) = (a + b) * f
<1>1. (a * p) * (b * q) \in Nat /\ (a * p) * q \in Nat /\ p * (b * q) \in Nat
  OBVIOUS
<1>2. c * ((a * p) * (b * q)) = b * (c * ((a * p) * q))
  OBVIOUS
<1>3. d * ((a * p) * (b * q)) = a * (d * (p * (b * q)))
  OBVIOUS
<1>4. (c + d) * ((a * p) * (b * q)) = c * ((a * p) * (b * q)) + d * ((a * p) * (b * q))
  BY <1>1
<1>5. (a + b) * f = a * f + b * f
  OBVIOUS
<1> QED BY <1>2, <1>3, <1>4, <1>5

\* With no step, or no height, there is one.
LEMMA LadderEnds ==
  ASSUME NEW l \in Nat, NEW n \in Nat
  PROVE  /\ IsFiniteSet(Ladders(0, n)) /\ Cardinality(Ladders(0, n)) = 1
         /\ IsFiniteSet(Ladders(l, 0)) /\ Cardinality(Ladders(l, 0)) = 1
<1>1. Ladders(0, n) = {[v \in {} |-> 0]}
  <2>1. 1 .. 0 = {}
    OBVIOUS
  <2>2. ASSUME NEW D \in Ladders(0, n) PROVE D = [v \in {} |-> 0]
    BY <2>1 DEF Ladders
  <2>3. [v \in {} |-> 0] \in Ladders(0, n)
    BY <2>1 DEF Ladders
  <2> QED BY <2>2, <2>3
<1>2. Ladders(l, 0) = {[v \in 1 .. l |-> 0]}
  <2>1. ASSUME NEW D \in Ladders(l, 0) PROVE D = [v \in 1 .. l |-> 0]
    <3>1. D \in [1 .. l -> 0 .. 0]
      BY DEF Ladders
    <3>2. \A v \in 1 .. l : D[v] = 0
      BY <3>1
    <3> QED BY <3>1, <3>2
  <2>2. [v \in 1 .. l |-> 0] \in Ladders(l, 0)
    <3> DEFINE D == [v \in 1 .. l |-> 0]
    <3>1. \A v \in 1 .. l : D[v] = 0
      OBVIOUS
    <3>2. 0 \in 0 .. 0
      OBVIOUS
    <3>3. D \in [1 .. l -> 0 .. 0]
      BY <3>2, Zenon
    <3>4. \A v, w \in 1 .. l : v <= w => D[v] <= D[w]
      BY <3>1
    <3> HIDE DEF D
    <3>5. D \in Ladders(l, 0)
      BY <3>3, <3>4 DEF Ladders
    <3> QED BY <3>5 DEF D
  <2> QED BY <2>1, <2>2
<1>3. \A a : IsFiniteSet({a}) /\ Cardinality({a}) = 1
  BY FS_Singleton
<1>4. PICK a, b : Ladders(0, n) = {a} /\ Ladders(l, 0) = {b}
  BY <1>1, <1>2
<1> QED BY <1>3, <1>4

\* The last step of a ladder stays below the height or reaches it.
LEMMA LadderSplit ==
  ASSUME NEW l \in Nat, NEW n \in Nat,
         IsFiniteSet(Ladders(l + 1, n)), IsFiniteSet(Ladders(l, n + 1))
  PROVE  /\ IsFiniteSet(Ladders(l + 1, n + 1))
         /\ Cardinality(Ladders(l + 1, n + 1)) = Cardinality(Ladders(l + 1, n)) + Cardinality(Ladders(l, n + 1))
<1> DEFINE Up(D) == [v \in 1 .. l + 1 |-> IF v = l + 1 THEN n + 1 ELSE D[v]]
           A == Ladders(l + 1, n)
           B == {Up(D) : D \in Ladders(l, n + 1)}
           f == [D \in Ladders(l, n + 1) |-> Up(D)]
<1>0. l + 1 \in 1 .. l + 1 /\ 1 .. l \subseteq 1 .. l + 1 /\ l + 1 \notin 1 .. l
      /\ \A v \in 1 .. l + 1 : v # l + 1 => v \in 1 .. l
  OBVIOUS
<1>1. \A D \in Ladders(l, n + 1) : Up(D) \in Ladders(l + 1, n + 1) /\ Up(D)[l + 1] = n + 1
  <2> SUFFICES ASSUME NEW D \in Ladders(l, n + 1) PROVE Up(D) \in Ladders(l + 1, n + 1) /\ Up(D)[l + 1] = n + 1
    OBVIOUS
  <2>1. D \in [1 .. l -> 0 .. n + 1] /\ \A v, w \in 1 .. l : v <= w => D[v] <= D[w]
    BY DEF Ladders
  <2>2. Up(D) \in [1 .. l + 1 -> 0 .. n + 1]
    BY <1>0, <2>1
  <2>3. ASSUME NEW v \in 1 .. l + 1, NEW w \in 1 .. l + 1, v <= w PROVE Up(D)[v] <= Up(D)[w]
    <3>1. CASE w = l + 1
      <4>1. Up(D)[w] = n + 1 /\ Up(D)[v] \in 0 .. n + 1
        BY <2>2, <3>1
      <4> QED BY <4>1
    <3>2. CASE w # l + 1
      <4>1. v \in 1 .. l /\ w \in 1 .. l /\ v # l + 1
        BY <1>0, <2>3, <3>2
      <4>2. Up(D)[v] = D[v] /\ Up(D)[w] = D[w]
        BY <3>2, <4>1
      <4> QED BY <2>1, <2>3, <4>1, <4>2
    <3> QED BY <3>1, <3>2
  <2>4. Up(D)[l + 1] = n + 1
    BY <1>0
  <2> HIDE DEF Up
  <2> QED BY <2>2, <2>3, <2>4 DEF Ladders
<1>2. A \subseteq Ladders(l + 1, n + 1) /\ \A D \in A : D[l + 1] <= n
  <2> SUFFICES ASSUME NEW D \in A PROVE D \in Ladders(l + 1, n + 1) /\ D[l + 1] <= n
    OBVIOUS
  <2>1. D \in [1 .. l + 1 -> 0 .. n] /\ \A v, w \in 1 .. l + 1 : v <= w => D[v] <= D[w]
    BY DEF Ladders
  <2>2. D \in [1 .. l + 1 -> 0 .. n + 1]
    BY <2>1
  <2>3. D[l + 1] \in 0 .. n
    BY <1>0, <2>1
  <2> QED BY <2>1, <2>2, <2>3 DEF Ladders
<1>3. ASSUME NEW D \in Ladders(l + 1, n + 1) PROVE D \in A \cup B
  <2>1. D \in [1 .. l + 1 -> 0 .. n + 1] /\ \A v, w \in 1 .. l + 1 : v <= w => D[v] <= D[w]
    BY DEF Ladders
  <2>2. CASE D[l + 1] = n + 1
    <3> DEFINE E == [v \in 1 .. l |-> D[v]]
    <3>1. E \in [1 .. l -> 0 .. n + 1]
      BY <1>0, <2>1
    <3>2. \A v, w \in 1 .. l : v <= w => E[v] <= E[w]
      BY <1>0, <2>1
    <3>3. E \in Ladders(l, n + 1)
      <4> HIDE DEF E
      <4> QED BY <3>1, <3>2 DEF Ladders
    <3>4. \A v \in 1 .. l + 1 : Up(E)[v] = D[v]
      BY <1>0, <2>2
    <3>5. Up(E) = D
      BY <2>1, <3>4
    <3> QED BY <3>3, <3>5
  <2>3. CASE D[l + 1] # n + 1
    <3>1. \A v \in 1 .. l + 1 : D[v] \in 0 .. n + 1 /\ D[v] <= D[l + 1] /\ D[l + 1] \in 0 .. n + 1
      BY <1>0, <2>1
    <3>2. \A v \in 1 .. l + 1 : D[v] \in 0 .. n
      BY <2>3, <3>1
    <3>3. D \in [1 .. l + 1 -> 0 .. n]
      BY <2>1, <3>2
    <3> QED BY <2>1, <3>3 DEF Ladders
  <2> QED BY <2>2, <2>3
<1>4. Ladders(l + 1, n + 1) = A \cup B
  BY <1>1, <1>2, <1>3
<1>5. A \cap B = {}
  BY <1>1, <1>2
<1>6. IsFiniteSet(B) /\ Cardinality(B) = Cardinality(Ladders(l, n + 1))
  <2>1. ASSUME NEW D \in Ladders(l, n + 1), NEW E \in Ladders(l, n + 1), Up(D) = Up(E) PROVE D = E
    <3>1. D \in [1 .. l -> 0 .. n + 1] /\ E \in [1 .. l -> 0 .. n + 1]
      BY DEF Ladders
    <3>2. \A v \in 1 .. l : Up(D)[v] = D[v] /\ Up(E)[v] = E[v]
      BY <1>0
    <3>3. \A v \in 1 .. l : D[v] = E[v]
      BY <2>1, <3>2
    <3> QED BY <3>1, <3>3
  <2> HIDE DEF Up
  <2>2. f \in Bijection(Ladders(l, n + 1), B)
    <3>1. f \in [Ladders(l, n + 1) -> B]
      OBVIOUS
    <3>2. \A D, E \in Ladders(l, n + 1) : f[D] = f[E] => D = E
      BY <2>1
    <3>3. \A b \in B : \E D \in Ladders(l, n + 1) : f[D] = b
      OBVIOUS
    <3> HIDE DEF f, B
    <3> QED BY <3>1, <3>2, <3>3 DEF Bijection, Injection, Surjection, IsInjective
  <2>3. ExistsBijection(Ladders(l, n + 1), B)
    BY <2>2 DEF ExistsBijection
  <2> HIDE DEF B
  <2> QED BY <2>3, FS_Bijection
<1>7. IsFiniteSet(A) /\ Cardinality(A) \in Nat /\ Cardinality(B) \in Nat
  BY <1>6, FS_CardinalityType
<1> HIDE DEF A, B
<1>8. Cardinality(A \cap B) = 0
  BY <1>5, FS_EmptySet
<1>9. IsFiniteSet(A \cup B) /\ Cardinality(A \cup B) = Cardinality(A) + Cardinality(B)
  BY <1>6, <1>7, <1>8, FS_Union
<1> QED BY <1>4, <1>6, <1>9 DEF A

\* How many there are.
LEMMA LadderCount ==
  ASSUME NEW l \in Nat, NEW n \in Nat
  PROVE  IsFiniteSet(Ladders(l, n)) /\ Cardinality(Ladders(l, n)) = choose(l + n, n)
<1> DEFINE Count(k, m) == /\ IsFiniteSet(Ladders(k, m))
                          /\ Cardinality(Ladders(k, m)) * (factorial[k] * factorial[m]) = factorial[k + m]
<1>1. \A m \in Nat : Count(0, m)
  <2> SUFFICES ASSUME NEW m \in Nat PROVE Count(0, m)
    OBVIOUS
  <2>1. factorial[m] \in Nat /\ factorial[0] = 1 /\ 0 + m = m
    BY Factorials
  <2> QED BY <2>1, LadderEnds
<1>2. \A k \in Nat : Count(k, 0)
  <2> SUFFICES ASSUME NEW k \in Nat PROVE Count(k, 0)
    OBVIOUS
  <2>1. factorial[k] \in Nat /\ factorial[0] = 1 /\ k + 0 = k
    BY Factorials
  <2> QED BY <2>1, LadderEnds
<1>3. ASSUME NEW k \in Nat, NEW m \in Nat, Count(k + 1, m), Count(k, m + 1) PROVE Count(k + 1, m + 1)
  <2> DEFINE c == Cardinality(Ladders(k + 1, m))
             d == Cardinality(Ladders(k, m + 1))
             p == factorial[k]
             q == factorial[m]
             f == factorial[k + 1 + m]
  <2>1. c \in Nat /\ d \in Nat
    BY <1>3, FS_CardinalityType
  <2>2. p \in Nat /\ q \in Nat /\ f \in Nat
        /\ factorial[k + 1] = (k + 1) * p /\ factorial[m + 1] = (m + 1) * q
    BY Factorials
  <2>3. factorial[(k + 1) + (m + 1)] = ((k + 1) + (m + 1)) * f
    <3>1. k + 1 + m \in Nat /\ (k + 1 + m) + 1 = (k + 1) + (m + 1)
      OBVIOUS
    <3>2. factorial[(k + 1 + m) + 1] = ((k + 1 + m) + 1) * factorial[k + 1 + m]
      BY <3>1, Factorials
    <3> QED BY <3>1, <3>2
  <2>4. c * (((k + 1) * p) * q) = f
    BY <1>3, <2>2
  <2>5. d * (p * ((m + 1) * q)) = f
    <3>1. k + (m + 1) = k + 1 + m
      OBVIOUS
    <3> QED BY <1>3, <2>2, <3>1
  <2>6. IsFiniteSet(Ladders(k + 1, m + 1)) /\ Cardinality(Ladders(k + 1, m + 1)) = c + d
    BY <1>3, LadderSplit
  <2> HIDE DEF c, d, p, q, f
  <2>7. (c + d) * (((k + 1) * p) * ((m + 1) * q)) = ((k + 1) + (m + 1)) * f
    BY <2>1, <2>2, <2>4, <2>5, Pascal
  <2> QED BY <2>2, <2>3, <2>6, <2>7
<1> HIDE DEF Count
<1>4. \A k \in Nat : \A m \in Nat : Count(k, m)
  <2> DEFINE S == {k \in Nat : \A m \in Nat : Count(k, m)}
  <2>1. 0 \in S
    BY <1>1
  <2>2. ASSUME NEW k \in S PROVE k + 1 \in S
    <3> DEFINE T == {m \in Nat : Count(k + 1, m)}
    <3>1. 0 \in T
      BY <1>2
    <3>2. ASSUME NEW m \in T PROVE m + 1 \in T
      BY <1>3, <3>2
    <3>3. T = Nat
      <4> HIDE DEF T
      <4>1. T \in SUBSET Nat
        BY DEF T
      <4> QED BY <3>1, <3>2, <4>1, SetInduction
    <3> QED BY <3>3
  <2>3. S = Nat
    <3> HIDE DEF S
    <3>1. S \in SUBSET Nat
      BY DEF S
    <3> QED BY <2>1, <2>2, <3>1, SetInduction
  <2> QED BY <2>3
<1>5. Count(l, n)
  BY <1>4
<1> DEFINE c == Cardinality(Ladders(l, n))
           e == factorial[n] * factorial[l]
<1>6. c \in Nat /\ factorial[l] \in Nat \ {0} /\ factorial[n] \in Nat \ {0} /\ l + n - n = l
  BY <1>5, FS_CardinalityType, Factorials DEF Count
<1>7. e \in Nat /\ e > 0 /\ e = factorial[l] * factorial[n]
  BY <1>6
<1>8. c * e = factorial[l + n]
  BY <1>5, <1>7 DEF Count
<1> HIDE DEF c, e
<1>9. (c * e) \div e = c
  BY <1>6, <1>7
<1>10. choose(l + n, n) = factorial[l + n] \div e
  BY <1>6 DEF choose, e
<1> QED BY <1>5, <1>8, <1>9, <1>10 DEF Count, c
-------------------------------------------------------------------------------
\* The sockets that may still write v + 1, or less, over the counter.
Behind(v) == {s \in Sockets : rate <= v \/ (at[s] = "set" /\ got[s] <= v)}

\* How many, for each v below the limit.
Standing == [v \in 1 .. Limit - 1 |-> Cardinality(Behind(v))]

\* D comes after E, or is E: where they differ first, D is lower.
NoLater(E, D) ==
  E = D \/ \E v \in 1 .. Limit - 1 : (\A w \in 1 .. v - 1 : E[w] = D[w]) /\ D[v] < E[v]

UpTo(D) == {E \in Ladders(Limit - 1, Cardinality(Sockets)) : NoLater(E, D)}

\* Each message that passes moves the standing on.
PassesMoveOn == rate # Absent => passed <= Cardinality(UpTo(Standing))

\* The order is one.
LEMMA LaterOrder ==
  ASSUME NEW C, NEW D, NEW E, NoLater(C, D), NoLater(D, E), Limit \in Nat,
         \A v \in 1 .. Limit - 1 : C[v] \in Int /\ D[v] \in Int /\ E[v] \in Int
  PROVE  NoLater(C, E) /\ (C = E => D = E)
<1>1. CASE C = D \/ D = E
  BY <1>1 DEF NoLater
<1>2. CASE C # D /\ D # E
  <2>1. PICK v \in 1 .. Limit - 1 : (\A w \in 1 .. v - 1 : C[w] = D[w]) /\ D[v] < C[v]
    BY <1>2 DEF NoLater
  <2>2. PICK u \in 1 .. Limit - 1 : (\A w \in 1 .. u - 1 : D[w] = E[w]) /\ E[u] < D[u]
    BY <1>2 DEF NoLater
  <2>3. PICK m \in 1 .. Limit - 1 : m = IF u < v THEN u ELSE v
    BY <2>1, <2>2
  <2>4. \A w \in 1 .. m - 1 : C[w] = E[w]
    <3> SUFFICES ASSUME NEW w \in 1 .. m - 1 PROVE C[w] = E[w]
      OBVIOUS
    <3>1. w \in 1 .. v - 1 /\ w \in 1 .. u - 1
      BY <2>1, <2>2, <2>3
    <3> QED BY <2>1, <2>2, <3>1
  <2>5. E[m] < C[m]
    <3>1. CASE u < v
      <4>1. u \in 1 .. v - 1
        BY <2>1, <2>2, <3>1
      <4>2. C[u] = D[u]
        BY <2>1, <4>1
      <4> QED BY <2>2, <2>3, <3>1, <4>2
    <3>2. CASE v < u
      <4>1. v \in 1 .. u - 1
        BY <2>1, <2>2, <3>2
      <4>2. D[v] = E[v]
        BY <2>2, <4>1
      <4> QED BY <2>1, <2>3, <3>2, <4>2
    <3>3. CASE u = v
      BY <2>1, <2>2, <2>3, <3>3
    <3> QED BY <2>1, <2>2, <3>1, <3>2, <3>3
  <2> QED BY <2>3, <2>4, <2>5 DEF NoLater
<1> QED BY <1>1, <1>2

\* The standing is a ladder: whoever may write v + 1 may write more.
LEMMA StandingIsLadder ==
  ASSUME RateTypeOK
  PROVE  /\ Standing \in Ladders(Limit - 1, Cardinality(Sockets))
         /\ Cardinality(Sockets) \in Nat /\ Limit - 1 \in Nat
         /\ \A v : IsFiniteSet(Behind(v)) /\ Cardinality(Behind(v)) \in 0 .. Cardinality(Sockets)
<1>1. IsFiniteSet(Sockets) /\ Cardinality(Sockets) \in Nat /\ Limit - 1 \in Nat
  BY RateAssumption, FS_CardinalityType DEF RateAssumption
<1>2. ASSUME NEW v PROVE IsFiniteSet(Behind(v)) /\ Cardinality(Behind(v)) \in 0 .. Cardinality(Sockets)
  <2>1. Behind(v) \in SUBSET Sockets
    BY DEF Behind
  <2>2. IsFiniteSet(Behind(v)) /\ Cardinality(Behind(v)) <= Cardinality(Sockets)
    BY <1>1, <2>1, FS_Subset
  <2>3. Cardinality(Behind(v)) \in Nat
    BY <2>2, FS_CardinalityType
  <2> QED BY <1>1, <2>2, <2>3
<1>3. ASSUME NEW v \in 1 .. Limit - 1, NEW w \in 1 .. Limit - 1, v <= w
      PROVE  Cardinality(Behind(v)) <= Cardinality(Behind(w))
  <2>1. Behind(v) \in SUBSET Behind(w)
    BY <1>1, <1>3 DEF Behind, RateTypeOK
  <2> QED BY <1>2, <2>1, FS_Subset
<1>4. Standing \in [1 .. Limit - 1 -> 0 .. Cardinality(Sockets)]
  BY <1>2 DEF Standing
<1>5. \A v \in 1 .. Limit - 1 : Standing[v] = Cardinality(Behind(v))
  BY DEF Standing
<1>6. Standing \in Ladders(Limit - 1, Cardinality(Sockets))
  BY <1>3, <1>4, <1>5 DEF Ladders
<1> QED BY <1>1, <1>2, <1>6

\* Standings seen so far are finitely many, and grow with each that is new.
LEMMA UpToGrows ==
  ASSUME Limit \in Nat, NEW n \in Nat, n = Cardinality(Sockets), Limit - 1 \in Nat,
         NEW D \in Ladders(Limit - 1, n), NEW E \in Ladders(Limit - 1, n), NoLater(D, E)
  PROVE  /\ Cardinality(UpTo(D)) \in Nat /\ Cardinality(UpTo(E)) \in Nat
         /\ Cardinality(UpTo(D)) <= Cardinality(UpTo(E))
         /\ D # E => Cardinality(UpTo(D)) + 1 <= Cardinality(UpTo(E))
         /\ 1 <= Cardinality(UpTo(E))
         /\ Cardinality(UpTo(E)) <= Cardinality(Ladders(Limit - 1, n))
<1>1. IsFiniteSet(Ladders(Limit - 1, n))
  BY LadderCount
<1>2. \A C \in Ladders(Limit - 1, n) : \A v \in 1 .. Limit - 1 : C[v] \in Int
  BY DEF Ladders
<1>3. /\ UpTo(D) \in SUBSET Ladders(Limit - 1, n) /\ UpTo(E) \in SUBSET Ladders(Limit - 1, n)
      /\ E \in UpTo(E)
  BY DEF UpTo, NoLater
<1>4. UpTo(D) \in SUBSET UpTo(E)
  BY <1>2, LaterOrder DEF UpTo
<1>5. D # E => E \notin UpTo(D)
  BY <1>2, LaterOrder DEF UpTo
<1>6. IsFiniteSet(UpTo(D)) /\ IsFiniteSet(UpTo(E))
  BY <1>1, <1>3, FS_Subset
<1>7. Cardinality(UpTo(D)) \in Nat /\ Cardinality(UpTo(E)) \in Nat
  BY <1>6, FS_CardinalityType
<1>8. /\ Cardinality(UpTo(D)) <= Cardinality(UpTo(E))
      /\ Cardinality(UpTo(D)) = Cardinality(UpTo(E)) => UpTo(D) = UpTo(E)
  BY <1>4, <1>6, FS_Subset
<1>9. D # E => Cardinality(UpTo(D)) # Cardinality(UpTo(E))
  BY <1>3, <1>5, <1>8
<1>10. Cardinality(UpTo(E)) # 0
  BY <1>3, <1>6, FS_EmptySet
<1>11. Cardinality(UpTo(E)) <= Cardinality(Ladders(Limit - 1, n))
  BY <1>1, <1>3, FS_Subset
<1> QED BY <1>7, <1>8, <1>9, <1>10, <1>11

\* Sockets that catch up move the standing on.
LEMMA BehindShrinks ==
  ASSUME RateTypeOK, RateTypeOK', \A v \in 1 .. Limit - 1 : Behind(v)' \subseteq Behind(v)
  PROVE  NoLater(Standing, Standing')
<1> DEFINE D == Standing
           E == Standing'
<1>1. /\ \A v \in 1 .. Limit - 1 : D[v] = Cardinality(Behind(v)) /\ E[v] = Cardinality(Behind(v)')
      /\ D = [v \in 1 .. Limit - 1 |-> D[v]] /\ E = [v \in 1 .. Limit - 1 |-> E[v]]
  BY DEF Standing
<1>2. Limit - 1 \in Nat /\ \A v : IsFiniteSet(Behind(v)) /\ Cardinality(Behind(v)) \in 0 .. Cardinality(Sockets)
      /\ Cardinality(Sockets) \in Nat
  BY StandingIsLadder
<1>3. ASSUME NEW v \in 1 .. Limit - 1 PROVE D[v] \in Nat /\ E[v] \in Nat /\ E[v] <= D[v]
  <2>1. Behind(v)' \in SUBSET Behind(v) /\ IsFiniteSet(Behind(v))
    BY <1>2
  <2>2. IsFiniteSet(Behind(v)') /\ Cardinality(Behind(v)') <= Cardinality(Behind(v))
    BY <2>1, FS_Subset
  <2>3. Cardinality(Behind(v)') \in Nat /\ Cardinality(Behind(v)) \in Nat
    BY <2>1, <2>2, FS_CardinalityType
  <2> QED BY <1>1, <2>2, <2>3
<1> HIDE DEF D, E
<1>4. CASE \A v \in 1 .. Limit - 1 : D[v] = E[v]
  <2>1. D = E
    BY <1>1, <1>4
  <2> QED BY <2>1 DEF NoLater, D, E
<1>5. CASE \E v \in 1 .. Limit - 1 : D[v] # E[v]
  <2> DEFINE S == {v \in 1 .. Limit - 1 : D[v] # E[v]}
  <2>1. S \in SUBSET Nat /\ S # {}
    BY <1>5
  <2>2. PICK m \in S : \A k \in S : m <= k
    <3> HIDE DEF S
    <3> QED BY <2>1, LeastNatural
  <2>3. m \in 1 .. Limit - 1 /\ E[m] < D[m]
    BY <1>3, <2>2
  <2>4. \A w \in 1 .. m - 1 : D[w] = E[w]
    BY <1>2, <2>2, <2>3
  <2>5. NoLater(D, E)
    BY <2>3, <2>4 DEF NoLater
  <2> QED BY <2>5 DEF D, E
<1> QED BY <1>4, <1>5

\* A counter written over, and a consumer that is done: the sockets below both
\* stay, and one fewer is at the lower of the two.
LEMMA SetsMovesOn ==
  ASSUME RateTypeOK, RateTypeOK', NEW s \in Sockets, Sets(s), rate # Absent
  PROVE  /\ NoLater(Standing, Standing')
         /\ ~ Over(got[s] + 1) => Standing # Standing'
<1> DEFINE h == got[s]
           D == Standing
           E == Standing'
<1>1. /\ h \in Nat \ {0} /\ rate \in Nat \ {0} /\ rate' = h + 1 /\ at[s] = "set"
      /\ at'[s] = "idle" /\ \A t \in Sockets \ {s} : at'[t] = at[t] /\ got'[t] = got[t]
  BY DEF Sets, Moves, RateTypeOK, Absent
<1>2. PICK m \in Nat : m = IF h < rate THEN h ELSE rate
  BY <1>1
<1>3. /\ \A v \in 1 .. Limit - 1 : D[v] = Cardinality(Behind(v)) /\ E[v] = Cardinality(Behind(v)')
      /\ D = [v \in 1 .. Limit - 1 |-> D[v]] /\ E = [v \in 1 .. Limit - 1 |-> E[v]]
  BY DEF Standing
<1>4. ASSUME NEW v \in Nat, v < m PROVE Behind(v)' = Behind(v)
  <2>1. v < h /\ v < rate /\ v < h + 1
    BY <1>1, <1>2, <1>4
  <2>2. Behind(v) = {t \in Sockets : at[t] = "set" /\ got[t] <= v}
    BY <1>1, <2>1 DEF Behind
  <2>3. Behind(v)' = {t \in Sockets : at'[t] = "set" /\ got'[t] <= v}
    BY <1>1, <2>1 DEF Behind
  <2>4. ASSUME NEW t \in Sockets
        PROVE  at'[t] = "set" /\ got'[t] <= v <=> at[t] = "set" /\ got[t] <= v
    <3>1. CASE t = s
      BY <1>1, <2>1, <3>1
    <3>2. CASE t # s
      BY <1>1, <3>2
    <3> QED BY <3>1, <3>2
  <2> QED BY <2>2, <2>3, <2>4
<1>5. Behind(m)' \subseteq Behind(m) /\ s \in Behind(m) /\ s \notin Behind(m)'
  <2>1. m < h + 1 /\ (rate <= m \/ h <= m)
    BY <1>1, <1>2
  <2>2. Behind(m)' = {t \in Sockets : at'[t] = "set" /\ got'[t] <= m}
    BY <1>1, <2>1 DEF Behind
  <2>3. s \in Behind(m)
    BY <1>1, <2>1 DEF Behind
  <2>4. \A t \in Sockets : at'[t] = "set" /\ got'[t] <= m => t # s /\ at[t] = "set" /\ got[t] <= m
    BY <1>1
  <2> QED BY <2>2, <2>3, <2>4 DEF Behind
<1> HIDE DEF D, E
<1>6. CASE m \in 1 .. Limit - 1
  <2>1. IsFiniteSet(Behind(m)) /\ Cardinality(Behind(m)) \in Nat
    BY StandingIsLadder, FS_CardinalityType
  <2>2. IsFiniteSet(Behind(m)') /\ Cardinality(Behind(m)') < Cardinality(Behind(m))
    <3>1. Behind(m)' \in SUBSET Behind(m) /\ Behind(m)' # Behind(m)
      BY <1>5
    <3>2. /\ IsFiniteSet(Behind(m)') /\ Cardinality(Behind(m)') <= Cardinality(Behind(m))
          /\ Cardinality(Behind(m)') = Cardinality(Behind(m)) => Behind(m)' = Behind(m)
      BY <2>1, <3>1, FS_Subset
    <3>3. Cardinality(Behind(m)') \in Nat
      BY <3>2, FS_CardinalityType
    <3> QED BY <2>1, <3>1, <3>2, <3>3
  <2>3. E[m] < D[m] /\ E[m] # D[m]
    <3>1. Cardinality(Behind(m)') \in Nat
      BY <2>2, FS_CardinalityType
    <3> QED BY <1>3, <1>6, <2>1, <2>2, <3>1
  <2>4. \A w \in 1 .. m - 1 : D[w] = E[w]
    <3> SUFFICES ASSUME NEW w \in 1 .. m - 1 PROVE D[w] = E[w]
      OBVIOUS
    <3>1. w \in Nat /\ w < m /\ w \in 1 .. Limit - 1
      BY <1>6, RateAssumption DEF RateAssumption
    <3>2. Behind(w)' = Behind(w)
      BY <1>4, <3>1
    <3> QED BY <1>3, <3>1, <3>2
  <2>5. NoLater(D, E)
    BY <1>6, <2>3, <2>4 DEF NoLater
  <2> QED BY <2>3, <2>5 DEF D, E
<1>7. CASE m \notin 1 .. Limit - 1
  <2>1. Limit \in Nat \ {0} /\ m >= Limit
    BY <1>1, <1>2, <1>7, RateAssumption DEF RateAssumption
  <2>2. Over(h + 1)
    BY <1>1, <1>2, <2>1 DEF Over
  <2>3. \A v \in 1 .. Limit - 1 : D[v] = E[v]
    <3> SUFFICES ASSUME NEW v \in 1 .. Limit - 1 PROVE D[v] = E[v]
      OBVIOUS
    <3>1. v \in Nat /\ v < m
      BY <2>1
    <3>2. Behind(v)' = Behind(v)
      BY <1>4, <3>1
    <3> QED BY <1>3, <3>2
  <2>4. D = E
    BY <1>3, <2>3
  <2> QED BY <2>2, <2>4 DEF NoLater, D, E
<1> QED BY <1>6, <1>7

(* LetThrough, for any sockets and any limit: until it is the last one, a  *)
(* message that passes leaves the standing of the sockets later than it    *)
(* was, nothing takes it back while the counter lives, and the standings   *)
(* are ladders, of which there are choose(Limit + n - 1, n).               *)
THEOREM LimitIsCoarse == RateSafety => []LetThrough
<1>1. RateInit => PassesMoveOn
  BY DEF RateInit, PassesMoveOn
<1>0. RateTypeOK' => Standing' \in Ladders(Limit - 1, Cardinality(Sockets))
  <2>1. RateTypeOK => Standing \in Ladders(Limit - 1, Cardinality(Sockets))
    BY StandingIsLadder
  <2>2. RateTypeOK' => (Standing \in Ladders(Limit - 1, Cardinality(Sockets)))'
    BY <2>1, PTL
  <2> QED BY <2>2 DEF Ladders
<1>2. RateTypeOK /\ RateTypeOK' /\ PassesMoveOn /\ [RateNext]_vars => PassesMoveOn'
  <2> SUFFICES ASSUME RateTypeOK, RateTypeOK', PassesMoveOn, [RateNext]_vars, rate' # Absent
               PROVE  passed' <= Cardinality(UpTo(Standing'))
    BY DEF PassesMoveOn, UpTo, NoLater
  <2> DEFINE n == Cardinality(Sockets)
             D == Standing
             E == Standing'
  <2>0. /\ D \in Ladders(Limit - 1, n) /\ E \in Ladders(Limit - 1, n) /\ n \in Nat
        /\ Limit - 1 \in Nat /\ Limit \in Nat /\ passed \in Nat
    BY <1>0, StandingIsLadder, RateAssumption DEF RateAssumption, RateTypeOK, Ladders
  <2>1. NoLater(E, E)
    BY DEF NoLater
  <2>2. 1 <= Cardinality(UpTo(E)) /\ Cardinality(UpTo(E)) \in Nat
    <3> HIDE DEF D, E, n
    <3>1. n = Cardinality(Sockets)
      BY DEF n
    <3> QED BY <2>0, <2>1, <3>1, UpToGrows
  <2>3. ASSUME NoLater(D, E), rate # Absent,
               passed' = passed \/ (passed' = passed + 1 /\ D # E)
        PROVE  passed' <= Cardinality(UpTo(E))
    <3>1. passed <= Cardinality(UpTo(D))
      BY <2>3 DEF PassesMoveOn
    <3> HIDE DEF D, E, n
    <3>2. n = Cardinality(Sockets)
      BY DEF n
    <3>3. /\ Cardinality(UpTo(D)) \in Nat /\ Cardinality(UpTo(D)) <= Cardinality(UpTo(E))
          /\ D # E => Cardinality(UpTo(D)) + 1 <= Cardinality(UpTo(E))
      BY <2>0, <2>3, <3>2, UpToGrows
    <3> QED BY <2>0, <2>2, <2>3, <3>1, <3>3
  <2>4. ASSUME rate # Absent, passed' = passed, \A v \in 1 .. Limit - 1 : Behind(v)' \subseteq Behind(v)
        PROVE  passed' <= Cardinality(UpTo(E))
    <3>1. NoLater(D, E)
      BY <2>4, BehindShrinks
    <3> QED BY <2>3, <2>4, <3>1
  <2>5. CASE rate = Absent
    <3>1. passed = 0
      BY <2>5 DEF RateTypeOK
    <3>2. passed' \in {passed, passed + 1}
      <4>1. ASSUME NEW s \in Sockets, Sends(s) \/ Sets(s) PROVE passed' \in {passed, passed + 1}
        BY <2>0, <4>1 DEF Sends, Sets, Written, Over
      <4>2. ASSUME NEW s \in Sockets,
                   \/ Opens(s) \/ Heartbeat(s) \/ SendsNowhere(s) \/ Gets(s) \/ Leaves(s) \/ Gone(s)
                   \/ Dies(s)
            PROVE  passed' = passed
        BY <4>2 DEF Opens, Heartbeat, SendsNowhere, Gets, Leaves, Gone, Dies
      <4>3. ASSUME MarkerExpires \/ UNCHANGED vars PROVE passed' = passed
        BY <4>3 DEF MarkerExpires, vars
      <4>4. ~ RateExpires
        BY <2>5 DEF RateExpires
      <4> QED BY <4>1, <4>2, <4>3, <4>4 DEF RateNext
    <3> QED BY <2>2, <3>1, <3>2
  <2>6. CASE rate # Absent
    <3>1. ASSUME NEW s \in Sockets, Sets(s) PROVE passed' <= Cardinality(UpTo(E))
      <4>1. NoLater(D, E) /\ (~ Over(got[s] + 1) => D # E)
        BY <2>6, <3>1, SetsMovesOn
      <4>2. passed' = passed \/ (passed' = passed + 1 /\ ~ Over(got[s] + 1))
        BY <2>0, <3>1 DEF Sets, Written
      <4> HIDE DEF D, E
      <4> QED BY <2>3, <2>6, <4>1, <4>2
    <3>2. ASSUME passed' = passed, rate' = rate,
                 \A s \in Sockets : at'[s] = "set" =>
                   \/ at[s] = "set" /\ got'[s] = got[s]
                   \/ got'[s] = rate
          PROVE  passed' <= Cardinality(UpTo(E))
      <4>1. \A v \in 1 .. Limit - 1 : Behind(v)' \subseteq Behind(v)
        BY <3>2 DEF Behind
      <4> HIDE DEF E
      <4> QED BY <2>4, <2>6, <3>2, <4>1
    <3>3. ASSUME NEW s \in Sockets,
                 Opens(s) \/ Heartbeat(s) \/ SendsNowhere(s) \/ Leaves(s) \/ Gone(s)
          PROVE  passed' <= Cardinality(UpTo(E))
      <4> HIDE DEF E
      <4> QED
        BY <3>2, <3>3 DEF RateTypeOK, Opens, Heartbeat, SendsNowhere, Leaves, Gone
    <3>4. ASSUME NEW s \in Sockets, Sends(s) \/ Gets(s) \/ Dies(s)
          PROVE  passed' <= Cardinality(UpTo(E))
      <4> HIDE DEF E
      <4> QED
        BY <2>6, <3>2, <3>4 DEF RateTypeOK, Sends, Gets, Dies, Moves, Absent
    <3>5. ASSUME RateExpires PROVE FALSE
      BY <3>5 DEF RateExpires
    <3>6. ASSUME MarkerExpires \/ UNCHANGED vars PROVE passed' <= Cardinality(UpTo(E))
      <4> HIDE DEF E
      <4> QED
        BY <3>2, <3>6 DEF MarkerExpires, vars
    <3> QED BY <3>1, <3>3, <3>4, <3>5, <3>6 DEF RateNext
  <2> QED BY <2>5, <2>6
<1>3. RateTypeOK /\ PassesMoveOn => LetThrough
  <2> SUFFICES ASSUME RateTypeOK, PassesMoveOn PROVE LetThrough
    OBVIOUS
  <2> DEFINE n == Cardinality(Sockets)
             most == choose(Limit + n - 1, n)
  <2>1. /\ Standing \in Ladders(Limit - 1, n) /\ n \in Nat /\ Limit - 1 \in Nat
        /\ Limit \in Nat /\ passed \in Nat
    BY StandingIsLadder, RateAssumption DEF RateAssumption, RateTypeOK
  <2>2. Limit - 1 + n = Limit + n - 1
    BY <2>1
  <2>3. Cardinality(Ladders(Limit - 1, n)) = most
    BY <2>1, <2>2, LadderCount
  <2>4. NoLater(Standing, Standing)
    BY DEF NoLater
  <2>5. /\ Cardinality(UpTo(Standing)) \in Nat /\ 1 <= Cardinality(UpTo(Standing))
        /\ Cardinality(UpTo(Standing)) <= Cardinality(Ladders(Limit - 1, n))
    BY <2>1, <2>4, UpToGrows
  <2>6. most \in Nat
    BY <2>1, <2>3, LadderCount, FS_CardinalityType
  <2>7. passed <= Cardinality(UpTo(Standing))
    <3>1. rate = Absent => passed = 0
      BY DEF RateTypeOK
    <3> QED BY <2>1, <2>5, <3>1 DEF PassesMoveOn
  <2>8. passed <= most
    <3> HIDE DEF most
    <3> QED BY <2>1, <2>3, <2>5, <2>6, <2>7
  <2> QED BY <2>8 DEF LetThrough
<1> QED BY <1>1, <1>2, <1>3, RateTyping, PTL DEF RateSafety
===============================================================================
