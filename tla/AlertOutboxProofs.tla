------------------------ MODULE AlertOutboxProofs --------------------------
(***************************************************************************)
(* Proofs about AlertOutbox, for any number of keys, dispatchers and       *)
(* producers and any lease, backoff and attempt cap.                       *)
(***************************************************************************)
EXTENDS AlertOutbox, TLAPS

\* The delay mark_alert_failed computes is a natural number of seconds.
LEMMA BackoffType ==
    ASSUME NEW attempt \in Nat, NEW o \in Outcomes
    PROVE  BackoffSeconds(attempt, o) \in Nat
<1>1. o.kind = "rate_limited" => o.retry_after \in Nat
  BY BackoffAssumption DEF Outcomes
<1>2. ShiftLeft(BackoffUnit, Min2(attempt, 6)) \in Nat
  BY BackoffAssumption DEF ShiftLeft, Min2
<1>3. QED
  BY <1>1, <1>2, BackoffAssumption DEF BackoffSeconds, Min2

\* The initial state satisfies the invariant.
LEMMA InitEstablishesIndInv == Init => IndInv
<1> SUFFICES ASSUME Init PROVE IndInv
  OBVIOUS
<1> USE DEF Init, NoRow, NoClaim, NoOutcome, NoToken
<1>1. TypeOK
  BY BoundsAssumption, BackoffAssumption DEF TypeOK, Rows, Pcs, Outcomes
<1>2. ClaimsAreCounted /\ RowsAreConsistent /\ TokensAreUnique /\ OutcomesAreReal
  BY DEF ClaimsAreCounted, RowsAreConsistent, TokensAreUnique, OutcomesAreReal, Busy
<1>3. DeliveriesCapped /\ SentWasDelivered /\ DeadIsJustified
  BY AttemptsAssumption DEF DeliveriesCapped, SentWasDelivered, DeadIsJustified
<1>4. QED
  BY <1>1, <1>2, <1>3 DEF IndInv

\* Every row operation of the outbox yields a well-typed row.
LEMMA RowTypes ==
    ASSUME NEW row \in Rows
    PROVE  /\ Dead(row) \in Rows
           /\ Sent(row) \in Rows
           /\ Claimed(row) \in Rows
           /\ \A n \in Nat, o \in Outcomes : Failed(row, n, o) \in Rows
           /\ Older(row) \in Rows
<1>1. Dead(row) \in Rows /\ Sent(row) \in Rows
  BY DEF Rows, Dead, Sent, NoToken
<1>2. Claimed(row) \in Rows
  BY LeaseAssumption DEF Rows, Claimed, MintToken
<1>3. ASSUME NEW n \in Nat, NEW o \in Outcomes
      PROVE  Failed(row, n, o) \in Rows
  <2>1. BackoffSeconds(n, o) \in Nat
    BY BackoffType
  <2> QED
    BY <1>1, <2>1 DEF Rows, Failed, NoToken
<1>4. Older(row) \in Rows
  <2>1. Less(row.lease) \in Nat /\ Less(row.wait) \in Nat
    BY DEF Rows, Less
  <2> QED
    BY <2>1 DEF Rows, Older
<1> QED
  BY <1>1, <1>2, <1>3, <1>4

\* Every step keeps the variables in their types.
LEMMA TypePreserved ==
    ASSUME TypeOK, [Next]_vars, ClaimsAreCounted
    PROVE  TypeOK'
<1> USE DEF locals, ghosts
<1>1. ASSUME NEW k \in Keys, Produce(k) \/ Withdraw(k) PROVE TypeOK'
  BY <1>1, KeysAssumption DEF TypeOK, Produce, Withdraw
<1>2. ASSUME NEW c \in Claimants, Select(c) PROVE TypeOK'
  <2>1. batch' \in [Claimants -> SUBSET Keys]
    BY <1>2 DEF TypeOK, Select, DueKeys
  <2> QED
    BY <1>2, <2>1 DEF TypeOK, Select, Pcs
<1>3. ASSUME NEW c \in Claimants, NEW k \in Keys, Offer(c, k) PROVE TypeOK'
  BY <1>3 DEF TypeOK, Offer, Pcs
<1>4. ASSUME NEW c \in Claimants, Terminalize(c) PROVE TypeOK'
  <2>1. PICK k \in batch[c] : key' = [key EXCEPT ![c] = k] /\ alerts' = IF Exhausted(alerts[k])
                     THEN [alerts EXCEPT ![k] = Dead(@)]
                     ELSE alerts
    BY <1>4 DEF Terminalize
  <2>2. k \in Keys /\ k \in Nat
    BY KeysAssumption DEF TypeOK
  <2>3. alerts' \in [Keys -> Rows]
    BY <2>1, <2>2, RowTypes DEF TypeOK
  <2> QED
    BY <1>4, <2>1, <2>2, <2>3 DEF TypeOK, Terminalize, Pcs
<1>5. ASSUME NEW c \in Claimants, Leave(c)
      PROVE  /\ pc' \in [Claimants -> Pcs]
             /\ batch' \in [Claimants -> SUBSET Keys]
             /\ key' \in [Claimants -> Nat]
             /\ claim' \in [Claimants -> [token : Nat, attempt : Nat]]
             /\ outcome' \in [Claimants -> Outcomes]
  BY <1>5 DEF TypeOK, Leave, Pcs, NoClaim, NoOutcome, NoToken, Outcomes
<1>6. ASSUME NEW c \in Claimants, Claim(c) PROVE TypeOK'
  <2>1. key[c] \in Keys
    BY <1>6 DEF ClaimsAreCounted, Claim
  <2>2. alerts' \in [Keys -> Rows]
    BY <1>6, <2>1, RowTypes DEF TypeOK, Claim
  <2>3. claim' \in [Claimants -> [token : Nat, attempt : Nat]]
    BY <1>6, <2>1 DEF TypeOK, Rows, Claim, MintToken
  <2> QED
    BY <1>6, <2>2, <2>3 DEF TypeOK, Claim, Pcs
<1>7. ASSUME NEW c \in Claimants, ClaimLost(c) PROVE TypeOK'
  BY <1>7, <1>5 DEF TypeOK, ClaimLost
<1>8. ASSUME NEW c \in Claimants, Send(c) PROVE TypeOK'
  <2>1. key[c] \in Keys /\ claim[c].token \in Nat
    BY <1>8 DEF ClaimsAreCounted, Send, TypeOK
  <2>2. delivered' \in [Keys -> SUBSET Nat] /\ rejected' \subseteq Keys
    BY <1>8, <2>1 DEF TypeOK, Send
  <2>3. outcome' \in [Claimants -> Outcomes]
    BY <1>8 DEF TypeOK, Send
  <2> QED
    BY <1>8, <2>2, <2>3 DEF TypeOK, Send, Pcs
<1>9. ASSUME NEW c \in Claimants, MarkSent(c) \/ MarkFailed(c) PROVE TypeOK'
  <2>1. key[c] \in Keys /\ claim[c].attempt \in Nat /\ outcome[c] \in Outcomes
    BY <1>9 DEF ClaimsAreCounted, MarkSent, MarkFailed, TypeOK
  <2>2. alerts' \in [Keys -> Rows]
    BY <1>9, <2>1, RowTypes DEF TypeOK, MarkSent, MarkFailed
  <2> QED
    BY <1>9, <1>5, <2>2 DEF TypeOK, MarkSent, MarkFailed
<1>10. ASSUME NEW c \in Claimants, Abort(c) PROVE TypeOK'
  BY <1>10, BoundsAssumption DEF TypeOK, Abort, Pcs, NoClaim, NoOutcome, NoToken, Outcomes
<1>11. ASSUME Tick PROVE TypeOK'
  <2>1. alerts' \in [Keys -> Rows]
    BY <1>11, RowTypes DEF TypeOK, Tick
  <2> QED
    BY <1>11, <2>1 DEF TypeOK, Tick
<1>12. CASE UNCHANGED vars
  BY <1>12 DEF TypeOK, vars
<1> QED
  BY <1>1, <1>2, <1>3, <1>4, <1>6, <1>7, <1>8, <1>9, <1>10, <1>11, <1>12 DEF Next, Work


\* What each operation leaves in the columns of a row that carry the proof.
LEMMA RowFields ==
    ASSUME NEW row \in Rows
    PROVE  /\ Dead(row).state = "dead" /\ Sent(row).state = "sent"
           /\ Dead(row).token = NoToken /\ Sent(row).token = NoToken
           /\ Dead(row).lease = 0 /\ Sent(row).lease = 0
           /\ Dead(row).attempt_count = row.attempt_count
           /\ Sent(row).attempt_count = row.attempt_count
           /\ Older(row).state = row.state
           /\ Older(row).token = row.token
           /\ Older(row).attempt_count = row.attempt_count
           /\ Older(row).lease <= row.lease
           /\ Claimed(row).state = "pending"
           /\ Claimed(row).token = row.attempt_count + 1
           /\ Claimed(row).attempt_count = row.attempt_count + 1
  BY DEF Rows, Dead, Sent, Older, Less, Claimed, MintToken, NoToken

LEMMA FailedFields ==
    ASSUME NEW row \in Rows, NEW n \in Nat, NEW o \in Outcomes
    PROVE  /\ Failed(row, n, o).token = NoToken
           /\ Failed(row, n, o).lease = 0
           /\ Failed(row, n, o).attempt_count = row.attempt_count
           /\ Failed(row, n, o).state \in {row.state, "dead"}
           /\ Failed(row, n, o).state = "dead" /\ row.state # "dead" =>
                 o.kind = "permanent" \/ n >= MaxAttempts
  BY RowFields DEF Rows, Failed, NoToken

\* After Leave the claimant holds nothing and the others are as they were.
LEMMA LeaveFacts ==
    ASSUME TypeOK, NEW c \in Claimants, Leave(c)
    PROVE  /\ pc'[c] \in {"idle", "pass"}
           /\ \A d \in Claimants : d # c =>
                /\ pc'[d] = pc[d] /\ key'[d] = key[d]
                /\ claim'[d] = claim[d] /\ outcome'[d] = outcome[d]
  BY DEF TypeOK, Leave


\* Every step preserves the invariant.
LEMMA NextPreservesIndInv ==
    ASSUME IndInv, [Next]_vars
    PROVE  IndInv'
<1> USE DEF locals, ghosts, IndInv
<1>a. TypeOK'
  BY TypePreserved
<1>b. \A k \in Keys : alerts[k] \in Rows
  BY DEF TypeOK
<1>1. ASSUME NEW k \in Keys, Produce(k) \/ Withdraw(k) PROVE IndInv'
  BY <1>1, <1>a DEF Produce, Withdraw, ClaimsAreCounted, RowsAreConsistent,
       TokensAreUnique, OutcomesAreReal, DeliveriesCapped, SentWasDelivered,
       DeadIsJustified, Busy
<1>2. ASSUME NEW c \in Claimants,
             Select(c) \/ \E k \in Keys : Offer(c, k)
      PROVE  IndInv'
  <2>1. /\ UNCHANGED <<alerts, key, claim, outcome, ghosts>>
        /\ pc' = [pc EXCEPT ![c] = "pass"]
    BY <1>2 DEF Select, Offer
  <2>2. \A d \in Claimants : pc'[d] = "pass" \/ pc'[d] = pc[d]
    BY <2>1 DEF TypeOK
  <2>3. (ClaimsAreCounted /\ TokensAreUnique /\ OutcomesAreReal)'
    BY <2>1, <2>2 DEF ClaimsAreCounted, TokensAreUnique, OutcomesAreReal, Busy
  <2>4. (RowsAreConsistent /\ DeliveriesCapped /\ SentWasDelivered /\ DeadIsJustified)'
    BY <2>1 DEF RowsAreConsistent, DeliveriesCapped, SentWasDelivered, DeadIsJustified
  <2> QED
    BY <1>a, <2>3, <2>4
<1>3. ASSUME NEW c \in Claimants, Terminalize(c) PROVE IndInv'
  <2>1. PICK k \in batch[c] :
           /\ key' = [key EXCEPT ![c] = k]
           /\ alerts' = IF Exhausted(alerts[k])
                        THEN [alerts EXCEPT ![k] = Dead(@)]
                        ELSE alerts
    BY <1>3 DEF Terminalize
  <2>2. /\ k \in Keys
        /\ pc' = [pc EXCEPT ![c] = "claim"]
        /\ UNCHANGED <<claim, outcome, ghosts>>
    BY <1>3 DEF TypeOK, Terminalize
  <2>3. \A j \in Keys : /\ alerts'[j].attempt_count = alerts[j].attempt_count
                        /\ alerts'[j] # alerts[j] => /\ j = k
                                                     /\ Exhausted(alerts[k])
                                                     /\ alerts'[j] = Dead(alerts[k])
    BY <1>b, <2>1, <2>2, RowFields DEF TypeOK
  <2>4. ClaimsAreCounted'
    BY <2>1, <2>2, <2>3 DEF ClaimsAreCounted, TypeOK, Busy
  <2>5. (TokensAreUnique /\ OutcomesAreReal)'
    BY <2>1, <2>2 DEF TokensAreUnique, OutcomesAreReal, TypeOK, Busy
  <2>6. RowsAreConsistent'
    BY <1>b, <2>3, <2>2, RowFields DEF RowsAreConsistent
  <2>7. (DeliveriesCapped /\ SentWasDelivered)'
    BY <1>b, <2>2, <2>3, RowFields DEF DeliveriesCapped, SentWasDelivered
  <2>8. DeadIsJustified'
    <3>1. Exhausted(alerts[k]) => alerts[k].attempt_count = MaxAttempts
      BY <1>b, <2>2, AttemptsAssumption DEF Exhausted, DeliveriesCapped, Rows
    <3> QED
      BY <1>b, <2>2, <2>3, <3>1, RowFields DEF DeadIsJustified
  <2> QED
    BY <1>a, <2>4, <2>5, <2>6, <2>7, <2>8
<1>4. ASSUME NEW c \in Claimants, Claim(c) PROVE IndInv'
  <2> DEFINE k == key[c]
             n == alerts[k].attempt_count
  <2>1. /\ k \in Keys /\ n \in Nat
        /\ Claimable(alerts[k])
        /\ UNCHANGED <<key, outcome, ghosts>>
    BY <1>4, <1>b DEF ClaimsAreCounted, Claim, Rows
  <2>2. /\ alerts'[k] = Claimed(alerts[k])
        /\ \A j \in Keys : j # k => alerts'[j] = alerts[j]
    BY <1>4, <2>1 DEF Claim, TypeOK
  <2>3. /\ alerts'[k].state = "pending"
        /\ alerts'[k].attempt_count = n + 1
        /\ alerts'[k].token = n + 1
    BY <1>b, <2>1, <2>2, RowFields
  <2>4. /\ pc'[c] = "send" /\ claim'[c] = [token |-> n + 1, attempt |-> n + 1]
        /\ \A d \in Claimants : d # c => pc'[d] = pc[d] /\ claim'[d] = claim[d]
    BY <1>4 DEF Claim, TypeOK, MintToken
  <2>5. ClaimsAreCounted'
    <3>1. ASSUME NEW d \in Claimants, d # c, Busy(d)'
          PROVE  claim'[d].token = claim'[d].attempt
                   /\ claim'[d].token \in 1..alerts'[key'[d]].attempt_count
      <4>1. /\ Busy(d) /\ key[d] \in Keys /\ key'[d] = key[d]
            /\ claim[d].token = claim[d].attempt
            /\ claim[d].token \in 1..alerts[key[d]].attempt_count
        BY <3>1, <2>1, <2>4 DEF ClaimsAreCounted, Busy
      <4>2. alerts'[key[d]].attempt_count >= alerts[key[d]].attempt_count
              /\ alerts'[key[d]].attempt_count \in Nat
        BY <1>b, <2>1, <2>2, <2>3, <4>1 DEF Rows
      <4> QED
        BY <1>b, <2>4, <3>1, <4>1, <4>2 DEF Rows
    <3>2. claim'[c].token = claim'[c].attempt
            /\ claim'[c].token \in 1..alerts'[key'[c]].attempt_count
      BY <2>1, <2>3, <2>4
    <3> QED
      BY <2>1, <2>4, <3>1, <3>2 DEF ClaimsAreCounted, Busy
  <2>6. TokensAreUnique'
    <3>1. ASSUME NEW d \in Claimants, d # c, Busy(d)', key'[d] = k
          PROVE  claim'[d].token # n + 1
      <4>1. claim[d].token \in 1..n
        BY <2>1, <2>4, <3>1 DEF ClaimsAreCounted, Busy
      <4> QED
        BY <2>1, <2>4, <3>1, <4>1
    <3> QED
      BY <2>1, <2>4, <3>1 DEF TokensAreUnique, Busy
  <2>7. RowsAreConsistent'
    BY <2>1, <2>2, <2>3 DEF RowsAreConsistent, NoToken
  <2>8. OutcomesAreReal'
    BY <2>1, <2>4 DEF OutcomesAreReal
  <2>9. DeliveriesCapped'
    <3>1. n + 1 <= MaxAttempts
      BY <2>1, AttemptsAssumption DEF Claimable, RowsAreConsistent
    <3> QED
      BY <1>b, <2>1, <2>2, <2>3, <3>1 DEF DeliveriesCapped, Rows
  <2>10. (SentWasDelivered /\ DeadIsJustified)'
    BY <2>1, <2>2, <2>3 DEF SentWasDelivered, DeadIsJustified
  <2> QED
    BY <1>a, <2>5, <2>6, <2>7, <2>8, <2>9, <2>10
<1>5. ASSUME NEW c \in Claimants, ClaimLost(c) PROVE IndInv'
  <2>1. Leave(c) /\ UNCHANGED <<alerts, ghosts>>
    BY <1>5 DEF ClaimLost
  <2>2. (RowsAreConsistent /\ DeliveriesCapped /\ SentWasDelivered /\ DeadIsJustified)'
    BY <2>1 DEF RowsAreConsistent, DeliveriesCapped, SentWasDelivered, DeadIsJustified
  <2>3. (ClaimsAreCounted /\ TokensAreUnique /\ OutcomesAreReal)'
    BY <2>1, LeaveFacts DEF ClaimsAreCounted, TokensAreUnique, OutcomesAreReal, Busy
  <2> QED
    BY <1>a, <2>2, <2>3
<1>6. ASSUME NEW c \in Claimants, Send(c) PROVE IndInv'
  <2> DEFINE k == key[c]
  <2>1. PICK o \in Outcomes \ {NoOutcome}, accepted \in BOOLEAN :
          /\ Classified(o, accepted)
          /\ outcome' = [outcome EXCEPT ![c] = o]
          /\ delivered' = IF accepted
                          THEN [delivered EXCEPT ![k] = @ \cup {claim[c].token}]
                          ELSE delivered
          /\ rejected' = IF o.kind = "permanent" THEN rejected \cup {k}
                                                 ELSE rejected
    BY <1>6 DEF Send
  <2>2. /\ pc[c] = "send" /\ k \in Keys
        /\ claim[c].token \in 1..alerts[k].attempt_count
        /\ pc' = [pc EXCEPT ![c] = "mark"]
        /\ UNCHANGED <<alerts, key, claim>>
    BY <1>6 DEF Send, ClaimsAreCounted, Busy
  <2>3. \A j \in Keys : /\ delivered[j] \subseteq delivered'[j]
                        /\ \A t \in delivered'[j] :
                              t \in delivered[j] \/ (j = k /\ t = claim[c].token)
    BY <2>1, <2>2 DEF TypeOK
  <2>4. \A d \in Claimants : Busy(d)' => Busy(d)
    BY <2>2 DEF Busy, TypeOK
  <2>5. (ClaimsAreCounted /\ TokensAreUnique)'
    BY <2>2, <2>4 DEF ClaimsAreCounted, TokensAreUnique, Busy, TypeOK
  <2>6. OutcomesAreReal'
    <3>1. ASSUME NEW d \in Claimants, d # c, pc'[d] = "mark"
          PROVE  /\ outcome'[d].kind = "ok" => delivered'[key'[d]] # {}
                 /\ outcome'[d].kind = "permanent" => key'[d] \in rejected'
      <4>1. /\ pc[d] = "mark" /\ outcome'[d] = outcome[d] /\ key'[d] = key[d]
            /\ key[d] \in Keys
        BY <2>1, <2>2, <3>1 DEF TypeOK, ClaimsAreCounted
      <4> QED
        BY <2>1, <2>3, <4>1 DEF OutcomesAreReal
    <3>2. /\ outcome'[c].kind = "ok" => delivered'[key'[c]] # {}
          /\ outcome'[c].kind = "permanent" => key'[c] \in rejected'
      BY <2>1, <2>2 DEF TypeOK, Classified
    <3> QED
      BY <3>1, <3>2 DEF OutcomesAreReal
  <2>7. RowsAreConsistent'
    BY <2>2 DEF RowsAreConsistent
  <2>8. (DeliveriesCapped /\ SentWasDelivered)'
    BY <2>2, <2>3 DEF DeliveriesCapped, SentWasDelivered
  <2>9. DeadIsJustified'
    BY <2>1, <2>2 DEF DeadIsJustified
  <2> QED
    BY <1>a, <2>5, <2>6, <2>7, <2>8, <2>9
<1>7. ASSUME NEW c \in Claimants, MarkSent(c) \/ MarkFailed(c) PROVE IndInv'
  <2> DEFINE k == key[c]
             n == claim[c].attempt
             o == outcome[c]
  <2>1. /\ pc[c] = "mark" /\ k \in Keys /\ n \in Nat /\ o \in Outcomes
        /\ n = claim[c].token /\ n # NoToken
        /\ Leave(c) /\ UNCHANGED ghosts
    BY <1>7 DEF MarkSent, MarkFailed, ClaimsAreCounted, Busy, TypeOK, NoToken
  <2>2. \A j \in Keys : alerts'[j] # alerts[j] =>
           /\ j = k /\ Fenced(c)
           /\ \/ o.kind = "ok" /\ alerts'[k] = Sent(alerts[k])
              \/ o.kind # "ok" /\ alerts'[k] = Failed(alerts[k], n, o)
    BY <1>7, <2>1 DEF MarkSent, MarkFailed, TypeOK
  <2>3. \A j \in Keys : /\ alerts'[j].attempt_count = alerts[j].attempt_count
                        /\ alerts'[j] # alerts[j] => /\ alerts[j].state = "pending"
                                                     /\ alerts'[j].token = NoToken
                                                     /\ alerts'[j].lease = 0
                                                     /\ alerts'[j].state # "absent"
    BY <1>b, <2>1, <2>2, RowFields, FailedFields DEF Fenced
  <2>4. ClaimsAreCounted'
    BY <2>1, <2>3, LeaveFacts DEF ClaimsAreCounted, Busy
  <2>5. (TokensAreUnique /\ OutcomesAreReal)'
    BY <2>1, LeaveFacts DEF TokensAreUnique, OutcomesAreReal, Busy
  <2>6. RowsAreConsistent'
    BY <2>3 DEF RowsAreConsistent
  <2>7. DeliveriesCapped'
    BY <2>1, <2>3 DEF DeliveriesCapped
  <2>8. SentWasDelivered'
    <3>1. \A j \in Keys : alerts'[j] # alerts[j] /\ alerts'[j].state = "sent" => o.kind = "ok"
      BY <1>b, <2>1, <2>2, <2>3, FailedFields
    <3> QED
      BY <2>1, <2>2, <3>1 DEF SentWasDelivered, OutcomesAreReal
  <2>9. DeadIsJustified'
    <3>1. ASSUME NEW j \in Keys, alerts'[j] # alerts[j], alerts'[j].state = "dead"
          PROVE  alerts'[j].attempt_count = MaxAttempts \/ j \in rejected
      <4>1. j = k /\ Fenced(c) /\ o.kind # "ok" /\ alerts'[j] = Failed(alerts[k], n, o)
        BY <1>b, <2>1, <2>2, <3>1, RowFields
      <4>2. o.kind = "permanent" \/ n >= MaxAttempts
        BY <1>b, <2>1, <2>3, <3>1, <4>1, FailedFields
      <4>3. n = alerts[k].attempt_count
        BY <2>1, <4>1 DEF Fenced, RowsAreConsistent
      <4>4. alerts[k].attempt_count <= MaxAttempts
        BY <2>1 DEF DeliveriesCapped
      <4> QED
        BY <2>1, <2>3, <4>1, <4>2, <4>3, <4>4, AttemptsAssumption DEF OutcomesAreReal
    <3> QED
      BY <2>1, <3>1 DEF DeadIsJustified
  <2> QED
    BY <1>a, <2>4, <2>5, <2>6, <2>7, <2>8, <2>9
<1>8. ASSUME NEW c \in Claimants, Abort(c) PROVE IndInv'
  <2>1. /\ UNCHANGED <<alerts, delivered, rejected>>
        /\ pc'[c] = "idle"
        /\ \A d \in Claimants : d # c =>
             /\ pc'[d] = pc[d] /\ key'[d] = key[d]
             /\ claim'[d] = claim[d] /\ outcome'[d] = outcome[d]
    BY <1>8 DEF Abort, TypeOK
  <2>2. (ClaimsAreCounted /\ TokensAreUnique /\ OutcomesAreReal)'
    BY <2>1 DEF ClaimsAreCounted, TokensAreUnique, OutcomesAreReal, Busy
  <2>3. (RowsAreConsistent /\ DeliveriesCapped /\ SentWasDelivered /\ DeadIsJustified)'
    BY <2>1 DEF RowsAreConsistent, DeliveriesCapped, SentWasDelivered, DeadIsJustified
  <2> QED
    BY <1>a, <2>2, <2>3
<1>9. ASSUME Tick PROVE IndInv'
  <2>1. /\ UNCHANGED <<pc, locals, ghosts>>
        /\ \A k \in Keys : alerts'[k] = Older(alerts[k])
    BY <1>9 DEF Tick
  <2>2. \A k \in Keys : /\ alerts'[k].state = alerts[k].state
                        /\ alerts'[k].token = alerts[k].token
                        /\ alerts'[k].attempt_count = alerts[k].attempt_count
                        /\ alerts'[k].lease > 0 => alerts[k].lease > 0
    BY <1>b, <1>a, <2>1, RowFields DEF Rows, TypeOK
  <2>3. (ClaimsAreCounted /\ TokensAreUnique /\ OutcomesAreReal)'
    BY <2>1, <2>2 DEF ClaimsAreCounted, TokensAreUnique, OutcomesAreReal, Busy
  <2>4. (RowsAreConsistent /\ DeliveriesCapped /\ SentWasDelivered /\ DeadIsJustified)'
    BY <2>1, <2>2 DEF RowsAreConsistent, DeliveriesCapped, SentWasDelivered, DeadIsJustified
  <2> QED
    BY <1>a, <2>3, <2>4
<1>10. CASE UNCHANGED vars
  BY <1>10, <1>a DEF vars, ClaimsAreCounted, RowsAreConsistent, TokensAreUnique,
       OutcomesAreReal, DeliveriesCapped, SentWasDelivered, DeadIsJustified, Busy
<1> QED
  BY <1>1, <1>2, <1>3, <1>4, <1>5, <1>6, <1>7, <1>8, <1>9, <1>10 DEF Next, Work

\* The invariant holds in every reachable state.
THEOREM Invariance == Spec => []IndInv
<1>1. Init => IndInv
  BY InitEstablishesIndInv
<1>2. IndInv /\ [Next]_vars => IndInv'
  BY NextPreservesIndInv
<1> QED
  BY <1>1, <1>2, PTL DEF Spec

\* The outbox keeps its variables in their types: in particular no completion
\* writes a state outside the alerts table's vocabulary.
THEOREM TypeCorrect == Spec => []TypeOK
<1>1. IndInv => TypeOK
  BY DEF IndInv
<1> QED
  BY <1>1, Invariance, PTL

\* At most one claimant holds the token that is on a row.
THEOREM ExclusiveClaims == Spec => []OneHolder
<1>1. IndInv => OneHolder
  BY DEF IndInv, TokensAreUnique, OneHolder, Holds
<1> QED
  BY <1>1, Invariance, PTL

\* No alert is delivered more often than the attempt cap allows, whatever the
\* number of processes and crashes.
THEOREM CappedDeliveries == Spec => []DeliveriesCapped
<1>1. IndInv => DeliveriesCapped
  BY DEF IndInv
<1> QED
  BY <1>1, Invariance, PTL

\* The final states are earned: sent by a delivery, dead by a refusal or by
\* the last attempt.
THEOREM EarnedOutcomes == Spec => [](SentWasDelivered /\ DeadIsJustified)
<1>1. IndInv => SentWasDelivered /\ DeadIsJustified
  BY DEF IndInv
<1> QED
  BY <1>1, Invariance, PTL

\* A token that a running lease protects leaves its row only by the completion
\* of the claimant that holds it.
LEMMA LiveClaimStep ==
    ASSUME IndInv, [Next]_vars, NEW k \in Keys,
           alerts[k].lease > 0, alerts'[k].token # alerts[k].token
    PROVE  \E c \in Claimants : Holds(c, k) /\ pc[c] = "mark" /\ pc'[c] # "mark"
<1> USE DEF locals, ghosts, IndInv
<1>a. \A j \in Keys : alerts[j] \in Rows
  BY DEF TypeOK
<1>b. alerts[k].token # NoToken /\ ~Unclaimed(alerts[k])
  BY <1>a DEF RowsAreConsistent, Unclaimed, Rows
<1>1. ASSUME NEW c \in Claimants, Terminalize(c) PROVE FALSE
  <2>1. PICK j \in batch[c] : alerts' = IF Exhausted(alerts[j])
                                        THEN [alerts EXCEPT ![j] = Dead(@)]
                                        ELSE alerts
    BY <1>1 DEF Terminalize
  <2>2. j \in Keys
    BY DEF TypeOK
  <2> QED
    BY <1>b, <2>1, <2>2 DEF TypeOK, Exhausted
<1>2. ASSUME NEW c \in Claimants, Claim(c) PROVE FALSE
  <2>1. key[c] \in Keys /\ alerts[k].state = "pending"
    BY <1>2, <1>b DEF Claim, ClaimsAreCounted, RowsAreConsistent
  <2> QED
    BY <1>2, <1>b, <2>1 DEF Claim, Claimable, TypeOK
<1>3. ASSUME NEW c \in Claimants, MarkSent(c) \/ MarkFailed(c)
      PROVE  Holds(c, k) /\ pc[c] = "mark" /\ pc'[c] # "mark"
  <2>1. key[c] \in Keys /\ pc[c] = "mark" /\ Leave(c)
    BY <1>3 DEF MarkSent, MarkFailed, ClaimsAreCounted
  <2>2. key[c] = k /\ Fenced(c)
    BY <1>3, <2>1 DEF MarkSent, MarkFailed, TypeOK
  <2> QED
    BY <2>1, <2>2, LeaveFacts DEF Fenced, Holds, Busy
<1>4. ASSUME Tick PROVE FALSE
  BY <1>4, <1>a, RowFields DEF Tick
<1>5. ASSUME UNCHANGED alerts PROVE FALSE
  BY <1>5
<1> QED
  BY <1>1, <1>2, <1>3, <1>4, <1>5 DEF Next, Work, Produce, Withdraw, Select,
       Offer, ClaimLost, Send, Abort, vars

\* While a lease runs, only its holder's own completion ends the claim.
THEOREM LiveClaims == Spec => LiveClaimEndsByItsHolder
<1>1. IndInv /\ [Next]_vars =>
        [\A k \in Keys :
           alerts[k].lease > 0 /\ alerts'[k].token # alerts[k].token =>
             \E c \in Claimants :
                Holds(c, k) /\ pc[c] = "mark" /\ pc'[c] # "mark"]_vars
  BY LiveClaimStep
<1> QED
  BY <1>1, Invariance, PTL DEF Spec, LiveClaimEndsByItsHolder

\* Every step of the outbox is a step of the delivery contract or leaves what
\* the contract sees unchanged.
LEMMA StepRefines ==
    ASSUME IndInv, IndInv', [Next]_vars
    PROVE  [Delivery!Next]_(Delivery!vars)
<1> USE DEF locals, ghosts, IndInv
<1> DEFINE Same == UNCHANGED <<AbstractStatus, AbstractTries, delivered, rejected>>
<1>a. \A j \in Keys : alerts[j] \in Rows
  BY DEF TypeOK
<1>b. Same => [Delivery!Next]_(Delivery!vars)
  BY DEF Delivery!vars
<1>c. ASSUME NEW k \in Keys, UNCHANGED ghosts,
             \A j \in Keys : j # k => alerts'[j] = alerts[j],
             alerts'[k].attempt_count = alerts[k].attempt_count,
             alerts[k].state = "pending",
             \/ alerts'[k].state = "pending"
             \/ alerts'[k].state = "sent" /\ delivered[k] # {}
             \/ /\ alerts'[k].state = "dead"
                /\ alerts[k].attempt_count = MaxAttempts \/ k \in rejected
      PROVE  [Delivery!Next]_(Delivery!vars)
  <2>1. UNCHANGED AbstractTries
    BY <1>c DEF AbstractTries
  <2>2. CASE alerts'[k].state = "pending"
    BY <1>b, <1>c, <2>1, <2>2 DEF AbstractStatus
  <2>3. CASE alerts'[k].state \in {"sent", "dead"}
    <3>1. AbstractStatus' = [AbstractStatus EXCEPT ![k] = alerts'[k].state]
      BY <1>c, <2>3 DEF AbstractStatus
    <3>2. AbstractStatus[k] = "open" /\ AbstractTries[k] = alerts[k].attempt_count
      BY <1>c DEF AbstractStatus, AbstractTries
    <3>3. Delivery!Settle(k) \/ Delivery!GiveUp(k)
      BY <1>c, <2>1, <2>3, <3>1, <3>2 DEF Delivery!Settle, Delivery!GiveUp
    <3> QED
      BY <3>3 DEF Delivery!Next
  <2> QED
    BY <1>c, <2>2, <2>3
<1>1. ASSUME NEW c \in Claimants, Terminalize(c)
      PROVE  [Delivery!Next]_(Delivery!vars)
  <2>1. PICK k \in batch[c] : alerts' = IF Exhausted(alerts[k])
                                        THEN [alerts EXCEPT ![k] = Dead(@)]
                                        ELSE alerts
    BY <1>1 DEF Terminalize
  <2>2. k \in Keys /\ UNCHANGED ghosts
    BY <1>1 DEF TypeOK, Terminalize
  <2>3. CASE Exhausted(alerts[k])
    <3>1. alerts'[k] = Dead(alerts[k]) /\ \A j \in Keys : j # k => alerts'[j] = alerts[j]
      BY <2>1, <2>2, <2>3 DEF TypeOK
    <3>2. alerts[k].state = "pending" /\ alerts[k].attempt_count = MaxAttempts
      BY <1>a, <2>2, <2>3, AttemptsAssumption DEF Exhausted, DeliveriesCapped, Rows
    <3> QED
      BY <1>a, <1>c, <2>2, <3>1, <3>2, RowFields
  <2>4. CASE ~Exhausted(alerts[k])
    BY <1>b, <2>1, <2>2, <2>4 DEF AbstractStatus, AbstractTries
  <2> QED
    BY <2>3, <2>4
<1>2. ASSUME NEW c \in Claimants, Claim(c) PROVE [Delivery!Next]_(Delivery!vars)
  <2> DEFINE k == key[c]
  <2>1. /\ k \in Keys /\ UNCHANGED ghosts
        /\ alerts'[k] = Claimed(alerts[k])
        /\ \A j \in Keys : j # k => alerts'[j] = alerts[j]
        /\ alerts[k].state \in {"absent", "pending"}
    BY <1>2 DEF Claim, ClaimsAreCounted, TypeOK, Claimable
  <2>2. /\ alerts'[k].state = "pending"
        /\ alerts'[k].attempt_count = alerts[k].attempt_count + 1
    BY <1>a, <2>1, RowFields
  <2>3. UNCHANGED AbstractStatus /\ AbstractStatus[k] = "open"
    BY <2>1, <2>2 DEF AbstractStatus
  <2>4. AbstractTries' = [AbstractTries EXCEPT ![k] = @ + 1]
    BY <2>1, <2>2 DEF AbstractTries
  <2>5. AbstractTries[k] < MaxAttempts
    BY <1>2, <2>1, AttemptsAssumption DEF Claim, Claimable, RowsAreConsistent, AbstractTries
  <2>6. Delivery!Try(k)
    BY <2>1, <2>3, <2>4, <2>5 DEF Delivery!Try
  <2> QED
    BY <2>1, <2>6 DEF Delivery!Next
<1>3. ASSUME NEW c \in Claimants, Send(c) PROVE [Delivery!Next]_(Delivery!vars)
  <2> DEFINE k == key[c]
  <2>1. /\ k \in Keys /\ UNCHANGED alerts
        /\ claim[c].token \in 1..alerts[k].attempt_count
        /\ alerts[k].attempt_count \in Nat
    BY <1>3, <1>a DEF Send, ClaimsAreCounted, Busy, Rows
  <2>2. /\ UNCHANGED <<AbstractStatus, AbstractTries>>
        /\ AbstractTries[k] = alerts[k].attempt_count
    BY <2>1 DEF AbstractStatus, AbstractTries
  <2>3. PICK o \in Outcomes \ {NoOutcome}, accepted \in BOOLEAN :
          /\ Classified(o, accepted)
          /\ delivered' = IF accepted
                          THEN [delivered EXCEPT ![k] = @ \cup {claim[c].token}]
                          ELSE delivered
          /\ rejected' = IF o.kind = "permanent" THEN rejected \cup {k}
                                                 ELSE rejected
    BY <1>3 DEF Send
  <2>4. CASE accepted
    <3>1. UNCHANGED rejected
      BY <2>3, <2>4 DEF Classified
    <3>2. Delivery!Accept(k)
      BY <2>1, <2>2, <2>3, <2>4, <3>1 DEF Delivery!Accept
    <3> QED
      BY <2>1, <3>2 DEF Delivery!Next
  <2>5. CASE ~accepted /\ o.kind = "permanent"
    <3>1. Delivery!Refuse(k)
      BY <2>1, <2>2, <2>3, <2>5 DEF Delivery!Refuse
    <3> QED
      BY <2>1, <3>1 DEF Delivery!Next
  <2>6. CASE ~accepted /\ o.kind # "permanent"
    BY <1>b, <2>2, <2>3, <2>6
  <2> QED
    BY <2>4, <2>5, <2>6
<1>4. ASSUME NEW c \in Claimants, MarkSent(c) \/ MarkFailed(c)
      PROVE  [Delivery!Next]_(Delivery!vars)
  <2> DEFINE k == key[c]
             o == outcome[c]
  <2>1. /\ pc[c] = "mark" /\ k \in Keys /\ UNCHANGED ghosts
        /\ claim[c].attempt \in Nat /\ o \in Outcomes
    BY <1>4 DEF MarkSent, MarkFailed, ClaimsAreCounted, TypeOK
  <2>2. CASE UNCHANGED alerts
    BY <1>b, <2>1, <2>2 DEF AbstractStatus, AbstractTries
  <2>3. CASE alerts' # alerts
    <3>1. /\ Fenced(c) /\ \A j \in Keys : j # k => alerts'[j] = alerts[j]
          /\ \/ o.kind = "ok" /\ alerts'[k] = Sent(alerts[k])
             \/ alerts'[k] = Failed(alerts[k], claim[c].attempt, o)
      BY <1>4, <2>1, <2>3 DEF MarkSent, MarkFailed, TypeOK
    <3>2. /\ alerts[k].state = "pending"
          /\ alerts'[k].attempt_count = alerts[k].attempt_count
      BY <1>a, <2>1, <3>1, RowFields, FailedFields DEF Fenced
    <3>3. alerts'[k].state \in {"pending", "sent", "dead"}
      BY <1>a, <2>1, <3>1, <3>2, RowFields, FailedFields
    <3>4. alerts'[k].state = "sent" => delivered[k] # {}
      BY <1>a, <2>1, <3>1, <3>2, FailedFields DEF OutcomesAreReal
    <3>5. alerts'[k].state = "dead" =>
             alerts[k].attempt_count = MaxAttempts \/ k \in rejected
      BY <2>1, <3>2 DEF DeadIsJustified
    <3> QED
      BY <1>c, <2>1, <3>1, <3>2, <3>3, <3>4, <3>5
  <2> QED
    BY <2>2, <2>3
<1>5. ASSUME Tick PROVE [Delivery!Next]_(Delivery!vars)
  <2>1. \A k \in Keys : /\ alerts'[k].state = alerts[k].state
                        /\ alerts'[k].attempt_count = alerts[k].attempt_count
    BY <1>5, <1>a, RowFields DEF Tick
  <2> QED
    BY <1>b, <1>5, <2>1 DEF Tick, AbstractStatus, AbstractTries
<1>6. ASSUME UNCHANGED <<alerts, delivered, rejected>>
      PROVE  [Delivery!Next]_(Delivery!vars)
  BY <1>b, <1>6 DEF AbstractStatus, AbstractTries
<1> QED
  BY <1>1, <1>2, <1>3, <1>4, <1>5, <1>6 DEF Next, Work, Produce, Withdraw, Select,
       Offer, ClaimLost, Abort, vars

\* The outbox implements the delivery contract.
THEOREM Refinement == Spec => ImplementsDelivery
<1>1. Init => Delivery!Init
  BY DEF Init, Delivery!Init, AbstractStatus, AbstractTries, NoRow
<1>2. IndInv /\ IndInv' /\ [Next]_vars => [Delivery!Next]_(Delivery!vars)
  BY StepRefines
<1> QED
  BY <1>1, <1>2, Invariance, PTL DEF Spec, ImplementsDelivery, Delivery!Spec

=============================================================================
