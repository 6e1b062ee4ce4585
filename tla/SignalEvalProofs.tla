------------------------- MODULE SignalEvalProofs --------------------------
(***************************************************************************)
(* Proofs about SignalEval, for any tokens, workers, lease and cadence.    *)
(***************************************************************************)
EXTENDS SignalEval, TLAPS

\* The initial state satisfies the invariant.
LEMMA InitEstablishesIndInv == Init => IndInv
<1> SUFFICES ASSUME Init PROVE IndInv
  OBVIOUS
<1> USE DEF Init, NoClaim, Working
<1>1. TypeOK
  BY TimesAssumption, LimitsAssumption DEF TypeOK, Pcs
<1>2. WorkIsTracked /\ IdsAreUnique /\ NoLeaseWithoutClaim /\ WriterOwnsItsClaim
  BY DEF WorkIsTracked, IdsAreUnique, NoLeaseWithoutClaim, WriterOwnsItsClaim
<1> QED
  BY <1>1, <1>2 DEF IndInv

\* After Leave the worker is outside an evaluation and the others are as they
\* were.
LEMMA LeaveFacts ==
    ASSUME TypeOK, NEW w \in Workers, NEW t, Leave(w, t)
    PROVE  /\ pc'[w] \in {"idle", "pass"} /\ mine'[w] = NoId
           /\ batch'[w] = batch[w] \ {t}
           /\ \A v \in Workers : v # w =>
                /\ pc'[v] = pc[v] /\ mine'[v] = mine[v]
                /\ cur'[v] = cur[v] /\ batch'[v] = batch[v]
           /\ pc' \in [Workers -> Pcs] /\ batch' \in [Workers -> SUBSET Tokens]
           /\ cur' \in [Workers -> Nat] /\ valid' \in [Workers -> BOOLEAN]
           /\ mine' \in [Workers -> ClaimIds \cup {NoId}]
  BY DEF TypeOK, Leave, Pcs

\* A release deletes the row of the releasing worker and touches no other.
LEMMA ReleasedFacts ==
    ASSUME TypeOK, WorkIsTracked, NEW w \in Workers, Working(w),
           claims' = [claims EXCEPT ![cur[w]] = Released(@, w)]
    PROVE  /\ claims' \in [Tokens -> [by : ClaimIds \cup {NoId}, ttl : 0..Lease]]
           /\ \A t \in Tokens : claims'[t] # claims[t] =>
                 t = cur[w] /\ claims[t].by = mine[w] /\ claims'[t] = NoClaim
<1>1. cur[w] \in Tokens
  BY DEF WorkIsTracked, TypeOK
<1> QED
  BY <1>1, TimesAssumption DEF TypeOK, Released, NoClaim

\* Every step keeps the variables in their types.
LEMMA TypePreserved ==
    ASSUME TypeOK, WorkIsTracked, [Next]_vars
    PROVE  TypeOK'
<1> USE DEF Goto, Pcs
<1>1. ASSUME NEW t \in Tokens, Retire(t) PROVE TypeOK'
  BY <1>1 DEF TypeOK, Retire
<1>2. ASSUME NEW w \in Workers, Select(w) PROVE TypeOK'
  <2>1. batch' \in [Workers -> SUBSET Tokens]
    BY <1>2 DEF TypeOK, Select, DueTokens
  <2> QED
    BY <1>2, <2>1, TimesAssumption DEF TypeOK, Select
<1>3. ASSUME NEW w \in Workers, Claim(w) PROVE TypeOK'
  <2>1. PICK t \in Tokens, id \in ClaimIds :
          /\ claims' = [claims EXCEPT ![t] = [by |-> id, ttl |-> Lease]]
          /\ cur' = [cur EXCEPT ![w] = t]
          /\ mine' = [mine EXCEPT ![w] = id]
    BY <1>3 DEF Claim
  <2>2. claims' \in [Tokens -> [by : ClaimIds \cup {NoId}, ttl : 0..Lease]]
    BY <2>1, TimesAssumption DEF TypeOK
  <2> QED
    BY <1>3, <2>1, <2>2, TokensAssumption DEF TypeOK, Claim
<1>4. ASSUME NEW w \in Workers, Skip(w) PROVE TypeOK'
  <2>1. PICK t \in Tokens : Leave(w, t)
    BY <1>4 DEF Skip
  <2> QED
    BY <1>4, <2>1, LeaveFacts DEF TypeOK, Skip
<1>5. ASSUME NEW w \in Workers, ReadFacts(w) \/ Begin(w) \/ Verify(w) PROVE TypeOK'
  BY <1>5 DEF TypeOK, ReadFacts, Begin, Verify
<1>6. ASSUME NEW w \in Workers, Commit(w) PROVE TypeOK'
  <2>1. Working(w) /\ cur[w] \in Tokens
    BY <1>6 DEF Commit, Working, WorkIsTracked, TypeOK
  <2>2. age' \in [Tokens -> 0..Reeval]
    BY <1>6, <2>1 DEF TypeOK, Commit, Min2
  <2> QED
    BY <1>6, <2>1, <2>2, LeaveFacts, ReleasedFacts DEF TypeOK, Commit
<1>7. ASSUME NEW w \in Workers, Release(w) PROVE TypeOK'
  <2>1. Working(w)
    BY <1>7 DEF Release, Working
  <2> QED
    BY <1>7, <2>1, LeaveFacts, ReleasedFacts DEF TypeOK, Release
<1>8. ASSUME NEW w \in Workers, Fail(w) \/ LoseRelease(w) \/ Abort(w) PROVE TypeOK'
  <2>1. faults' \in 0..MaxFaults
    BY <1>8, LimitsAssumption DEF TypeOK, Fail, LoseRelease, Abort, Fault
  <2>2. CASE Fail(w)
    BY <2>1, <2>2 DEF TypeOK, Fail
  <2>3. CASE LoseRelease(w)
    BY <2>1, <2>3, LeaveFacts DEF TypeOK, LoseRelease
  <2>4. CASE Abort(w)
    BY <2>1, <2>4 DEF TypeOK, Abort
  <2> QED
    BY <1>8, <2>2, <2>3, <2>4
<1>9. ASSUME Tick PROVE TypeOK'
  <2>1. faults' \in 0..MaxFaults
    BY <1>9, LimitsAssumption DEF TypeOK, Tick, Fault
  <2>2. claims' \in [Tokens -> [by : ClaimIds \cup {NoId}, ttl : 0..Lease]]
    <3>1. \A t \in Tokens : claims[t] \in [by : ClaimIds \cup {NoId}, ttl : 0..Lease]
      BY DEF TypeOK
    <3>2. \A n \in 0..Lease : Less(n) \in 0..Lease
      BY TimesAssumption DEF Less
    <3> QED
      BY <1>9, <3>1, <3>2 DEF Tick
  <2>3. age' \in [Tokens -> 0..Reeval] /\ passAge' \in [Workers -> 0..Reeval]
    BY <1>9, TimesAssumption DEF TypeOK, Tick, Min2
  <2> QED
    BY <1>9, <2>1, <2>2, <2>3 DEF TypeOK, Tick
<1>10. CASE UNCHANGED vars
  BY <1>10 DEF TypeOK, vars
<1> QED
  BY <1>1, <1>2, <1>3, <1>4, <1>5, <1>6, <1>7, <1>8, <1>9, <1>10 DEF Next, Work

\* A step after which worker w is outside an evaluation, the others are as
\* they were, and only w's own claim may have gone, preserves the invariant.
LEMMA LeavingPreserves ==
    ASSUME IndInv, TypeOK', NEW w \in Workers,
           pc'[w] \in {"idle", "pass"}, mine'[w] = NoId,
           \A v \in Workers : v # w =>
                /\ pc'[v] = pc[v] /\ mine'[v] = mine[v]
                /\ cur'[v] = cur[v] /\ batch'[v] = batch[v],
           \A t \in Tokens : claims'[t] # claims[t] =>
                 mine[w] # NoId /\ claims[t].by = mine[w] /\ claims'[t] = NoClaim
    PROVE  IndInv'
<1> USE DEF IndInv, Working
<1>1. WorkIsTracked'
  BY DEF WorkIsTracked
<1>2. IdsAreUnique'
  BY DEF IdsAreUnique, NoClaim
<1>3. NoLeaseWithoutClaim'
  BY DEF NoLeaseWithoutClaim, NoClaim
<1>4. WriterOwnsItsClaim'
  <2> SUFFICES ASSUME NEW v \in Workers, pc'[v] = "write"
               PROVE  claims'[cur'[v]].by = mine'[v]
    BY DEF WriterOwnsItsClaim, Owns
  <2>1. v # w /\ pc[v] = "write" /\ cur'[v] = cur[v] /\ mine'[v] = mine[v]
    OBVIOUS
  <2>2. cur[v] \in Tokens /\ claims[cur[v]].by = mine[v] /\ mine[v] # NoId
    BY <2>1, IdsAssumption DEF WorkIsTracked, TypeOK, WriterOwnsItsClaim, Owns, NoId
  <2>3. claims'[cur[v]] = claims[cur[v]]
    BY <2>1, <2>2 DEF IdsAreUnique
  <2> QED
    BY <2>1, <2>2, <2>3
<1> QED
  BY <1>1, <1>2, <1>3, <1>4

\* A step that moves worker w on within its evaluation, and into the write
\* only as the owner of its claim, preserves the invariant.
LEMMA MovingPreserves ==
    ASSUME IndInv, TypeOK', NEW w \in Workers, Working(w), Working(w)',
           UNCHANGED <<claims, batch, cur, mine>>,
           \A v \in Workers : v # w => pc'[v] = pc[v],
           pc'[w] = "write" => Owns(w)
    PROVE  IndInv'
<1> USE DEF IndInv, Working
<1>1. WorkIsTracked'
  BY DEF WorkIsTracked
<1>2. IdsAreUnique' /\ NoLeaseWithoutClaim'
  BY DEF IdsAreUnique, NoLeaseWithoutClaim
<1>3. WriterOwnsItsClaim'
  BY DEF WriterOwnsItsClaim, Owns
<1> QED
  BY <1>1, <1>2, <1>3

\* Every step preserves the invariant.
LEMMA NextPreservesIndInv ==
    ASSUME IndInv, [Next]_vars
    PROVE  IndInv'
<1> USE DEF IndInv, Goto
<1>a. TypeOK'
  BY TypePreserved
<1>1. ASSUME NEW t \in Tokens, Retire(t) PROVE IndInv'
  BY <1>1, <1>a DEF Retire, WorkIsTracked, IdsAreUnique, NoLeaseWithoutClaim,
       WriterOwnsItsClaim, Working, Owns
<1>2. ASSUME NEW w \in Workers, Select(w) PROVE IndInv'
  <2>1. mine[w] = NoId
    BY <1>2 DEF Select, WorkIsTracked, Working
  <2> QED
    BY <1>2, <1>a, <2>1, LeavingPreserves DEF Select, TypeOK
<1>3. ASSUME NEW w \in Workers, Claim(w) PROVE IndInv'
  <2>1. PICK t \in Tokens, id \in ClaimIds :
          /\ First(w, t) /\ ~Locked(t) /\ Unused(id)
          /\ claims' = [claims EXCEPT ![t] = [by |-> id, ttl |-> Lease]]
          /\ cur' = [cur EXCEPT ![w] = t]
          /\ mine' = [mine EXCEPT ![w] = id]
    BY <1>3 DEF Claim
  <2>2. /\ claims'[t] = [by |-> id, ttl |-> Lease]
        /\ \A u \in Tokens : u # t => claims'[u] = claims[u]
        /\ cur'[w] = t /\ mine'[w] = id /\ pc'[w] = "facts"
        /\ UNCHANGED batch
        /\ \A v \in Workers : v # w =>
             pc'[v] = pc[v] /\ cur'[v] = cur[v] /\ mine'[v] = mine[v]
    BY <1>3, <2>1 DEF Claim, TypeOK
  <2>3. id # NoId
    BY IdsAssumption DEF NoId
  <2>4. WorkIsTracked'
    BY <2>1, <2>2 DEF WorkIsTracked, Working, First
  <2>5. IdsAreUnique'
    BY <2>1, <2>2, <2>3 DEF IdsAreUnique, Unused
  <2>6. NoLeaseWithoutClaim'
    BY <2>2, <2>3 DEF NoLeaseWithoutClaim
  <2>7. WriterOwnsItsClaim'
    <3> SUFFICES ASSUME NEW v \in Workers, pc'[v] = "write"
                 PROVE  claims'[cur'[v]].by = mine'[v]
      BY DEF WriterOwnsItsClaim, Owns
    <3>1. v # w /\ pc[v] = "write" /\ cur[v] \in Tokens
      BY <2>2 DEF WorkIsTracked, Working, TypeOK
    <3>2. cur[v] # t
      BY <2>1, <3>1 DEF Locked
    <3> QED
      BY <2>2, <3>1, <3>2 DEF WriterOwnsItsClaim, Owns
  <2> QED
    BY <1>a, <2>4, <2>5, <2>6, <2>7
<1>4. ASSUME NEW w \in Workers, Skip(w) PROVE IndInv'
  <2>1. PICK t \in Tokens : Leave(w, t)
    BY <1>4 DEF Skip
  <2> QED
    BY <1>4, <1>a, <2>1, LeaveFacts, LeavingPreserves DEF Skip
<1>5. ASSUME NEW w \in Workers, ReadFacts(w) \/ Begin(w) \/ Verify(w) PROVE IndInv'
  <2>1. Working(w) /\ Working(w)' /\ UNCHANGED <<claims, batch, cur, mine>>
    BY <1>5 DEF ReadFacts, Begin, Verify, Working, TypeOK
  <2>2. (\A v \in Workers : v # w => pc'[v] = pc[v]) /\ (pc'[w] = "write" => Owns(w))
    BY <1>5 DEF ReadFacts, Begin, Verify, Verified, TypeOK
  <2> QED
    BY <1>a, <2>1, <2>2, MovingPreserves
<1>6. ASSUME NEW w \in Workers, Commit(w) \/ Release(w) PROVE IndInv'
  <2>1. /\ Working(w) /\ mine[w] # NoId /\ Leave(w, cur[w])
        /\ claims' = [claims EXCEPT ![cur[w]] = Released(@, w)]
    BY <1>6, IdsAssumption DEF Commit, Release, Working, WorkIsTracked, NoId
  <2> QED
    BY <1>a, <2>1, LeaveFacts, ReleasedFacts, LeavingPreserves
<1>7. ASSUME NEW w \in Workers, Fail(w) PROVE IndInv'
  <2>1. /\ Working(w) /\ Working(w)' /\ UNCHANGED <<claims, batch, cur, mine>>
        /\ pc'[w] = "release" /\ \A v \in Workers : v # w => pc'[v] = pc[v]
    BY <1>7 DEF Fail, Working, TypeOK
  <2> QED
    BY <1>a, <2>1, MovingPreserves
<1>8. ASSUME NEW w \in Workers, LoseRelease(w) \/ Abort(w) PROVE IndInv'
  <2>1. /\ pc'[w] \in {"idle", "pass"} /\ mine'[w] = NoId /\ UNCHANGED claims
        /\ \A v \in Workers : v # w =>
             /\ pc'[v] = pc[v] /\ mine'[v] = mine[v]
             /\ cur'[v] = cur[v] /\ batch'[v] = batch[v]
    BY <1>8, LeaveFacts DEF LoseRelease, Abort, TypeOK
  <2> QED
    BY <1>a, <2>1, LeavingPreserves
<1>9. ASSUME Tick PROVE IndInv'
  <2>1. /\ UNCHANGED <<pc, batch, cur, mine>>
        /\ \A t \in Tokens : /\ claims'[t].by = claims[t].by
                             /\ claims[t].ttl = 0 => claims'[t].ttl = 0
    BY <1>9 DEF Tick, Less, TypeOK
  <2>2. WorkIsTracked' /\ IdsAreUnique' /\ NoLeaseWithoutClaim'
    BY <2>1 DEF WorkIsTracked, IdsAreUnique, NoLeaseWithoutClaim, Working
  <2>3. WriterOwnsItsClaim'
    BY <2>1 DEF WriterOwnsItsClaim, WorkIsTracked, Working, Owns, TypeOK
  <2> QED
    BY <1>a, <2>2, <2>3
<1>10. CASE UNCHANGED vars
  BY <1>10, <1>a DEF vars, WorkIsTracked, IdsAreUnique, NoLeaseWithoutClaim,
       WriterOwnsItsClaim, Working, Owns
<1> QED
  BY <1>1, <1>2, <1>3, <1>4, <1>5, <1>6, <1>7, <1>8, <1>9, <1>10 DEF Next, Work

\* The invariant holds in every reachable state.
THEOREM Invariance == Spec => []IndInv
<1>1. Init => IndInv
  BY InitEstablishesIndInv
<1>2. IndInv /\ [Next]_vars => IndInv'
  BY NextPreservesIndInv
<1> QED
  BY <1>1, <1>2, PTL DEF Spec

\* The evaluation keeps its variables in their types.
THEOREM TypeCorrect == Spec => []TypeOK
<1>1. IndInv => TypeOK
  BY DEF IndInv
<1> QED
  BY <1>1, Invariance, PTL

\* A transaction that writes an evaluation owns the claim of its token until
\* it commits.
THEOREM FencedWrites == Spec => []WriterOwnsItsClaim
<1>1. IndInv => WriterOwnsItsClaim
  BY DEF IndInv
<1> QED
  BY <1>1, Invariance, PTL

\* A claim whose lease runs leaves its row only by a step of its owner.
LEMMA LiveClaimStep ==
    ASSUME IndInv, [Next]_vars, NEW t \in Tokens,
           claims[t].ttl > 0, claims'[t].by # claims[t].by
    PROVE  \E w \in Workers : /\ mine[w] = claims[t].by
                              /\ cur[w] = t
                              /\ pc[w] \in {"write", "release"}
<1> USE DEF IndInv
<1>a. ~Claimable(claims[t])
  BY DEF NoLeaseWithoutClaim, Claimable, TypeOK
<1>1. ASSUME NEW w \in Workers, Claim(w) PROVE FALSE
  <2>1. PICK u \in Tokens, id \in ClaimIds :
          /\ Claimable(claims[u])
          /\ claims' = [claims EXCEPT ![u] = [by |-> id, ttl |-> Lease]]
    BY <1>1 DEF Claim
  <2> QED
    BY <1>a, <2>1 DEF TypeOK
<1>2. ASSUME NEW w \in Workers, Commit(w) \/ Release(w)
      PROVE  mine[w] = claims[t].by /\ cur[w] = t /\ pc[w] \in {"write", "release"}
  <2>1. /\ pc[w] \in {"write", "release"}
        /\ claims' = [claims EXCEPT ![cur[w]] = Released(@, w)]
    BY <1>2 DEF Commit, Release
  <2> QED
    BY <2>1, ReleasedFacts DEF Working
<1>3. ASSUME Tick PROVE FALSE
  BY <1>3 DEF Tick, TypeOK
<1>4. ASSUME UNCHANGED claims PROVE FALSE
  BY <1>4
<1> QED
  BY <1>1, <1>2, <1>3, <1>4 DEF Next, Work, Retire, Select, Skip, ReadFacts, Begin,
       Verify, Fail, LoseRelease, Abort, vars

\* Neither a competing upsert nor a stale release takes a live claim away.
THEOREM LiveClaims == Spec => LiveClaimIsRespected
<1>1. IndInv /\ [Next]_vars =>
        [\A t \in Tokens :
           claims[t].ttl > 0 /\ claims'[t].by # claims[t].by =>
             \E w \in Workers : /\ mine[w] = claims[t].by
                                /\ cur[w] = t
                                /\ pc[w] \in {"write", "release"}]_vars
  BY LiveClaimStep
<1> QED
  BY <1>1, Invariance, PTL DEF Spec, LiveClaimIsRespected

\* With a single worker every token left in its batch stays due.
LEMMA SoloStep ==
    ASSUME \A v, w \in Workers : v = w, IndInv, BatchIsDue, [Next]_vars
    PROVE  BatchIsDue'
<1> USE DEF IndInv, Goto, BatchIsDue
<1>1. ASSUME UNCHANGED age, \A w \in Workers : batch'[w] \subseteq batch[w]
      PROVE  BatchIsDue'
  BY <1>1
<1>2. ASSUME NEW w \in Workers, Select(w) PROVE BatchIsDue'
  <2>1. batch'[w] \subseteq DueTokens /\ UNCHANGED age
    BY <1>2 DEF Select, TypeOK
  <2>2. \A t \in DueTokens : age[t] = Reeval
    <3>1. \A t \in Tokens : age[t] \in 0..Reeval
      BY DEF TypeOK
    <3>2. \A n \in 0..Reeval : n >= Reeval => n = Reeval
      BY TimesAssumption
    <3> QED
      BY <3>1, <3>2 DEF DueTokens, Due
  <2> QED
    BY <2>1, <2>2
<1>3. ASSUME NEW w \in Workers, Commit(w) PROVE BatchIsDue'
  <2>1. /\ batch'[w] = batch[w] \ {cur[w]}
        /\ \A t \in Tokens : t # cur[w] => age'[t] = age[t]
    BY <1>3, LeaveFacts DEF Commit, TypeOK
  <2> QED
    BY <2>1
<1>4. ASSUME NEW w \in Workers, Skip(w) \/ Release(w) \/ LoseRelease(w) \/ Abort(w)
      PROVE  BatchIsDue'
  <2>1. UNCHANGED age /\ batch'[w] \subseteq batch[w]
    BY <1>4, LeaveFacts DEF Skip, Release, LoseRelease, Abort, TypeOK
  <2> QED
    BY <1>1, <2>1
<1>5. ASSUME Tick PROVE BatchIsDue'
  <2>1. UNCHANGED batch /\ \A t \in Tokens : age[t] = Reeval => age'[t] = Reeval
    BY <1>5, TimesAssumption DEF Tick, Min2
  <2> QED
    BY <2>1
<1>6. ASSUME UNCHANGED <<age, batch>> PROVE BatchIsDue'
  BY <1>6
<1> QED
  BY <1>2, <1>3, <1>4, <1>5, <1>6 DEF Next, Work, Retire, Claim, ReadFacts, Begin,
       Verify, Fail, vars

\* A workspace with a single worker process never evaluates a token twice
\* within the cadence, whatever crashes, errors and delays it meets.
THEOREM SoloSpacing ==
    ASSUME \A v, w \in Workers : v = w
    PROVE  Spec => EvaluationsAreSpaced
<1>1. Init => BatchIsDue
  BY DEF Init, BatchIsDue
<1>2. IndInv /\ BatchIsDue /\ [Next]_vars => BatchIsDue'
  BY SoloStep
<1>3. IndInv /\ BatchIsDue => \A w \in Workers : Commit(w) => age[cur[w]] >= Reeval
  BY TimesAssumption DEF IndInv, BatchIsDue, WorkIsTracked, Commit, Working, TypeOK
<1> QED
  BY <1>1, <1>2, <1>3, Invariance, PTL DEF Spec, EvaluationsAreSpaced

=============================================================================
