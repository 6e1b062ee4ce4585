----------------------------- MODULE SignalEval -----------------------------
(***************************************************************************)
(* The scheduled evaluation of signals: evaluate_due_signals of            *)
(* src/workers.rs and the fenced write of src/signals.rs, run by several   *)
(* worker processes of one workspace.                                      *)
(*                                                                         *)
(* Tokens are numbered in the order of the selection (first_seen_at,       *)
(* mint).  Times are durations: the time left of a claim, the time since   *)
(* the latest evaluation of a token and since the start of a pass, the     *)
(* last two capped at the re-evaluation cadence, beyond which nothing      *)
(* tells them apart.  What the gates decide does not matter here: accepted *)
(* or rejected, one evaluation row is written.                             *)
(***************************************************************************)
EXTENDS Integers, FiniteSets

CONSTANTS
    Tokens,      \* numbered in selection order
    Workers,     \* processes that run the evaluation loop
    ClaimIds,    \* the UUID claimants in existence at one time
    Lease,       \* the 10 minutes of a claim
    Reeval,      \* SIGNAL_EVAL_REEVAL_SECONDS
    BatchLimit,  \* LIMIT of the selection
    MaxFaults    \* bound on crashes, SQL errors and overrun leases

ASSUME TokensAssumption == Tokens \subseteq Nat
ASSUME TimesAssumption  == Lease \in Nat \ {0} /\ Reeval \in Nat \ {0}
ASSUME LimitsAssumption == BatchLimit \in Nat \ {0} /\ MaxFaults \in Nat
ASSUME IdsAssumption    == ClaimIds # {} /\ "none" \notin ClaimIds

VARIABLES
    eligible,  \* tokens in the entry window with a supported lifecycle
    age,       \* time since the evaluated_at of a token's latest evaluation
    claims,    \* signal_eval_claims: the claimant and the time left
    pc,        \* where each worker is
    batch,     \* tokens of its pass it has not finished, the current one too
    cur,       \* the token it is working on
    mine,      \* the claimant string it minted for it
    valid,     \* whether the claim was live when its transaction began
    passAge,   \* time since its pass started, the evaluated_at it will write
    faults     \* crashes, SQL errors and overrun leases so far

vars == <<eligible, age, claims, pc, batch, cur, mine, valid, passAge, faults>>

NoId == "none"

NoClaim == [by |-> NoId, ttl |-> 0]

Pcs == {"idle", "pass", "facts", "begin", "verify", "write", "release"}

\* The worker holds a claimant string it may still use.
Working(w) == pc[w] \in {"facts", "begin", "verify", "write", "release"}

TypeOK ==
    /\ eligible \subseteq Tokens
    /\ age \in [Tokens -> 0..Reeval]
    /\ claims \in [Tokens -> [by : ClaimIds \cup {NoId}, ttl : 0..Lease]]
    /\ pc \in [Workers -> Pcs]
    /\ batch \in [Workers -> SUBSET Tokens]
    /\ cur \in [Workers -> Nat]
    /\ mine \in [Workers -> ClaimIds \cup {NoId}]
    /\ valid \in [Workers -> BOOLEAN]
    /\ passAge \in [Workers -> 0..Reeval]
    /\ faults \in 0..MaxFaults

Init ==
    /\ eligible = Tokens
    /\ age = [t \in Tokens |-> Reeval]
    /\ claims = [t \in Tokens |-> NoClaim]
    /\ pc = [w \in Workers |-> "idle"]
    /\ batch = [w \in Workers |-> {}]
    /\ cur = [w \in Workers |-> 0]
    /\ mine = [w \in Workers |-> NoId]
    /\ valid = [w \in Workers |-> FALSE]
    /\ passAge = [w \in Workers |-> 0]
    /\ faults = 0

Min2(a, b) == IF a <= b THEN a ELSE b

----------------------------------------------------------------------------
(***************************************************************************)
(* Selection.                                                              *)
(***************************************************************************)

\* The token leaves the entry window or its lifecycle is no longer supported.
Retire(t) ==
    /\ t \in eligible
    /\ eligible' = eligible \ {t}
    /\ UNCHANGED <<age, claims, pc, batch, cur, mine, valid, passAge, faults>>

\* In the window, and no evaluation of this workspace within the cadence.
Due(t) ==
    /\ t \in eligible
    /\ age[t] >= Reeval

DueTokens == {t \in Tokens : Due(t)}

\* ORDER BY first_seen_at, mint LIMIT 20.
Select(w) ==
    /\ pc[w] = "idle"
    /\ DueTokens # {}
    /\ \E b \in SUBSET DueTokens :
        /\ Cardinality(b) = Min2(BatchLimit, Cardinality(DueTokens))
        /\ \A i \in b, j \in DueTokens \ b : i < j
        /\ batch' = [batch EXCEPT ![w] = b]
    /\ pc' = [pc EXCEPT ![w] = "pass"]
    /\ passAge' = [passAge EXCEPT ![w] = 0]
    /\ UNCHANGED <<eligible, age, claims, cur, mine, valid, faults>>

----------------------------------------------------------------------------
(***************************************************************************)
(* The durable claim.                                                      *)
(***************************************************************************)
\* Faulty variants of the definition that follows, as everywhere below: the
\* properties at the end of the module must tell them from the code.
NothingLocked(t) == FALSE

\* A transaction that verified its claim holds the row lock until it ends;
\* the upsert waits for it.
Locked(t) == \E w \in Workers : pc[w] = "write" /\ cur[w] = t

\* A UUID nobody uses.
Unused(id) ==
    /\ \A t \in Tokens : claims[t].by # id
    /\ \A w \in Workers : mine[w] # id

NeverExpires(row) == row.by = NoId

\* No row, or ON CONFLICT DO UPDATE ... WHERE expires_at <= now().
Claimable(row) == row.by = NoId \/ row.ttl = 0

First(w, t) == t \in batch[w] /\ \A j \in batch[w] : t <= j

\* The upsert wins: the worker owns the token for the lease.
Claim(w) ==
    /\ pc[w] = "pass"
    /\ \E t \in Tokens, id \in ClaimIds :
        /\ First(w, t)
        /\ ~Locked(t)
        /\ Claimable(claims[t])
        /\ Unused(id)
        /\ claims' = [claims EXCEPT ![t] = [by |-> id, ttl |-> Lease]]
        /\ cur' = [cur EXCEPT ![w] = t]
        /\ mine' = [mine EXCEPT ![w] = id]
    /\ pc' = [pc EXCEPT ![w] = "facts"]
    /\ UNCHANGED <<eligible, age, batch, valid, passAge, faults>>

\* The worker is done with token t and goes on with its batch.
Leave(w, t) ==
    /\ batch' = [batch EXCEPT ![w] = @ \ {t}]
    /\ pc' = [pc EXCEPT ![w] = IF batch[w] \subseteq {t} THEN "idle" ELSE "pass"]
    /\ cur' = [cur EXCEPT ![w] = 0]
    /\ mine' = [mine EXCEPT ![w] = NoId]
    /\ valid' = [valid EXCEPT ![w] = FALSE]

\* Another live worker holds the token: it is skipped.
Skip(w) ==
    /\ pc[w] = "pass"
    /\ \E t \in Tokens :
        /\ First(w, t)
        /\ ~Locked(t)
        /\ ~Claimable(claims[t])
        /\ Leave(w, t)
    /\ UNCHANGED <<eligible, age, claims, passAge, faults>>

----------------------------------------------------------------------------
(***************************************************************************)
(* The fenced evaluation.                                                  *)
(***************************************************************************)
Goto(w, from, to) ==
    /\ pc[w] = from
    /\ pc' = [pc EXCEPT ![w] = to]

\* Token, market, clusters and scores are read outside the transaction.
ReadFacts(w) ==
    /\ Goto(w, "facts", "begin")
    /\ UNCHANGED <<eligible, age, claims, batch, cur, mine, valid, passAge, faults>>

Owns(w) == claims[cur[w]].by = mine[w]

\* BEGIN fixes now() for the whole transaction, so whether the lease has
\* expired is decided here.
Begin(w) ==
    /\ Goto(w, "begin", "verify")
    /\ valid' = [valid EXCEPT ![w] = Owns(w) /\ claims[cur[w]].ttl > 0]
    /\ UNCHANGED <<eligible, age, claims, batch, cur, mine, passAge, faults>>

\* SELECT ... WHERE claimed_by = $4 AND expires_at > now() FOR UPDATE.
Verified(w) == valid[w] /\ Owns(w)

Verify(w) ==
    /\ Goto(w, "verify", IF Verified(w) THEN "write" ELSE "release")
    /\ UNCHANGED <<eligible, age, claims, batch, cur, mine, valid, passAge, faults>>

UnfencedRelease(row, w) == NoClaim

\* DELETE ... WHERE claimed_by = $4.
Released(row, w) == IF row.by = mine[w] THEN NoClaim ELSE row

\* The evaluation row, with the start of the pass as evaluated_at, and the
\* release of the claim commit together.
Commit(w) ==
    /\ pc[w] = "write"
    /\ age' = [age EXCEPT ![cur[w]] = Min2(@, passAge[w])]
    /\ claims' = [claims EXCEPT ![cur[w]] = Released(@, w)]
    /\ Leave(w, cur[w])
    /\ UNCHANGED <<eligible, passAge, faults>>

\* The error path releases the claim and goes on with the batch.
Release(w) ==
    /\ pc[w] = "release"
    /\ claims' = [claims EXCEPT ![cur[w]] = Released(@, w)]
    /\ Leave(w, cur[w])
    /\ UNCHANGED <<eligible, age, passAge, faults>>

----------------------------------------------------------------------------
(***************************************************************************)
(* Faults and time.                                                        *)
(***************************************************************************)
Fault ==
    /\ faults < MaxFaults
    /\ faults' = faults + 1

\* Reading the facts or writing the rows fails; the transaction rolls back.
Fail(w) ==
    /\ Fault
    /\ \E from \in {"facts", "begin", "verify", "write"} : Goto(w, from, "release")
    /\ UNCHANGED <<eligible, age, claims, batch, cur, mine, valid, passAge>>

\* The release statement itself fails: logged, and the claim stays.
LoseRelease(w) ==
    /\ Fault
    /\ pc[w] = "release"
    /\ Leave(w, cur[w])
    /\ UNCHANGED <<eligible, age, claims, passAge>>

\* The process dies, or the claim statement fails and `?` ends the pass.
Abort(w) ==
    /\ Fault
    /\ pc[w] # "idle"
    /\ pc' = [pc EXCEPT ![w] = "idle"]
    /\ batch' = [batch EXCEPT ![w] = {}]
    /\ cur' = [cur EXCEPT ![w] = 0]
    /\ mine' = [mine EXCEPT ![w] = NoId]
    /\ valid' = [valid EXCEPT ![w] = FALSE]
    /\ UNCHANGED <<eligible, age, claims, passAge>>

Less(n) == IF n = 0 THEN 0 ELSE n - 1

\* The lease of a living worker is about to run out.
Overrun == \E w \in Workers : Working(w) /\ Owns(w) /\ claims[cur[w]].ttl = 1

\* One unit of time.  An evaluation slower than its lease counts as a fault.
Tick ==
    /\ IF Overrun THEN Fault ELSE UNCHANGED faults
    /\ claims' = [t \in Tokens |-> [claims[t] EXCEPT !.ttl = Less(@)]]
    /\ age' = [t \in Tokens |-> Min2(age[t] + 1, Reeval)]
    /\ passAge' = [w \in Workers |-> Min2(passAge[w] + 1, Reeval)]
    /\ UNCHANGED <<eligible, pc, batch, cur, mine, valid>>

Work(w) ==
    \/ Select(w)
    \/ Claim(w)
    \/ Skip(w)
    \/ ReadFacts(w)
    \/ Begin(w)
    \/ Verify(w)
    \/ Commit(w)
    \/ Release(w)

Next ==
    \/ \E t \in Tokens : Retire(t)
    \/ \E w \in Workers : Work(w) \/ Fail(w) \/ LoseRelease(w) \/ Abort(w)
    \/ Tick

Spec == Init /\ [][Next]_vars

(***************************************************************************)
(* The loop ticks every minute for ever, so a worker that can step does;   *)
(* time passes.                                                            *)
(***************************************************************************)
FairSpec ==
    /\ Spec
    /\ WF_vars(Tick)
    /\ \A w \in Workers : WF_vars(Work(w))

----------------------------------------------------------------------------
(***************************************************************************)
(* Properties.                                                             *)
(***************************************************************************)

\* A worker between the verification and the commit of its transaction owns
\* the claim row all along: nobody re-claims the token under it, even when the
\* lease ran out after BEGIN froze now() (evaluate_token_fenced, REV-080-F04).
WriterOwnsItsClaim ==
    \A w \in Workers : pc[w] = "write" => Owns(w)

\* A claim whose lease runs is taken away by nobody but the worker that
\* minted it: neither a competing upsert nor the error-path release of a
\* worker that lost its claim (evaluate_due_signals, REV-087-F05).
LiveClaimIsRespected ==
    [][\A t \in Tokens :
         claims[t].ttl > 0 /\ claims'[t].by # claims[t].by =>
            \E w \in Workers : /\ mine[w] = claims[t].by
                               /\ cur[w] = t
                               /\ pc[w] \in {"write", "release"}]_vars

\* "Minimum seconds between evaluations of the SAME token" (workers.rs,
\* SIGNAL_EVAL_REEVAL_SECONDS): an evaluation is written only when the latest
\* one is at least that old.
EvaluationsAreSpaced ==
    [][\A w \in Workers : Commit(w) => age[cur[w]] >= Reeval]_vars

\* A token that stays eligible is evaluated again and again, although workers
\* crash, lose releases and overrun leases: what they leave behind wedges it
\* for a lease at most.
EligibleIsEvaluated ==
    \A t \in Tokens :
        <>[](t \in eligible) =>
            []<><<\E w \in Workers : cur[w] = t /\ Commit(w)>>_vars

(***************************************************************************)
(* The inductive invariant behind the safety properties.                   *)
(***************************************************************************)

\* A worker has a claimant string exactly while it works on a token of its
\* batch.
WorkIsTracked ==
    \A w \in Workers :
        /\ Working(w) => mine[w] \in ClaimIds /\ cur[w] \in batch[w]
        /\ ~Working(w) => mine[w] = NoId

\* No two workers share a claimant string, and a row carries a worker's
\* string only if it is the row of the token the worker is on.
IdsAreUnique ==
    \A w \in Workers : mine[w] # NoId =>
        /\ \A v \in Workers : mine[v] = mine[w] => v = w
        /\ \A t \in Tokens : claims[t].by = mine[w] => t = cur[w]

\* A deleted claim has no lease.
NoLeaseWithoutClaim == \A t \in Tokens : claims[t].by = NoId => claims[t].ttl = 0

IndInv ==
    /\ TypeOK
    /\ WorkIsTracked
    /\ IdsAreUnique
    /\ NoLeaseWithoutClaim
    /\ WriterOwnsItsClaim

\* Every token left in a batch is still due: true of a worker that has the
\* table to itself.
BatchIsDue == \A w \in Workers, t \in Tokens : t \in batch[w] => age[t] = Reeval

=============================================================================
