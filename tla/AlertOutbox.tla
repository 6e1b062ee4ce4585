---------------------------- MODULE AlertOutbox ----------------------------
(***************************************************************************)
(* The durable alert outbox: claim_alert, mark_alert_sent and              *)
(* mark_alert_failed of src/signals.rs, driven by the two kinds of         *)
(* claimant in src/workers.rs (the dispatch pass and the radar producer).  *)
(*                                                                         *)
(* One key is one delivery identity (alert_dedup_key: kind, workspace,     *)
(* subject, destination) of one workspace and destination.  Keys are       *)
(* numbered in the order a pass works through them: funding cases first,   *)
(* then signals, the oldest first.                                         *)
(* A timestamp column is kept as the time left until it is reached: the    *)
(* SQL only ever compares these columns with now(), so "due" is 0, and     *)
(* NULL in claim_expires_at, which the SQL treats like an expired lease,   *)
(* is 0 too.                                                               *)
(***************************************************************************)
EXTENDS Integers, FiniteSets

CONSTANTS
    Keys,            \* delivery identities, numbered in drain order
    FundingKeys,     \* those whose subject is a funding-radar case
    Dispatchers,     \* tasks that run dispatch_alerts
    Producers,       \* tasks that run evaluate_radar_cases
    MaxAttempts,     \* ALERT_MAX_ATTEMPTS
    Lease,           \* ALERT_CLAIM_LEASE_SECONDS
    BackoffUnit,     \* the 60 seconds the backoff shifts left
    BackoffCap,      \* the 3600 seconds the backoff is capped at
    MaxRetryAfter,   \* ALERT_MAX_RETRY_AFTER_SECONDS
    RetryAfterHints, \* Retry-After values the provider may send
    BatchLimit,      \* LIMIT of the selection query
    MaxAborts        \* bound on crashes and propagated SQL errors

ASSUME KeysAssumption        == Keys \subseteq Nat /\ FundingKeys \subseteq Keys
ASSUME AttemptsAssumption    == MaxAttempts \in Nat \ {0}
ASSUME LeaseAssumption       == Lease \in Nat \ {0}
ASSUME BackoffAssumption     == /\ BackoffUnit \in Nat
                                /\ BackoffCap \in Nat
                                /\ MaxRetryAfter \in Nat
                                /\ RetryAfterHints \subseteq Nat
ASSUME BoundsAssumption      == BatchLimit \in Nat \ {0} /\ MaxAborts \in Nat

VARIABLES
    subjects,   \* keys whose signal is active or whose case calls for an alert
    alerts,     \* the alerts table, one row per key
    pc,         \* where each claimant is
    batch,      \* keys a claimant selected and has not finished
    key,        \* the key it is working on
    claim,      \* the AlertClaim it holds: token and attempt
    outcome,    \* what send_message returned to it
    delivered,  \* tokens of the claims whose message the provider accepted
    rejected,   \* keys the provider refused permanently
    aborts      \* crashes and propagated errors so far

Claimants == Dispatchers \cup Producers

vars == <<subjects, alerts, pc, batch, key, claim, outcome, delivered,
          rejected, aborts>>

locals == <<batch, key, claim, outcome>>
ghosts == <<delivered, rejected, aborts>>

Min2(a, b) == IF a <= b THEN a ELSE b

(***************************************************************************)
(* A claim token is a fresh UUID.  Tokens are only ever compared within    *)
(* one row, and every successful claim of a row mints exactly one, so the  *)
(* n-th claim of a row carries the token n.  0 stands for NULL.            *)
(***************************************************************************)
NoToken == 0

NoRow == [state |-> "absent", attempt_count |-> 0, token |-> NoToken,
          lease |-> 0, wait |-> 0]

NoClaim == [token |-> NoToken, attempt |-> 0]

Outcomes ==
    [kind : {"none", "ok", "transient", "permanent"}, retry_after : {0}]
        \cup [kind : {"rate_limited"}, retry_after : RetryAfterHints]

NoOutcome == [kind |-> "none", retry_after |-> 0]

Pcs == {"idle", "pass", "claim", "send", "mark"}

Rows == [state : {"absent", "pending", "sent", "dead"}, attempt_count : Nat,
         token : Nat, lease : Nat, wait : Nat]

TypeOK ==
    /\ subjects \subseteq Keys
    /\ alerts \in [Keys -> Rows]
    /\ pc \in [Claimants -> Pcs]
    /\ batch \in [Claimants -> SUBSET Keys]
    /\ key \in [Claimants -> Nat]
    /\ claim \in [Claimants -> [token : Nat, attempt : Nat]]
    /\ outcome \in [Claimants -> Outcomes]
    /\ delivered \in [Keys -> SUBSET Nat]
    /\ rejected \subseteq Keys
    /\ aborts \in 0..MaxAborts

Init ==
    /\ subjects = {}
    /\ alerts = [k \in Keys |-> NoRow]
    /\ pc = [c \in Claimants |-> "idle"]
    /\ batch = [c \in Claimants |-> {}]
    /\ key = [c \in Claimants |-> 0]
    /\ claim = [c \in Claimants |-> NoClaim]
    /\ outcome = [c \in Claimants |-> NoOutcome]
    /\ delivered = [k \in Keys |-> {}]
    /\ rejected = {}
    /\ aborts = 0

----------------------------------------------------------------------------
(***************************************************************************)
(* Subjects and selection.                                                 *)
(***************************************************************************)

\* A signal is accepted, or a funding case reaches the alert confidence.
Produce(k) ==
    /\ k \notin subjects
    /\ subjects' = subjects \cup {k}
    /\ UNCHANGED <<alerts, pc, locals, ghosts>>

\* The case leaves the preparation stage.  Nothing ever deactivates a signal.
Withdraw(k) ==
    /\ k \in FundingKeys \cap subjects
    /\ subjects' = subjects \ {k}
    /\ UNCHANGED <<alerts, pc, locals, ghosts>>

Unclaimed(row) == row.lease = 0

\* pending_signal_alerts and pending_funding_alerts: a subject without a row,
\* or a pending row whose retry is due and which no unexpired claim covers.
Due(k) ==
    \/ /\ alerts[k].state = "absent"
       /\ k \in subjects
    \/ /\ alerts[k].state = "pending"
       /\ alerts[k].wait = 0
       /\ Unclaimed(alerts[k])

DueKeys == {k \in Keys : Due(k)}

\* ORDER BY ... LIMIT: b holds the first BatchLimit keys of due.
FirstOf(b, due) ==
    /\ Cardinality(b) = Min2(BatchLimit, Cardinality(due))
    /\ \A i \in b, j \in due \ b : i < j

\* A dispatch pass reads its batch once; the rows may change before it gets
\* to them.
Select(c) ==
    /\ c \in Dispatchers
    /\ pc[c] = "idle"
    /\ DueKeys # {}
    /\ \E b \in SUBSET DueKeys :
        /\ FirstOf(b \cap FundingKeys, DueKeys \cap FundingKeys)
        /\ FirstOf(b \ FundingKeys, DueKeys \ FundingKeys)
        /\ batch' = [batch EXCEPT ![c] = b]
    /\ pc' = [pc EXCEPT ![c] = "pass"]
    /\ UNCHANGED <<subjects, alerts, key, claim, outcome, ghosts>>

\* evaluate_radar_cases emits an alert and claims its row without selecting
\* it: whether the row is due is left to the claim.
Offer(c, k) ==
    /\ c \in Producers
    /\ pc[c] = "idle"
    /\ k \in FundingKeys \cap subjects
    /\ batch' = [batch EXCEPT ![c] = {k}]
    /\ pc' = [pc EXCEPT ![c] = "pass"]
    /\ UNCHANGED <<subjects, alerts, key, claim, outcome, ghosts>>

----------------------------------------------------------------------------
(***************************************************************************)
(* claim_alert: two statements, each a transaction of its own.             *)
(***************************************************************************)

\* Faulty variants of the definition that follows, as everywhere below: the
\* properties at the end of the module must tell them from the code.
ExhaustedIgnoringLease(row) ==
    row.state = "pending" /\ row.attempt_count >= MaxAttempts

NeverExhausted(row) == FALSE

\* The WHERE clause of the statement that terminalizes.
Exhausted(row) ==
    /\ row.state = "pending"
    /\ row.attempt_count >= MaxAttempts
    /\ Unclaimed(row)

Dead(row) == [row EXCEPT !.state = "dead", !.token = NoToken, !.lease = 0,
                         !.wait = 0]

\* First statement: a row at the cap that no live claim covers becomes dead.
Terminalize(c) ==
    /\ pc[c] = "pass"
    /\ \E k \in batch[c] :
        /\ \A j \in batch[c] : k <= j
        /\ key' = [key EXCEPT ![c] = k]
        /\ alerts' = IF Exhausted(alerts[k])
                     THEN [alerts EXCEPT ![k] = Dead(@)]
                     ELSE alerts
    /\ pc' = [pc EXCEPT ![c] = "claim"]
    /\ UNCHANGED <<subjects, batch, claim, outcome, ghosts>>

\* The WHERE clause of the upsert; a missing row is inserted.
Claimable(row) ==
    \/ row.state = "absent"
    \/ /\ row.state = "pending"
       /\ row.wait = 0
       /\ Unclaimed(row)
       /\ row.attempt_count < MaxAttempts

TokenPerProcess(row) == 1

MintToken(row) == row.attempt_count + 1

\* The row the upsert writes: the claim itself counts as an attempt.
Claimed(row) ==
    [state |-> "pending", attempt_count |-> row.attempt_count + 1,
     token |-> MintToken(row), lease |-> Lease, wait |-> Lease]

\* The claimant is done with its current key and goes on with its batch.
Leave(c) ==
    /\ batch' = [batch EXCEPT ![c] = @ \ {key[c]}]
    /\ pc' = [pc EXCEPT ![c] = IF batch[c] \subseteq {key[c]} THEN "idle"
                                                             ELSE "pass"]
    /\ key' = [key EXCEPT ![c] = 0]
    /\ claim' = [claim EXCEPT ![c] = NoClaim]
    /\ outcome' = [outcome EXCEPT ![c] = NoOutcome]

\* Second statement: the atomic upsert that decides the claim.
Claim(c) ==
    /\ pc[c] = "claim"
    /\ Claimable(alerts[key[c]])
    /\ alerts' = [alerts EXCEPT ![key[c]] = Claimed(@)]
    /\ claim' = [claim EXCEPT ![c] =
                    [token   |-> MintToken(alerts[key[c]]),
                     attempt |-> alerts[key[c]].attempt_count + 1]]
    /\ pc' = [pc EXCEPT ![c] = "send"]
    /\ UNCHANGED <<subjects, batch, key, outcome, ghosts>>

\* The upsert returned no row: the key is skipped.
ClaimLost(c) ==
    /\ pc[c] = "claim"
    /\ ~Claimable(alerts[key[c]])
    /\ Leave(c)
    /\ UNCHANGED <<subjects, alerts, ghosts>>

----------------------------------------------------------------------------
(***************************************************************************)
(* send_message: the provider's answer and what really happened.  A        *)
(* timeout, a 5xx or an unreadable body is Transient whether or not the    *)
(* message went out.                                                       *)
(***************************************************************************)

Classified(o, accepted) ==
    /\ o.kind = "ok" => accepted
    /\ o.kind \in {"permanent", "rate_limited"} => ~accepted

Send(c) ==
    /\ pc[c] = "send"
    /\ \E o \in Outcomes \ {NoOutcome}, accepted \in BOOLEAN :
        /\ Classified(o, accepted)
        /\ outcome' = [outcome EXCEPT ![c] = o]
        /\ delivered' = IF accepted
                        THEN [delivered EXCEPT ![key[c]] = @ \cup {claim[c].token}]
                        ELSE delivered
        /\ rejected' = IF o.kind = "permanent" THEN rejected \cup {key[c]}
                                               ELSE rejected
    /\ pc' = [pc EXCEPT ![c] = "mark"]
    /\ UNCHANGED <<subjects, alerts, batch, key, claim, aborts>>

----------------------------------------------------------------------------
(***************************************************************************)
(* Completion, fenced by the claim token.                                  *)
(***************************************************************************)

Unfenced(c) == TRUE

Fenced(c) ==
    /\ alerts[key[c]].state = "pending"
    /\ alerts[key[c]].token = claim[c].token

Sent(row) == [row EXCEPT !.state = "sent", !.token = NoToken, !.lease = 0,
                         !.wait = 0]

MarkSent(c) ==
    /\ pc[c] = "mark"
    /\ outcome[c].kind = "ok"
    /\ alerts' = IF Fenced(c) THEN [alerts EXCEPT ![key[c]] = Sent(@)]
                              ELSE alerts
    /\ Leave(c)
    /\ UNCHANGED <<subjects, ghosts>>

\* x << e for the shifts the backoff can ask for.
ShiftLeft(x, e) ==
    CASE e = 0 -> x      [] e = 1 -> 2 * x  [] e = 2 -> 4 * x [] e = 3 -> 8 * x
      [] e = 4 -> 16 * x [] e = 5 -> 32 * x [] OTHER -> 64 * x

BackoffSeconds(attempt, o) ==
    IF o.kind = "rate_limited" THEN Min2(o.retry_after, MaxRetryAfter)
    ELSE Min2(ShiftLeft(BackoffUnit, Min2(attempt, 6)), BackoffCap)

Failed(row, attempt, o) ==
    IF o.kind = "permanent" \/ attempt >= MaxAttempts THEN Dead(row)
    ELSE [row EXCEPT !.token = NoToken, !.lease = 0,
                     !.wait = BackoffSeconds(attempt, o)]

MarkFailed(c) ==
    /\ pc[c] = "mark"
    /\ outcome[c].kind # "ok"
    /\ alerts' = IF Fenced(c)
                 THEN [alerts EXCEPT ![key[c]] =
                          Failed(@, claim[c].attempt, outcome[c])]
                 ELSE alerts
    /\ Leave(c)
    /\ UNCHANGED <<subjects, ghosts>>

----------------------------------------------------------------------------
(***************************************************************************)
(* Crashes and time.                                                       *)
(***************************************************************************)

\* The process dies, or a statement fails and `?` ends the whole pass: the
\* claimant forgets its batch and its claim, the tables stay as they are.
Abort(c) ==
    /\ pc[c] # "idle"
    /\ aborts < MaxAborts
    /\ aborts' = aborts + 1
    /\ pc' = [pc EXCEPT ![c] = "idle"]
    /\ batch' = [batch EXCEPT ![c] = {}]
    /\ key' = [key EXCEPT ![c] = 0]
    /\ claim' = [claim EXCEPT ![c] = NoClaim]
    /\ outcome' = [outcome EXCEPT ![c] = NoOutcome]
    /\ UNCHANGED <<subjects, alerts, delivered, rejected>>

Less(n) == IF n = 0 THEN 0 ELSE n - 1

Older(row) == [row EXCEPT !.lease = Less(@), !.wait = Less(@)]

\* One unit of the database clock: leases and retry delays run down.  A
\* claimant may be slower than its lease.
Tick ==
    /\ \E k \in Keys : alerts[k].lease > 0 \/ alerts[k].wait > 0
    /\ alerts' = [k \in Keys |-> Older(alerts[k])]
    /\ UNCHANGED <<subjects, pc, locals, ghosts>>

Work(c) ==
    \/ Select(c)
    \/ Terminalize(c)
    \/ Claim(c)
    \/ ClaimLost(c)
    \/ Send(c)
    \/ MarkSent(c)
    \/ MarkFailed(c)

Next ==
    \/ \E k \in Keys : Produce(k) \/ Withdraw(k)
    \/ \E c \in Claimants : Work(c) \/ Abort(c)
    \/ \E c \in Claimants, k \in Keys : Offer(c, k)
    \/ Tick

Spec == Init /\ [][Next]_vars

(***************************************************************************)
(* The dispatch loop ticks every 20 seconds for ever, so a claimant that   *)
(* can step does; time passes.  Nothing makes a subject appear, a producer *)
(* offer a key or a claimant crash.                                        *)
(***************************************************************************)
FairSpec ==
    /\ Spec
    /\ WF_vars(Tick)
    /\ \A c \in Claimants : WF_vars(Work(c))

----------------------------------------------------------------------------
(***************************************************************************)
(* Properties.                                                             *)
(***************************************************************************)

Busy(c) == pc[c] \in {"send", "mark"}

Holds(c, k) == Busy(c) /\ key[c] = k /\ claim[c].token = alerts[k].token

\* At most one claimant holds the token that is on a row, whatever the order
\* of passes, expiries, crashes and re-claims: of two tasks that are sending
\* the same alert, at least one has lost its claim for good
\* (signals.rs, the single-statement claim of REV-076-F03).
OneHolder ==
    \A k \in Keys, c, d \in Claimants : Holds(c, k) /\ Holds(d, k) => c = d

\* Every message the provider accepted was paid for by an attempt, and the
\* attempts are capped across processes and crashes: a user never gets one
\* alert more than ALERT_MAX_ATTEMPTS times (signals.rs, claim_alert).
DeliveriesCapped ==
    \A k \in Keys : /\ alerts[k].attempt_count <= MaxAttempts
                    /\ delivered[k] \subseteq 1..alerts[k].attempt_count

\* A row says sent only if the provider accepted the message under some claim
\* ("only Ok may mark a row sent", alerts.rs send_message).
SentWasDelivered ==
    \A k \in Keys : alerts[k].state = "sent" => delivered[k] # {}

\* A row is given up only after a permanent refusal or after all attempts
\* were used: a stale completion or a concurrent claim never kills it early.
DeadIsJustified ==
    \A k \in Keys : alerts[k].state = "dead" =>
        alerts[k].attempt_count = MaxAttempts \/ k \in rejected

\* While the lease of a claim runs, only the claimant that holds it ends it,
\* by its own completion: no re-claim, no terminalization at the cap and no
\* stale completion of somebody else (REV-082-F05 in claim_alert).
LiveClaimEndsByItsHolder ==
    [][\A k \in Keys :
         alerts[k].lease > 0 /\ alerts'[k].token # alerts[k].token =>
            \E c \in Claimants : Holds(c, k) /\ pc[c] = "mark" /\ pc'[c] # "mark"]_vars

\* Every alert that enters the outbox is settled, sent or dead, through crashes,
\* lost leases and failing sends: the exhausted row a crash left behind at the
\* cap is terminalized by a later pass (REV-080-F03 in claim_alert).
EventuallySettled ==
    \A k \in Keys :
        alerts[k].state = "pending" ~> alerts[k].state \in {"sent", "dead"}

(***************************************************************************)
(* The refinement: what a reader of the alerts table sees of a delivery.   *)
(***************************************************************************)
AbstractStatus ==
    [k \in Keys |-> IF alerts[k].state \in {"sent", "dead"}
                    THEN alerts[k].state ELSE "open"]

AbstractTries == [k \in Keys |-> alerts[k].attempt_count]

Delivery == INSTANCE AlertDelivery
                WITH status <- AbstractStatus, tries <- AbstractTries

\* The outbox, with its claims, leases, batches and crashes, implements the
\* delivery contract of AlertDelivery.
ImplementsDelivery == Delivery!Spec

(***************************************************************************)
(* The inductive invariant behind the safety properties.                   *)
(***************************************************************************)

\* A claim in flight is one of the attempts counted on its row.
ClaimsAreCounted ==
    \A c \in Claimants :
        /\ pc[c] \in {"claim", "send", "mark"} => key[c] \in Keys
        /\ Busy(c) => /\ claim[c].token = claim[c].attempt
                      /\ claim[c].token \in 1..alerts[key[c]].attempt_count

\* Only a pending row carries a token, the one of its latest claim; a lease
\* runs only on such a row; a key without a row was never claimed.
RowsAreConsistent ==
    \A k \in Keys :
        /\ alerts[k].state = "absent" => alerts[k].attempt_count = 0
        /\ alerts[k].token # NoToken => /\ alerts[k].state = "pending"
                                        /\ alerts[k].token = alerts[k].attempt_count
        /\ alerts[k].lease > 0 => alerts[k].token # NoToken

\* No two claims in flight on one row carry the same token.
TokensAreUnique ==
    \A c, d \in Claimants :
        Busy(c) /\ Busy(d) /\ key[c] = key[d] /\ claim[c].token = claim[d].token
            => c = d

\* The answer a claimant is about to record is the one the provider gave.
OutcomesAreReal ==
    \A c \in Claimants : pc[c] = "mark" =>
        /\ outcome[c].kind = "ok" => delivered[key[c]] # {}
        /\ outcome[c].kind = "permanent" => key[c] \in rejected

IndInv ==
    /\ TypeOK
    /\ ClaimsAreCounted
    /\ RowsAreConsistent
    /\ TokensAreUnique
    /\ OutcomesAreReal
    /\ DeliveriesCapped
    /\ SentWasDelivered
    /\ DeadIsJustified

=============================================================================
