----------------------------- MODULE HeliusPool -----------------------------
(***************************************************************************)
(* The Helius provider pool (src/helius.rs): requests of several tasks     *)
(* over a few API keys, with a token bucket per key and class and, per key *)
(* and for all its classes, a cooldown and a circuit breaker.              *)
(*                                                                         *)
(* One unit of time is the time a bucket takes to earn one token.          *)
(* Cooldowns, open breakers and sleeps are kept as the time left.  Every   *)
(* field of a key is behind a lock or an atomic of its own, so the calls   *)
(* that touch two of them are two actions.                                 *)
(***************************************************************************)
EXTENDS Integers

CONSTANTS
    N,              \* number of keys; an empty pool refuses every request
    Classes,        \* API classes
    Tasks,          \* tasks that make requests, one at a time
    ClassOf,        \* the class a task's requests are of
    Rate,           \* capacity of a bucket, its tokens per second
    MaxRetries,     \* HeliusConfig.max_retries
    AuthThreshold,  \* breaker threshold of 4xx answers
    OpenTime,       \* the 60 seconds of an open breaker
    MaxCooldown,    \* the 60 seconds a Retry-After is capped at
    MaxSleep,       \* the 2 seconds a wait is capped at
    MaxLoad         \* bound of the monitor; 0 switches it off

ASSUME SizesAssumption == N \in Nat \ {0} /\ Rate \in Nat \ {0}
ASSUME ClassesAssumption == ClassOf \in [Tasks -> Classes]
ASSUME RetriesAssumption == MaxRetries \in Nat /\ AuthThreshold \in Nat \ {0}
ASSUME SpansAssumption ==
    OpenTime \in Nat /\ MaxCooldown \in Nat /\ MaxSleep \in Nat /\ MaxLoad \in Nat

VARIABLES
    tokens,    \* the buckets
    cooldown,  \* cooldown_until of a key
    open,      \* open_until of a key
    fails,     \* consecutive_failures of a key
    next,      \* the round-robin cursor
    req,       \* the request each task is in
    load       \* requests let through and not yet earned by time, a monitor

keyvars == <<cooldown, open, fails>>
vars == <<tokens, cooldown, open, fails, next, req, load>>

Keys == 1..N

NoKey == 0

Pcs == {"idle", "pick", "look", "take", "drain", "sleep", "answer",
        "close", "fault", "open", "reset"}

Idle == [pc |-> "idle", start |-> 0, off |-> 0, best |-> NoKey, wait |-> 0,
         key |-> NoKey, attempt |-> 0, retry |-> FALSE]

TypeOK ==
    /\ tokens \in [Keys \X Classes -> 0..Rate]
    /\ cooldown \in [Keys -> 0..MaxCooldown]
    /\ open \in [Keys -> 0..OpenTime]
    /\ fails \in [Keys -> Nat]
    /\ next \in 0..(N - 1)
    /\ req \in [Tasks -> [pc : Pcs, start : 0..(N - 1), off : 0..(N - 1),
                          best : 0..N, wait : Nat, key : 0..N,
                          attempt : 0..MaxRetries, retry : BOOLEAN]]
    /\ load \in [Keys \X Classes -> 0..MaxLoad]

Init ==
    /\ tokens = [b \in Keys \X Classes |-> Rate]
    /\ cooldown = [k \in Keys |-> 0]
    /\ open = [k \in Keys |-> 0]
    /\ fails = [k \in Keys |-> 0]
    /\ next = 0
    /\ req = [t \in Tasks |-> Idle]
    /\ load = [b \in Keys \X Classes |-> 0]

Min2(a, b) == IF a <= b THEN a ELSE b

\* The request of task t changes in the given fields.
Now(t, pc) == [req[t] EXCEPT !.pc = pc]

Becomes(t, r) == req' = [req EXCEPT ![t] = r]

At(t, pc) == req[t].pc = pc

----------------------------------------------------------------------------
(***************************************************************************)
(* pick_provider.                                                          *)
(***************************************************************************)

\* next.fetch_add(1), taken modulo the number of keys.
Pick(t) ==
    /\ next' = (next + 1) % N
    /\ Becomes(t, [Now(t, "look") EXCEPT !.start = next])
    /\ UNCHANGED <<tokens, keyvars, load>>

\* A task makes a request.
Start(t) == At(t, "idle") /\ Pick(t)

\* It tries again.
Retry(t) == At(t, "pick") /\ Pick(t)

\* The key that the round robin of task t has come to.
Candidate(t) == ((req[t].start + req[t].off) % N) + 1

\* is_available.
Usable(k) == cooldown[k] = 0 /\ open[k] = 0

\* The search is over.
Picked(r, k) ==
    [r EXCEPT !.start = 0, !.off = 0, !.best = NoKey, !.wait = 0, !.key = k]

\* The next key of the round; after the last one, the sleep on the best key
\* that only lacked a token, or the search for the shortest wait.
GoOn(r) ==
    IF r.off < N - 1 THEN [r EXCEPT !.pc = "look", !.off = r.off + 1]
    ELSE IF r.best # NoKey
         THEN [Picked(r, r.best) EXCEPT !.pc = "sleep", !.wait = Min2(r.wait, MaxSleep)]
         ELSE [r EXCEPT !.pc = "drain", !.off = 0]

Look(t) ==
    /\ At(t, "look")
    /\ Becomes(t, IF Usable(Candidate(t)) THEN Now(t, "take") ELSE GoOn(req[t]))
    /\ UNCHANGED <<tokens, keyvars, next, load>>

\* try_acquire of a key: what is left of its cooldown, of its breaker, or the
\* time until its next token; 0 when it gives a token.
WaitFor(k, c) ==
    IF cooldown[k] > 0 THEN cooldown[k]
    ELSE IF open[k] > 0 THEN open[k]
         ELSE IF tokens[<<k, c>>] > 0 THEN 0 ELSE 1

\* The key's cooldown or breaker may have begun since is_available.
Better(r, k, wait) ==
    IF r.best = NoKey \/ wait < r.wait THEN [r EXCEPT !.best = k, !.wait = wait] ELSE r

\* A request leaves on key k.
LetThrough(b) == load' = [load EXCEPT ![b] = Min2(@ + 1, MaxLoad)]

Take(t) ==
    /\ At(t, "take")
    /\ LET k == Candidate(t)
           b == <<k, ClassOf[t]>>
           wait == WaitFor(k, ClassOf[t])
       IN IF wait = 0
          THEN /\ tokens' = [tokens EXCEPT ![b] = @ - 1]
               /\ Becomes(t, [Picked(req[t], k) EXCEPT !.pc = "answer"])
               /\ LetThrough(b)
          ELSE /\ Becomes(t, GoOn(Better(req[t], k, wait)))
               /\ UNCHANGED <<tokens, load>>
    /\ UNCHANGED <<keyvars, next>>

\* No key was available.  try_acquire is asked of every key for the wait to
\* report, and a key that has come back loses a token; the request fails.
Drain(t) ==
    /\ At(t, "drain")
    /\ LET k == req[t].off + 1
           b == <<k, ClassOf[t]>>
       IN tokens' = IF WaitFor(k, ClassOf[t]) = 0 THEN [tokens EXCEPT ![b] = @ - 1]
                    ELSE tokens
    /\ Becomes(t, IF req[t].off < N - 1 THEN [req[t] EXCEPT !.off = req[t].off + 1] ELSE Idle)
    /\ UNCHANGED <<keyvars, next, load>>

\* The sleep is over and the request leaves, without asking for a token.
Wake(t) ==
    /\ At(t, "sleep")
    /\ req[t].wait = 0
    /\ Becomes(t, Now(t, "answer"))
    /\ LetThrough(<<req[t].key, ClassOf[t]>>)
    /\ UNCHANGED <<tokens, keyvars, next>>

----------------------------------------------------------------------------
(***************************************************************************)
(* request_json: the answer and what it does to the key.                   *)
(***************************************************************************)
\* Faulty variants of the definition that follows, as everywhere below: the
\* properties at the end of the module must tell them from the code.
SameAttempt(n) == n

\* attempt += 1.
NextAttempt(n) == n + 1

\* The failure is on record: the request fails, or is tried again while it
\* has retries left.
After(r) ==
    IF r.retry /\ NextAttempt(r.attempt) <= MaxRetries
    THEN [Idle EXCEPT !.pc = "pick", !.attempt = NextAttempt(r.attempt)]
    ELSE Idle

TripsLate(n, threshold) == n > threshold

Trips(n, threshold) == n >= threshold

\* record_failure: fetch_add, and the breaker opens at the threshold.
Fault(t, threshold, retry) ==
    LET k == req[t].key
        r == [req[t] EXCEPT !.retry = retry]
    IN /\ fails' = [fails EXCEPT ![k] = @ + 1]
       /\ Becomes(t, IF Trips(fails[k] + 1, threshold)
                     THEN [r EXCEPT !.pc = "open"] ELSE After(r))

\* A 2xx status: record_success resets the count, then closes the breaker.
Success(t) ==
    /\ At(t, "answer")
    /\ fails' = [fails EXCEPT ![req[t].key] = 0]
    /\ Becomes(t, Now(t, "close"))
    /\ UNCHANGED <<tokens, cooldown, open, next, load>>

\* The body is the result, or cannot be decoded, and the request ends; or it
\* is an application error, which is recorded as a failure.
Close(t) ==
    /\ At(t, "close")
    /\ open' = [open EXCEPT ![req[t].key] = 0]
    /\ \E r \in {Idle, Now(t, "fault")} : Becomes(t, r)
    /\ UNCHANGED <<tokens, cooldown, fails, next, load>>

ApplicationError(t) ==
    /\ At(t, "fault")
    /\ Fault(t, MaxRetries, FALSE)
    /\ UNCHANGED <<tokens, cooldown, open, next, load>>

\* 429: the key cools down for what the provider says, a second by default.
RateLimited(t) ==
    /\ At(t, "answer")
    /\ \E d \in 0..MaxCooldown : cooldown' = [cooldown EXCEPT ![req[t].key] = d]
    /\ Becomes(t, After([req[t] EXCEPT !.retry = TRUE]))
    /\ UNCHANGED <<tokens, open, fails, next, load>>

\* Authentication and validation errors are not retried.
ClientError(t) ==
    /\ At(t, "answer")
    /\ Fault(t, AuthThreshold, FALSE)
    /\ UNCHANGED <<tokens, cooldown, open, next, load>>

\* 5xx, a lost connection or the client's timeout.
ServerError(t) ==
    /\ At(t, "answer")
    /\ Fault(t, MaxRetries, TRUE)
    /\ UNCHANGED <<tokens, cooldown, open, next, load>>

\* open_until = now + 60 s, then the count starts again.
Open(t) ==
    /\ At(t, "open")
    /\ open' = [open EXCEPT ![req[t].key] = OpenTime]
    /\ Becomes(t, Now(t, "reset"))
    /\ UNCHANGED <<tokens, cooldown, fails, next, load>>

Reset(t) ==
    /\ At(t, "reset")
    /\ fails' = [fails EXCEPT ![req[t].key] = 0]
    /\ Becomes(t, After(req[t]))
    /\ UNCHANGED <<tokens, cooldown, open, next, load>>

----------------------------------------------------------------------------
Less(n) == IF n > 0 THEN n - 1 ELSE n

\* refill, which never goes beyond the capacity.
Refill(n) == Min2(n + 1, Rate)

\* One unit of time: every bucket earns a token.
Tick ==
    /\ tokens' = [b \in Keys \X Classes |-> Refill(tokens[b])]
    /\ cooldown' = [k \in Keys |-> Less(cooldown[k])]
    /\ open' = [k \in Keys |-> Less(open[k])]
    /\ req' = [t \in Tasks |-> IF At(t, "sleep") THEN [req[t] EXCEPT !.wait = Less(@)]
                               ELSE req[t]]
    /\ load' = [b \in Keys \X Classes |-> Less(load[b])]
    /\ UNCHANGED <<fails, next>>

Answer(t) == Success(t) \/ RateLimited(t) \/ ClientError(t) \/ ServerError(t)

Step(t) ==
    \/ Retry(t)
    \/ Look(t)
    \/ Take(t)
    \/ Drain(t)
    \/ Wake(t)
    \/ Answer(t)
    \/ Close(t)
    \/ ApplicationError(t)
    \/ Open(t)
    \/ Reset(t)

Next ==
    \/ \E t \in Tasks : Start(t) \/ Step(t)
    \/ Tick

Spec == Init /\ [][Next]_vars

(***************************************************************************)
(* A request under way goes on: the client's timeout ends every call, and  *)
(* the runtime polls every task.  Nothing makes a task begin a request.    *)
(***************************************************************************)
FairSpec ==
    /\ Spec
    /\ WF_vars(Tick)
    /\ \A t \in Tasks : WF_vars(Step(t))

----------------------------------------------------------------------------
(***************************************************************************)
(* Properties.                                                             *)
(***************************************************************************)

\* The count that opens the breaker whatever the answer was.
Limit == IF MaxRetries >= AuthThreshold THEN MaxRetries ELSE AuthThreshold

\* A streak of failures always trips the breaker (record_failure): while the
\* count stands at the limit, some request is about to open the breaker or to
\* restart the count, however the counts, openings and resets of concurrent
\* requests interleave.
StreakTripsBreaker ==
    \A k \in Keys : fails[k] >= Limit =>
        \E t \in Tasks : req[t].key = k /\ req[t].pc \in {"open", "reset"}

\* Every request is answered or refused (request_json): it neither waits nor
\* retries for ever, whatever the other requests do to the keys.
RequestsEnd == \A t \in Tasks : ~At(t, "idle") ~> At(t, "idle")

\* A key that cools down or whose breaker is open becomes available again
\* without a success, which it could not get while nobody may use it.
KeysComeBack == \A k \in Keys : []<>Usable(k)

\* The pool recovers by itself: every request ends and every key comes back.
PoolRecovers == RequestsEnd /\ KeysComeBack

\* "Per-key token buckets": the requests let through on a key and class never
\* exceed what its bucket had and has earned since.
KeyIsMetered == \A b \in Keys \X Classes : load[b] <= Rate

(***************************************************************************)
(* The inductive invariant.                                                *)
(***************************************************************************)

\* A request that was let through, or sleeps to be, is on a key.
KeyIsKnown ==
    \A t \in Tasks :
        req[t].pc \in {"sleep", "answer", "close", "fault", "open", "reset"} =>
            req[t].key \in Keys

IndInv == TypeOK /\ KeyIsKnown /\ StreakTripsBreaker

=============================================================================
