-------------------------- MODULE HeliusPoolProofs --------------------------
(***************************************************************************)
(* What holds of the provider pool for any number of keys and tasks, any   *)
(* rate, thresholds and times.                                             *)
(***************************************************************************)
EXTENDS HeliusPool, TLAPS

Requests ==
    [pc : Pcs, start : 0..(N - 1), off : 0..(N - 1), best : 0..N, wait : Nat,
     key : 0..N, attempt : 0..MaxRetries, retry : BOOLEAN]

Placed(r) ==
    r.pc \in {"sleep", "answer", "close", "fault", "open", "reset"} => r.key \in Keys

Pending(r, k) == r.key = k /\ r.pc \in {"open", "reset"}

USE SizesAssumption, RetriesAssumption, SpansAssumption, ClassesAssumption

\* The round robin always comes to a key of the pool (pick_provider).
LEMMA CandidateIsKey ==
    ASSUME TypeOK, NEW t \in Tasks
    PROVE  Candidate(t) \in Keys
<1>1. req[t].start + req[t].off \in Nat
  BY DEF TypeOK
<1>2. \A n \in Nat : n % N \in 0..(N - 1)
  OBVIOUS
<1> QED
  BY <1>1, <1>2 DEF Candidate, Keys

\* The idle request is a request.
LEMMA IdleIsRequest == Idle \in Requests /\ Idle.pc = "idle"
  BY DEF Requests, Idle, NoKey, Pcs

\* Updates of a request's fields: the next six lemmas.  A request that moves on.
LEMMA Moved ==
    ASSUME NEW r \in Requests, NEW pc \in Pcs
    PROVE  /\ [r EXCEPT !.pc = pc] \in Requests
           /\ [r EXCEPT !.pc = pc].pc = pc
           /\ [r EXCEPT !.pc = pc].key = r.key
  BY DEF Requests

\* A request that moves on to another key of the round.
LEMMA Stepped ==
    ASSUME NEW r \in Requests, NEW pc \in Pcs, NEW off \in 0..(N - 1)
    PROVE  /\ [r EXCEPT !.pc = pc, !.off = off] \in Requests
           /\ [r EXCEPT !.pc = pc, !.off = off].pc = pc
           /\ [r EXCEPT !.pc = pc, !.off = off].key = r.key
  BY DEF Requests

\* A request that begins another attempt.
LEMMA Attempted ==
    ASSUME NEW r \in Requests, NEW pc \in Pcs, NEW n \in 0..MaxRetries
    PROVE  /\ [r EXCEPT !.pc = pc, !.attempt = n] \in Requests
           /\ [r EXCEPT !.pc = pc, !.attempt = n].pc = pc
           /\ [r EXCEPT !.pc = pc, !.attempt = n].key = r.key
  BY DEF Requests

\* A request that knows whether it may be retried.
LEMMA Decided ==
    ASSUME NEW r \in Requests, NEW b \in BOOLEAN
    PROVE  /\ [r EXCEPT !.retry = b] \in Requests
           /\ [r EXCEPT !.retry = b].pc = r.pc
           /\ [r EXCEPT !.retry = b].key = r.key
  BY DEF Requests

\* A search that ends on a key.
LEMMA Found ==
    ASSUME NEW r \in Requests, NEW k \in Keys
    PROVE  /\ Picked(r, k) \in Requests
           /\ Picked(r, k).pc = r.pc
           /\ Picked(r, k).key = k
<1>1. k \in 0..N /\ NoKey \in 0..N /\ 0 \in 0..(N - 1)
  BY DEF Keys, NoKey
<1> QED
  BY <1>1 DEF Picked, Requests

\* A request that begins to sleep.
LEMMA Waiting ==
    ASSUME NEW r \in Requests, NEW pc \in Pcs, NEW w \in Nat
    PROVE  /\ [r EXCEPT !.pc = pc, !.wait = w] \in Requests
           /\ [r EXCEPT !.pc = pc, !.wait = w].pc = pc
           /\ [r EXCEPT !.pc = pc, !.wait = w].key = r.key
  BY DEF Requests

\* A search that remembers a shorter wait.
LEMMA BetterIsRequest ==
    ASSUME NEW r \in Requests, NEW k \in Keys, NEW w \in Nat
    PROVE  Better(r, k, w) \in Requests
<1>1. k \in 0..N
  BY DEF Keys
<1>2. [r EXCEPT !.best = k, !.wait = w] \in Requests
  BY <1>1 DEF Requests
<1> QED
  BY <1>2, Zenon DEF Better

\* A failure ends the request or begins its next attempt.
LEMMA AfterIsRequest ==
    ASSUME NEW r \in Requests
    PROVE  /\ After(r) \in Requests
           /\ After(r).pc \in {"idle", "pick"}
<1>1. CASE r.retry /\ NextAttempt(r.attempt) <= MaxRetries
  <2>1. After(r) = [Idle EXCEPT !.pc = "pick", !.attempt = NextAttempt(r.attempt)]
    BY <1>1 DEF After
  <2>2. NextAttempt(r.attempt) \in 0..MaxRetries /\ "pick" \in Pcs
    BY <1>1 DEF NextAttempt, Requests, Pcs
  <2> DEFINE q == [Idle EXCEPT !.pc = "pick", !.attempt = NextAttempt(r.attempt)]
  <2>3. q \in Requests
    BY <2>2, IdleIsRequest, Attempted, Zenon
  <2>4. q.pc = "pick"
    BY <2>2, IdleIsRequest, Attempted, Zenon
  <2> QED
    BY <2>1, <2>3, <2>4
<1>2. CASE ~(r.retry /\ NextAttempt(r.attempt) <= MaxRetries)
  BY <1>2, IdleIsRequest, Zenon DEF After
<1> QED
  BY <1>1, <1>2

\* The next step of the search is a request, and a sleeper has a key.
LEMMA GoOnIsRequest ==
    ASSUME NEW r \in Requests
    PROVE  /\ GoOn(r) \in Requests
           /\ GoOn(r).pc \in {"look", "sleep", "drain"}
           /\ GoOn(r).pc = "sleep" => GoOn(r).key \in Keys
<1>0. "look" \in Pcs /\ "sleep" \in Pcs /\ "drain" \in Pcs /\ 0 \in 0..(N - 1)
  BY DEF Pcs
<1>1. CASE r.off < N - 1
  <2> DEFINE q == [r EXCEPT !.pc = "look", !.off = r.off + 1]
  <2>1. r.off + 1 \in 0..(N - 1)
    BY <1>1 DEF Requests
  <2>2. GoOn(r) = q
    BY <1>1, Zenon DEF GoOn
  <2>3. q \in Requests
    BY <1>0, <2>1, Stepped, Zenon
  <2>4. q.pc = "look"
    BY <1>0, <2>1, Stepped, Zenon
  <2> HIDE DEF q
  <2> QED
    BY <2>2, <2>3, <2>4
<1>2. CASE ~(r.off < N - 1) /\ r.best # NoKey
  <2> DEFINE p == Picked(r, r.best)
             q == [p EXCEPT !.pc = "sleep", !.wait = Min2(r.wait, MaxSleep)]
  <2>1. r.best \in Keys /\ Min2(r.wait, MaxSleep) \in Nat
    BY <1>2 DEF Requests, Keys, NoKey, Min2
  <2>2. GoOn(r) = q
    BY <1>2, Zenon DEF GoOn
  <2>3. p \in Requests /\ p.key = r.best
    BY <2>1, Found, Zenon
  <2> HIDE DEF p
  <2>4. q \in Requests
    BY <1>0, <2>1, <2>3, Waiting, Zenon
  <2>5. q.pc = "sleep" /\ q.key = p.key
    BY <2>3 DEF Requests
  <2> HIDE DEF q
  <2> QED
    BY <2>1, <2>2, <2>3, <2>4, <2>5
<1>3. CASE ~(r.off < N - 1) /\ ~(r.best # NoKey)
  <2> DEFINE q == [r EXCEPT !.pc = "drain", !.off = 0]
  <2>1. GoOn(r) = q
    BY <1>3, Zenon DEF GoOn
  <2>2. q \in Requests
    BY <1>0, Stepped, Zenon
  <2>3. q.pc = "drain"
    BY <1>0, Stepped, Zenon
  <2> HIDE DEF q
  <2> QED
    BY <2>1, <2>2, <2>3
<1> QED
  BY <1>1, <1>2, <1>3

\* The wait try_acquire reports is 0 only with a token in the bucket.
LEMMA WaitIsNat ==
    ASSUME TypeOK, NEW k \in Keys, NEW c \in Classes
    PROVE  /\ WaitFor(k, c) \in Nat
           /\ WaitFor(k, c) = 0 => tokens[<<k, c>>] > 0
<1>1. /\ cooldown[k] \in Nat
      /\ open[k] \in Nat
      /\ tokens[<<k, c>>] \in Nat
  BY DEF TypeOK
<1> QED
  BY <1>1 DEF WaitFor

\* A task's request is a request.
LEMMA ReqTypes ==
    ASSUME TypeOK, NEW t \in Tasks
    PROVE  req[t] \in Requests
  BY DEF TypeOK, Requests

\* What a step of task t does to the types of the requests and to KeyIsKnown
\* depends on its own request only.
LEMMA OneRequest ==
    ASSUME IndInv, NEW t \in Tasks, NEW q \in Requests, Placed(q), Becomes(t, q)
    PROVE  /\ req' \in [Tasks -> Requests]
           /\ KeyIsKnown'
<1>1. req \in [Tasks -> Requests]
  BY DEF IndInv, TypeOK, Requests
<1>2. \A u \in Tasks : req'[u] = IF u = t THEN q ELSE req[u]
  BY <1>1 DEF Becomes
<1>3. req' \in [Tasks -> Requests]
  BY <1>1 DEF Becomes
<1>4. ASSUME NEW u \in Tasks PROVE Placed(req'[u])
  <2>1. CASE u = t
    BY <1>2, <2>1
  <2>2. CASE u # t
    <3>1. Placed(req[u])
      BY DEF IndInv, KeyIsKnown, Placed
    <3> QED
      BY <1>2, <2>2, <3>1
  <2> QED
    BY <2>1, <2>2
<1> QED
  BY <1>3, <1>4 DEF KeyIsKnown, Placed

\* A step that leaves the counts alone keeps the breaker's promise, unless it
\* takes a pending request away.
LEMMA SameCounts ==
    ASSUME IndInv, NEW t \in Tasks, NEW q \in Requests, Becomes(t, q),
           UNCHANGED fails,
           \A k \in Keys : Pending(req[t], k) => Pending(q, k)
    PROVE  StreakTripsBreaker'
<1>1. req \in [Tasks -> Requests]
  BY DEF IndInv, TypeOK, Requests
<1>2. \A u \in Tasks : req'[u] = IF u = t THEN q ELSE req[u]
  BY <1>1 DEF Becomes
<1>3. ASSUME NEW k \in Keys, fails'[k] >= Limit
      PROVE  \E u \in Tasks : Pending(req'[u], k)
  <2>1. PICK u \in Tasks : Pending(req[u], k)
    BY <1>3 DEF IndInv, StreakTripsBreaker, Pending
  <2>2. Pending(req'[u], k)
    BY <1>2, <2>1
  <2> QED
    BY <2>2
<1> QED
  BY <1>3 DEF StreakTripsBreaker, Pending, Limit

\* A count that starts again is below the limit.
LEMMA CountRestarts ==
    ASSUME IndInv, NEW t \in Tasks, NEW q \in Requests, Becomes(t, q),
           req[t].key \in Keys, fails' = [fails EXCEPT ![req[t].key] = 0]
    PROVE  StreakTripsBreaker'
<1>1. req \in [Tasks -> Requests] /\ fails \in [Keys -> Nat]
  BY DEF IndInv, TypeOK, Requests
<1>2. \A u \in Tasks : req'[u] = IF u = t THEN q ELSE req[u]
  BY <1>1 DEF Becomes
<1>3. Limit \in Nat \ {0}
  BY DEF Limit
<1>4. ASSUME NEW k \in Keys, fails'[k] >= Limit
      PROVE  \E u \in Tasks : Pending(req'[u], k)
  <2>1. k # req[t].key /\ fails[k] >= Limit
    BY <1>1, <1>3, <1>4
  <2>2. PICK u \in Tasks : Pending(req[u], k)
    BY <2>1 DEF IndInv, StreakTripsBreaker, Pending
  <2>3. u # t
    BY <2>1, <2>2 DEF Pending
  <2> QED
    BY <1>2, <2>2, <2>3
<1> QED
  BY <1>4 DEF StreakTripsBreaker, Pending, Limit

\* A failure counts, and at the limit its own request opens the breaker.
LEMMA FailureCounts ==
    ASSUME IndInv, NEW t \in Tasks, NEW threshold \in Nat, NEW retry \in BOOLEAN,
           threshold <= Limit, req[t].pc \in {"answer", "fault"},
           Fault(t, threshold, retry)
    PROVE  /\ fails' \in [Keys -> Nat]
           /\ req' \in [Tasks -> Requests]
           /\ KeyIsKnown'
           /\ StreakTripsBreaker'
<1> DEFINE k0 == req[t].key
           r == [req[t] EXCEPT !.retry = retry]
           trips == Trips(fails[k0] + 1, threshold)
           o == [r EXCEPT !.pc = "open"]
           q == IF trips THEN o ELSE After(r)
<1>1. req \in [Tasks -> Requests] /\ fails \in [Keys -> Nat] /\ k0 \in Keys
  BY DEF IndInv, TypeOK, Requests, KeyIsKnown
<1>2. r \in Requests
  BY <1>1, Decided, Zenon
<1>3. r.key = k0
  BY <1>1, Decided, Zenon
<1>4. Becomes(t, q) /\ fails' = [fails EXCEPT ![k0] = @ + 1]
  BY Zenon DEF Fault
<1>5. "open" \in Pcs
  BY DEF Pcs
<1> HIDE DEF r
<1>6. o \in Requests
  BY <1>2, <1>5, Moved, Zenon
<1>7. o.pc = "open"
  BY <1>2, <1>5, Moved, Zenon
<1>8. o.key = k0
  BY <1>2, <1>3, <1>5, Moved, Zenon
<1>9. After(r) \in Requests /\ After(r).pc \in {"idle", "pick"}
  BY <1>2, AfterIsRequest
<1> HIDE DEF o
<1>10. q \in Requests /\ Placed(q)
  BY <1>1, <1>6, <1>8, <1>9 DEF Placed
<1>11. trips => Pending(q, k0)
  BY <1>7, <1>8 DEF Pending
<1> HIDE DEF q
<1>12. req' \in [Tasks -> Requests] /\ KeyIsKnown'
  BY <1>4, <1>10, OneRequest
<1>13. \A u \in Tasks : req'[u] = IF u = t THEN q ELSE req[u]
  BY <1>1, <1>4 DEF Becomes
<1>14. ASSUME NEW k \in Keys, fails'[k] >= Limit
       PROVE  \E u \in Tasks : Pending(req'[u], k)
  <2>1. CASE k = k0
    <3>1. fails[k0] + 1 >= threshold
      BY <1>1, <1>4, <1>14, <2>1 DEF Limit
    <3> QED
      BY <1>11, <1>13, <2>1, <3>1 DEF Trips
  <2>2. CASE k # k0
    <3>1. fails[k] >= Limit
      BY <1>1, <1>4, <1>14, <2>2
    <3>2. PICK u \in Tasks : Pending(req[u], k)
      BY <3>1 DEF IndInv, StreakTripsBreaker, Pending
    <3>3. u # t
      BY <2>2, <3>2 DEF Pending
    <3> QED
      BY <1>13, <3>2, <3>3
  <2> QED
    BY <2>1, <2>2
<1>15. fails' \in [Keys -> Nat]
  BY <1>1, <1>4
<1> QED
  BY <1>12, <1>14, <1>15 DEF StreakTripsBreaker, Pending, Limit

\* TypeOK in the next state, from its parts.
LEMMA Typed ==
    ASSUME tokens' \in [Keys \X Classes -> 0..Rate],
           cooldown' \in [Keys -> 0..MaxCooldown],
           open' \in [Keys -> 0..OpenTime],
           fails' \in [Keys -> Nat],
           next' \in 0..(N - 1),
           req' \in [Tasks -> Requests],
           load' \in [Keys \X Classes -> 0..MaxLoad]
    PROVE  TypeOK'
  BY Zenon DEF TypeOK, Requests

\* What a request adds to the monitor stays within its bound.
LEMMA Loaded ==
    ASSUME TypeOK, NEW b \in Keys \X Classes, LetThrough(b)
    PROVE  load' \in [Keys \X Classes -> 0..MaxLoad]
<1>1. load \in [Keys \X Classes -> 0..MaxLoad]
  BY DEF TypeOK
<1>2. Min2(load[b] + 1, MaxLoad) \in 0..MaxLoad
  BY <1>1 DEF Min2
<1> QED
  BY <1>1, <1>2 DEF LetThrough

\* A token that try_acquire gives was in the bucket.
LEMMA Acquired ==
    ASSUME TypeOK, NEW k \in Keys, NEW c \in Classes, WaitFor(k, c) = 0
    PROVE  [tokens EXCEPT ![<<k, c>>] = @ - 1] \in [Keys \X Classes -> 0..Rate]
<1>1. tokens \in [Keys \X Classes -> 0..Rate] /\ <<k, c>> \in Keys \X Classes
  BY DEF TypeOK
<1>2. tokens[<<k, c>>] > 0
  BY WaitIsNat
<1>3. tokens[<<k, c>>] - 1 \in 0..Rate
  BY <1>1, <1>2
<1> QED
  BY <1>1, <1>3

\* The cursor moves on and the search begins.
LEMMA PickInv ==
    ASSUME IndInv, NEW t \in Tasks, Start(t) \/ Retry(t)
    PROVE  IndInv'
<1> DEFINE q == [Now(t, "look") EXCEPT !.start = next]
<1>1. req[t] \in Requests /\ next \in 0..(N - 1)
  BY ReqTypes DEF IndInv, TypeOK
<1>2. q \in Requests /\ q.pc = "look"
  BY <1>1 DEF Now, Requests, Pcs
<1>3. req[t].pc \in {"idle", "pick"} /\ Pick(t)
  BY DEF Start, Retry, At
<1>4. Becomes(t, q) /\ next' = (next + 1) % N
  BY <1>3 DEF Pick
<1>5. UNCHANGED <<tokens, keyvars, load>>
  BY <1>3 DEF Pick
<1> HIDE DEF q
<1>6. req' \in [Tasks -> Requests] /\ KeyIsKnown'
  BY <1>2, <1>4, OneRequest DEF Placed
<1>7. StreakTripsBreaker'
  BY <1>2, <1>3, <1>4, <1>5, SameCounts DEF keyvars, Pending
<1>8. next' \in 0..(N - 1)
  <2>1. \A n \in Nat : n % N \in 0..(N - 1)
    OBVIOUS
  <2> QED
    BY <1>1, <1>4, <2>1
<1>9. TypeOK'
  BY <1>5, <1>6, <1>8, Typed DEF IndInv, TypeOK, keyvars
<1> QED
  BY <1>6, <1>7, <1>9 DEF IndInv

\* is_available of the next key.
LEMMA LookInv ==
    ASSUME IndInv, NEW t \in Tasks, Look(t)
    PROVE  IndInv'
<1> DEFINE q == IF Usable(Candidate(t)) THEN Now(t, "take") ELSE GoOn(req[t])
<1>1. req[t] \in Requests /\ req[t].pc = "look"
  BY ReqTypes DEF IndInv, Look, At
<1>2. Now(t, "take") \in Requests /\ Now(t, "take").pc = "take"
  BY <1>1 DEF Now, Requests, Pcs
<1>3. q \in Requests /\ Placed(q)
  BY <1>1, <1>2, GoOnIsRequest DEF Placed
<1>4. Becomes(t, q) /\ UNCHANGED <<tokens, keyvars, next, load>>
  BY DEF Look
<1> HIDE DEF q
<1>5. req' \in [Tasks -> Requests] /\ KeyIsKnown'
  BY <1>3, <1>4, OneRequest
<1>6. StreakTripsBreaker'
  BY <1>1, <1>3, <1>4, SameCounts DEF keyvars, Pending
<1>7. TypeOK'
  BY <1>4, <1>5, Typed DEF IndInv, TypeOK, keyvars
<1> QED
  BY <1>5, <1>6, <1>7 DEF IndInv

\* try_acquire of the next key: the request leaves with a token, or goes on.
LEMMA TakeInv ==
    ASSUME IndInv, NEW t \in Tasks, Take(t)
    PROVE  IndInv'
<1> DEFINE k == Candidate(t)
           c == ClassOf[t]
           a == [Picked(req[t], k) EXCEPT !.pc = "answer"]
           g == GoOn(Better(req[t], k, WaitFor(k, c)))
<1>1. req[t] \in Requests /\ req[t].pc = "take" /\ TypeOK
  BY ReqTypes DEF IndInv, Take, At
<1>2. k \in Keys /\ c \in Classes
  BY <1>1, CandidateIsKey
<1>3. UNCHANGED <<keyvars, next>>
  BY DEF Take
<1>4. ASSUME WaitFor(k, c) = 0
      PROVE  IndInv'
  <2>1. /\ tokens' = [tokens EXCEPT ![<<k, c>>] = @ - 1]
        /\ Becomes(t, a)
        /\ LetThrough(<<k, c>>)
    BY <1>4, Zenon DEF Take
  <2>2. Picked(req[t], k) \in Requests
    BY <1>1, <1>2, Found, Zenon
  <2>3. Picked(req[t], k).key = k
    BY <1>1, <1>2, Found, Zenon
  <2>4. "answer" \in Pcs
    BY DEF Pcs
  <2>5. a \in Requests
    BY <2>2, <2>4, Moved, Zenon
  <2>6. a.key = k
    BY <2>2, <2>3, <2>4, Moved, Zenon
  <2>7. tokens' \in [Keys \X Classes -> 0..Rate]
    BY <1>1, <1>2, <1>4, <2>1, Acquired, Zenon
  <2>8. <<k, c>> \in Keys \X Classes
    BY <1>2
  <2>9. load' \in [Keys \X Classes -> 0..MaxLoad]
    BY <1>1, <2>1, <2>8, Loaded, Zenon
  <2> HIDE DEF a, k, c
  <2>10. req' \in [Tasks -> Requests] /\ KeyIsKnown'
    BY <1>2, <2>1, <2>5, <2>6, OneRequest DEF Placed
  <2>11. StreakTripsBreaker'
    BY <1>1, <1>3, <2>1, <2>5, SameCounts DEF keyvars, Pending
  <2>12. TypeOK'
    BY <1>3, <2>7, <2>9, <2>10, Typed DEF IndInv, TypeOK, keyvars
  <2> QED
    BY <2>10, <2>11, <2>12 DEF IndInv
<1>5. ASSUME WaitFor(k, c) # 0
      PROVE  IndInv'
  <2>1. Becomes(t, g) /\ UNCHANGED <<tokens, load>>
    BY <1>5, Zenon DEF Take
  <2>2. WaitFor(k, c) \in Nat
    BY <1>1, <1>2, WaitIsNat
  <2>3. Better(req[t], k, WaitFor(k, c)) \in Requests
    BY <1>1, <1>2, <2>2, BetterIsRequest, Zenon
  <2>4. g \in Requests /\ Placed(g)
    BY <2>3, GoOnIsRequest DEF Placed
  <2> HIDE DEF g, k, c
  <2>5. req' \in [Tasks -> Requests] /\ KeyIsKnown'
    BY <2>1, <2>4, OneRequest
  <2>6. StreakTripsBreaker'
    BY <1>1, <1>3, <2>1, <2>4, SameCounts DEF keyvars, Pending
  <2>7. TypeOK'
    BY <1>3, <2>1, <2>5, Typed DEF IndInv, TypeOK, keyvars
  <2> QED
    BY <2>5, <2>6, <2>7 DEF IndInv
<1> QED
  BY <1>4, <1>5

\* The search for the shortest wait, which may cost tokens.
LEMMA DrainInv ==
    ASSUME IndInv, NEW t \in Tasks, Drain(t)
    PROVE  IndInv'
<1> DEFINE k == req[t].off + 1
           c == ClassOf[t]
           s == [req[t] EXCEPT !.off = req[t].off + 1]
           q == IF req[t].off < N - 1 THEN s ELSE Idle
<1>1. req[t] \in Requests /\ req[t].pc = "drain" /\ TypeOK
  BY ReqTypes DEF IndInv, Drain, At
<1>2. k \in Keys /\ c \in Classes
  BY <1>1 DEF Requests, Keys
<1>3. ASSUME req[t].off < N - 1 PROVE s \in Requests /\ s.pc = "drain"
  <2> DEFINE off == req[t].off + 1
  <2>1. off \in 0..(N - 1)
    BY <1>1, <1>3 DEF Requests
  <2> HIDE DEF off
  <2>2. [req[t] EXCEPT !.off = off] \in Requests
    BY <1>1, <2>1 DEF Requests
  <2>3. [req[t] EXCEPT !.off = off].pc = "drain"
    BY <1>1, <2>1 DEF Requests
  <2> QED
    BY <2>2, <2>3, Zenon DEF off
<1>4. q \in Requests /\ q.pc \in {"drain", "idle"}
  BY <1>3, IdleIsRequest, Zenon
<1>5. Becomes(t, q) /\ UNCHANGED <<keyvars, next, load>>
  BY Zenon DEF Drain
<1>6. tokens' = IF WaitFor(k, c) = 0 THEN [tokens EXCEPT ![<<k, c>>] = @ - 1]
                ELSE tokens
  BY Zenon DEF Drain
<1>7. tokens' \in [Keys \X Classes -> 0..Rate]
  <2>1. CASE WaitFor(k, c) = 0
    BY <1>1, <1>2, <1>6, <2>1, Acquired, Zenon
  <2>2. CASE WaitFor(k, c) # 0
    BY <1>1, <1>6, <2>2, Zenon DEF TypeOK
  <2> QED
    BY <2>1, <2>2
<1> HIDE DEF q, k, c
<1>8. req' \in [Tasks -> Requests] /\ KeyIsKnown'
  BY <1>4, <1>5, OneRequest DEF Placed
<1>9. StreakTripsBreaker'
  BY <1>1, <1>4, <1>5, SameCounts DEF keyvars, Pending
<1>10. TypeOK'
  BY <1>5, <1>7, <1>8, Typed DEF IndInv, TypeOK, keyvars
<1> QED
  BY <1>8, <1>9, <1>10 DEF IndInv

\* The sleeper leaves.
LEMMA WakeInv ==
    ASSUME IndInv, NEW t \in Tasks, Wake(t)
    PROVE  IndInv'
<1> DEFINE q == Now(t, "answer")
           b == <<req[t].key, ClassOf[t]>>
<1>1. req[t] \in Requests /\ req[t].pc = "sleep" /\ TypeOK /\ req[t].key \in Keys
  BY ReqTypes DEF IndInv, Wake, At, KeyIsKnown
<1>2. q \in Requests /\ q.pc = "answer" /\ q.key = req[t].key
  BY <1>1 DEF Now, Requests, Pcs
<1>3. Becomes(t, q) /\ LetThrough(b) /\ UNCHANGED <<tokens, keyvars, next>>
  BY Zenon DEF Wake
<1>4. b \in Keys \X Classes
  BY <1>1
<1>5. load' \in [Keys \X Classes -> 0..MaxLoad]
  BY <1>1, <1>3, <1>4, Loaded, Zenon
<1> HIDE DEF q, b
<1>6. req' \in [Tasks -> Requests] /\ KeyIsKnown'
  BY <1>1, <1>2, <1>3, OneRequest DEF Placed
<1>7. StreakTripsBreaker'
  BY <1>1, <1>2, <1>3, SameCounts DEF keyvars, Pending
<1>8. TypeOK'
  BY <1>3, <1>5, <1>6, Typed DEF IndInv, TypeOK, keyvars
<1> QED
  BY <1>6, <1>7, <1>8 DEF IndInv

\* A success restarts the count.
LEMMA SuccessInv ==
    ASSUME IndInv, NEW t \in Tasks, Success(t)
    PROVE  IndInv'
<1> DEFINE q == Now(t, "close")
<1>1. req[t] \in Requests /\ req[t].key \in Keys /\ fails \in [Keys -> Nat]
  BY ReqTypes DEF IndInv, Success, At, KeyIsKnown, TypeOK
<1>2. q \in Requests /\ q.pc = "close" /\ q.key = req[t].key
  BY <1>1 DEF Now, Requests, Pcs
<1>3. /\ Becomes(t, q)
      /\ fails' = [fails EXCEPT ![req[t].key] = 0]
      /\ UNCHANGED <<tokens, cooldown, open, next, load>>
  BY Zenon DEF Success
<1> HIDE DEF q
<1>4. req' \in [Tasks -> Requests] /\ KeyIsKnown'
  BY <1>1, <1>2, <1>3, OneRequest DEF Placed
<1>5. StreakTripsBreaker'
  BY <1>1, <1>2, <1>3, CountRestarts
<1>6. fails' \in [Keys -> Nat]
  BY <1>1, <1>3
<1>7. TypeOK'
  BY <1>3, <1>4, <1>6, Typed DEF IndInv, TypeOK
<1> QED
  BY <1>4, <1>5, <1>7 DEF IndInv

\* A success closes the breaker.
LEMMA CloseInv ==
    ASSUME IndInv, NEW t \in Tasks, Close(t)
    PROVE  IndInv'
<1>1. /\ req[t] \in Requests /\ req[t].key \in Keys /\ req[t].pc = "close"
      /\ open \in [Keys -> 0..OpenTime]
  BY ReqTypes DEF IndInv, Close, At, KeyIsKnown, TypeOK
<1>2. PICK q \in {Idle, Now(t, "fault")} : Becomes(t, q)
  BY DEF Close
<1>3. q \in Requests /\ Placed(q)
  <2>1. Now(t, "fault") \in Requests /\ Placed(Now(t, "fault"))
    BY <1>1 DEF Now, Requests, Pcs, Placed
  <2> QED
    BY <1>2, <2>1, IdleIsRequest DEF Placed
<1>4. /\ open' = [open EXCEPT ![req[t].key] = 0]
      /\ UNCHANGED <<tokens, cooldown, fails, next, load>>
  BY DEF Close
<1>5. req' \in [Tasks -> Requests] /\ KeyIsKnown'
  BY <1>2, <1>3, OneRequest
<1>6. StreakTripsBreaker'
  BY <1>1, <1>2, <1>3, <1>4, SameCounts DEF Pending
<1>7. open' \in [Keys -> 0..OpenTime]
  BY <1>1, <1>4
<1>8. TypeOK'
  BY <1>4, <1>5, <1>7, Typed DEF IndInv, TypeOK
<1> QED
  BY <1>5, <1>6, <1>8 DEF IndInv

\* The answers that are recorded as failures.
LEMMA FaultInv ==
    ASSUME IndInv, NEW t \in Tasks,
           ApplicationError(t) \/ ClientError(t) \/ ServerError(t)
    PROVE  IndInv'
<1>1. /\ UNCHANGED <<tokens, cooldown, open, next, load>>
      /\ req[t].pc \in {"answer", "fault"}
  BY DEF ApplicationError, ClientError, ServerError, At
<1>2. \/ Fault(t, MaxRetries, FALSE)
      \/ Fault(t, AuthThreshold, FALSE)
      \/ Fault(t, MaxRetries, TRUE)
  BY Zenon DEF ApplicationError, ClientError, ServerError
<1>3. /\ MaxRetries \in Nat /\ MaxRetries <= Limit
      /\ AuthThreshold \in Nat /\ AuthThreshold <= Limit
  BY DEF Limit
<1>4. TRUE \in BOOLEAN /\ FALSE \in BOOLEAN
  OBVIOUS
<1>5. /\ fails' \in [Keys -> Nat]
      /\ req' \in [Tasks -> Requests]
      /\ KeyIsKnown'
      /\ StreakTripsBreaker'
  BY <1>1, <1>2, <1>3, <1>4, FailureCounts, Zenon
<1>6. TypeOK'
  BY <1>1, <1>5, Typed DEF IndInv, TypeOK
<1> QED
  BY <1>5, <1>6 DEF IndInv

\* The key cools down and the request is tried again or fails.
LEMMA RateLimitedInv ==
    ASSUME IndInv, NEW t \in Tasks, RateLimited(t)
    PROVE  IndInv'
<1> DEFINE r == [req[t] EXCEPT !.retry = TRUE]
           q == After(r)
<1>1. /\ req[t] \in Requests /\ req[t].pc = "answer" /\ req[t].key \in Keys
      /\ cooldown \in [Keys -> 0..MaxCooldown]
  BY ReqTypes DEF IndInv, RateLimited, At, KeyIsKnown, TypeOK
<1>2. r \in Requests
  BY <1>1, Decided, Zenon
<1>3. Becomes(t, q) /\ UNCHANGED <<tokens, open, fails, next, load>>
  BY Zenon DEF RateLimited
<1> HIDE DEF r
<1>4. q \in Requests /\ q.pc \in {"idle", "pick"}
  BY <1>2, AfterIsRequest
<1> HIDE DEF q
<1>5. cooldown' \in [Keys -> 0..MaxCooldown]
  BY <1>1 DEF RateLimited
<1>6. req' \in [Tasks -> Requests] /\ KeyIsKnown'
  BY <1>3, <1>4, OneRequest DEF Placed
<1>7. StreakTripsBreaker'
  BY <1>1, <1>3, <1>4, SameCounts DEF Pending
<1>8. TypeOK'
  BY <1>3, <1>5, <1>6, Typed DEF IndInv, TypeOK
<1> QED
  BY <1>6, <1>7, <1>8 DEF IndInv

\* The breaker opens; the request stays pending until it restarts the count.
LEMMA OpenInv ==
    ASSUME IndInv, NEW t \in Tasks, Open(t)
    PROVE  IndInv'
<1> DEFINE q == Now(t, "reset")
<1>1. /\ req[t] \in Requests /\ req[t].pc = "open" /\ req[t].key \in Keys
      /\ open \in [Keys -> 0..OpenTime]
  BY ReqTypes DEF IndInv, Open, At, KeyIsKnown, TypeOK
<1>2. q \in Requests /\ q.pc = "reset" /\ q.key = req[t].key
  BY <1>1 DEF Now, Requests, Pcs
<1>3. /\ Becomes(t, q)
      /\ open' = [open EXCEPT ![req[t].key] = OpenTime]
      /\ UNCHANGED <<tokens, cooldown, fails, next, load>>
  BY Zenon DEF Open
<1> HIDE DEF q
<1>4. req' \in [Tasks -> Requests] /\ KeyIsKnown'
  BY <1>1, <1>2, <1>3, OneRequest DEF Placed
<1>5. StreakTripsBreaker'
  BY <1>1, <1>2, <1>3, SameCounts DEF Pending
<1>6. open' \in [Keys -> 0..OpenTime]
  BY <1>1, <1>3
<1>7. TypeOK'
  BY <1>3, <1>4, <1>6, Typed DEF IndInv, TypeOK
<1> QED
  BY <1>4, <1>5, <1>7 DEF IndInv

\* The count restarts and the request is tried again or fails.
LEMMA ResetInv ==
    ASSUME IndInv, NEW t \in Tasks, Reset(t)
    PROVE  IndInv'
<1> DEFINE q == After(req[t])
<1>1. req[t] \in Requests /\ req[t].key \in Keys /\ fails \in [Keys -> Nat]
  BY ReqTypes DEF IndInv, Reset, At, KeyIsKnown, TypeOK
<1>2. q \in Requests /\ q.pc \in {"idle", "pick"}
  BY <1>1, AfterIsRequest
<1>3. /\ Becomes(t, q)
      /\ fails' = [fails EXCEPT ![req[t].key] = 0]
      /\ UNCHANGED <<tokens, cooldown, open, next, load>>
  BY Zenon DEF Reset
<1> HIDE DEF q
<1>4. req' \in [Tasks -> Requests] /\ KeyIsKnown'
  BY <1>2, <1>3, OneRequest DEF Placed
<1>5. StreakTripsBreaker'
  BY <1>1, <1>2, <1>3, CountRestarts
<1>6. fails' \in [Keys -> Nat]
  BY <1>1, <1>3
<1>7. TypeOK'
  BY <1>3, <1>4, <1>6, Typed DEF IndInv, TypeOK
<1> QED
  BY <1>4, <1>5, <1>7 DEF IndInv

\* Time changes neither where a request is nor a count.
LEMMA TickInv ==
    ASSUME IndInv, Tick
    PROVE  IndInv'
<1>1. /\ tokens \in [Keys \X Classes -> 0..Rate]
      /\ cooldown \in [Keys -> 0..MaxCooldown]
      /\ open \in [Keys -> 0..OpenTime]
      /\ req \in [Tasks -> Requests]
      /\ load \in [Keys \X Classes -> 0..MaxLoad]
  BY DEF IndInv, TypeOK, Requests
<1>2. /\ \A n \in 0..Rate : Refill(n) \in 0..Rate
      /\ \A n \in 0..MaxCooldown : Less(n) \in 0..MaxCooldown
      /\ \A n \in 0..OpenTime : Less(n) \in 0..OpenTime
      /\ \A n \in 0..MaxLoad : Less(n) \in 0..MaxLoad
      /\ \A n \in Nat : Less(n) \in Nat
  BY DEF Refill, Less, Min2
<1>3. /\ tokens' \in [Keys \X Classes -> 0..Rate]
      /\ cooldown' \in [Keys -> 0..MaxCooldown]
      /\ open' \in [Keys -> 0..OpenTime]
      /\ load' \in [Keys \X Classes -> 0..MaxLoad]
  BY <1>1, <1>2 DEF Tick
<1>4. ASSUME NEW t \in Tasks
      PROVE  req'[t] \in Requests /\ req'[t].pc = req[t].pc /\ req'[t].key = req[t].key
  <2> DEFINE w == Less(req[t].wait)
  <2>1. req[t] \in Requests /\ w \in Nat
    BY <1>1, <1>2 DEF Requests
  <2>2. req'[t] = IF At(t, "sleep") THEN [req[t] EXCEPT !.wait = w] ELSE req[t]
    BY DEF Tick
  <2> HIDE DEF w
  <2> QED
    BY <2>1, <2>2 DEF Requests
<1>5. req' \in [Tasks -> Requests]
  BY <1>4 DEF Tick
<1>6. UNCHANGED <<fails, next>>
  BY DEF Tick
<1>7. TypeOK'
  BY <1>3, <1>5, <1>6, Typed DEF IndInv, TypeOK
<1>8. KeyIsKnown'
  BY <1>4 DEF IndInv, KeyIsKnown
<1>9. StreakTripsBreaker'
  BY <1>4, <1>6 DEF IndInv, StreakTripsBreaker, Limit
<1> QED
  BY <1>7, <1>8, <1>9 DEF IndInv

\* The inductive invariant holds in every state.
THEOREM Invariance == Spec => []IndInv
<1>1. Init => IndInv
  <2> SUFFICES ASSUME Init PROVE IndInv
    OBVIOUS
  <2>1. req \in [Tasks -> Requests] /\ \A t \in Tasks : req[t].pc = "idle"
    BY IdleIsRequest DEF Init
  <2>2. TypeOK
    BY <2>1 DEF Init, TypeOK, Requests, Keys
  <2>3. KeyIsKnown
    BY <2>1 DEF KeyIsKnown
  <2>4. StreakTripsBreaker
    BY DEF Init, StreakTripsBreaker, Limit
  <2> QED
    BY <2>2, <2>3, <2>4 DEF IndInv
<1>2. IndInv /\ [Next]_vars => IndInv'
  <2> SUFFICES ASSUME IndInv, [Next]_vars PROVE IndInv'
    OBVIOUS
  <2>1. ASSUME NEW t \in Tasks, Start(t) \/ Step(t) PROVE IndInv'
    BY <2>1, PickInv, LookInv, TakeInv, DrainInv, WakeInv, SuccessInv, CloseInv,
       FaultInv, RateLimitedInv, OpenInv, ResetInv, Zenon DEF Step, Answer
  <2>2. CASE Tick
    BY <2>2, TickInv
  <2>3. CASE UNCHANGED vars
    BY <2>3 DEF vars, IndInv, TypeOK, KeyIsKnown, StreakTripsBreaker, Limit
  <2> QED
    BY <2>1, <2>2, <2>3 DEF Next
<1> QED
  BY <1>1, <1>2, PTL DEF Spec

\* The pool stays in its types: buckets within their capacity, attempts within
\* the retries, cursors within the pool.
THEOREM TypeCorrect == Spec => []TypeOK
<1>1. IndInv => TypeOK
  BY DEF IndInv
<1> QED
  BY <1>1, Invariance, PTL

\* A count at the limit always has a request that is about to open the breaker
\* or to restart the count (record_failure), for any number of tasks.
THEOREM StreaksTrip == Spec => []StreakTripsBreaker
<1>1. IndInv => StreakTripsBreaker
  BY DEF IndInv
<1> QED
  BY <1>1, Invariance, PTL

=============================================================================
