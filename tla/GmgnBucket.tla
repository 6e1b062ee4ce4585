----------------------------- MODULE GmgnBucket -----------------------------
(***************************************************************************)
(* The GMGN client (gmgn.rs): one caller, the discovery worker, that asks  *)
(* a weighted token bucket before each request, sleeps when it is empty    *)
(* and pauses it when GMGN answers 429.  A tick is the time in which the   *)
(* bucket earns GmRate tokens; sleeps that are shorter take no tick.       *)
(***************************************************************************)
EXTENDS Integers, FiniteSetsExt

CONSTANTS GmCapacity, GmRate,
          GmCosts,         \* RouteWeight::cost of the routes that are asked for
          GmMaxSleep,      \* the longest sleep between two attempts
          GmMaxPause,      \* the longest pause an answer can ask for
          GmMaxLimited     \* bound on the answers that say 429

ASSUME GmAssumption ==
  /\ GmCapacity \in Nat \ {0} /\ GmRate \in Nat \ {0}
  /\ GmMaxSleep \in Nat \ {0} /\ GmMaxPause \in Nat \ {0} /\ GmMaxLimited \in Nat
  /\ GmCosts \subseteq 1..GmCapacity

VARIABLES gmTokens,
          gmElapsed,   \* ticks since last_refill
          gmPause,     \* pause_until: ticks until then, NoPause when it is None
          gmQuery,     \* the query of the caller: [pc, cost, sleep]
          gmLimited,   \* 429 answers so far
          gmCredit,    \* history: what a bucket that never pauses would have left
          gmPaused     \* history: spent since the pause that is in force began

gmVars == <<gmTokens, gmElapsed, gmPause, gmQuery, gmLimited, gmCredit, gmPaused>>

NoPause == -1
GmIdle == [pc |-> "idle", cost |-> 0, sleep |-> 0]
AtMost(x, limit) == IF x < limit THEN x ELSE limit
CeilDiv(a, b) == (a + b - 1) \div b

\* What refill leaves: [tokens, elapsed, pause].
Unrefilled == [tokens |-> gmTokens, elapsed |-> gmElapsed, pause |-> gmPause]
EarnedSince(elapsed) == AtMost(gmTokens + elapsed * GmRate, GmCapacity)

\* Mutant: last_refill is left alone, and the same time is credited twice.
RefillKeepsLast ==
  IF gmPause > 0 THEN Unrefilled
  ELSE [tokens |-> EarnedSince(gmElapsed), elapsed |-> gmElapsed, pause |-> NoPause]

\* Mutant: a pause that is over is not cleared and goes on stopping the refill.
RefillNeverResumes ==
  IF gmPause # NoPause THEN Unrefilled
  ELSE [tokens |-> EarnedSince(gmElapsed), elapsed |-> 0, pause |-> NoPause]

\* refill: nothing during a pause; after it, for all the time since last_refill.
Refill ==
  IF gmPause > 0 THEN Unrefilled
  ELSE [tokens |-> EarnedSince(gmElapsed), elapsed |-> 0, pause |-> NoPause]

\* query, up to the loop.
Query(cost) ==
  /\ gmQuery.pc = "idle"
  /\ gmQuery' = [pc |-> "acquire", cost |-> cost, sleep |-> 0]
  /\ UNCHANGED <<gmTokens, gmElapsed, gmPause, gmLimited, gmCredit, gmPaused>>

\* try_acquire: the tokens are taken and the request is sent, also in a pause
\* while there are tokens, or the caller sleeps for the deficit or the pause.
TryAcquire ==
  /\ gmQuery.pc = "acquire" /\ gmQuery.sleep = 0
  /\ LET r == Refill
         wait == Max({CeilDiv(gmQuery.cost - r.tokens, GmRate), r.pause})
     IN /\ gmElapsed' = r.elapsed /\ gmPause' = r.pause
        /\ IF r.tokens >= gmQuery.cost
           THEN /\ gmTokens' = r.tokens - gmQuery.cost
                /\ gmQuery' = [gmQuery EXCEPT !.pc = "sent"]
                /\ gmCredit' = gmCredit - gmQuery.cost
                /\ gmPaused' = IF gmPause > 0 THEN gmPaused + gmQuery.cost ELSE 0
           ELSE /\ gmTokens' = r.tokens
                /\ gmQuery' = [gmQuery EXCEPT !.sleep = AtMost(wait, GmMaxSleep)]
                /\ UNCHANGED <<gmCredit, gmPaused>>
  /\ UNCHANGED gmLimited

\* An answer, an error, or the timeout of the HTTP client.
Answered ==
  /\ gmQuery.pc = "sent"
  /\ gmQuery' = GmIdle
  /\ UNCHANGED <<gmTokens, gmElapsed, gmPause, gmLimited, gmCredit, gmPaused>>

\* 429: pause_for replaces the pause that is in force, and the loop goes on.
TooManyRequests ==
  /\ gmQuery.pc = "sent" /\ gmLimited < GmMaxLimited
  /\ \E pause \in 0..GmMaxPause : gmPause' = pause
  /\ gmPaused' = IF gmPause > 0 THEN gmPaused ELSE 0
  /\ gmQuery' = [gmQuery EXCEPT !.pc = "acquire"]
  /\ gmLimited' = gmLimited + 1
  /\ UNCHANGED <<gmTokens, gmElapsed, gmCredit>>

\* Time passes; what would only overfill the bucket is not counted.
GmTick ==
  /\ gmElapsed' = AtMost(gmElapsed + 1, CeilDiv(GmCapacity, GmRate))
  /\ gmPause' = IF gmPause > 0 THEN gmPause - 1 ELSE gmPause
  /\ gmQuery' = [gmQuery EXCEPT !.sleep = IF @ > 0 THEN @ - 1 ELSE 0]
  /\ gmCredit' = AtMost(gmCredit + GmRate, GmCapacity)
  /\ UNCHANGED <<gmTokens, gmLimited, gmPaused>>

GmInit ==
  /\ gmTokens = GmCapacity /\ gmElapsed = 0 /\ gmPause = NoPause
  /\ gmQuery = GmIdle /\ gmLimited = 0 /\ gmCredit = GmCapacity /\ gmPaused = 0

GmWork == TryAcquire \/ Answered \/ TooManyRequests
GmNext == GmWork \/ GmTick \/ \E cost \in GmCosts : Query(cost)

GmSpec == GmInit /\ [][GmNext]_gmVars

-----------------------------------------------------------------------------
\* The limit is kept to within one bucket.  What is spent in a pause comes out
\* of tokens that the time of the pause was credited on top of, so after a pause
\* the client can be ahead of a bucket of that capacity and rate that never
\* pauses; however many pauses follow each other, by its capacity and no more.
GmWithinBudget == gmCredit >= -GmCapacity

\* After a 429 the client can go on with the tokens it has, and no more: what it
\* spends until the pause is over fits in one bucket.
PausedSpendIsBounded == gmPaused <= GmCapacity

\* The rate GMGN sees stays bounded through pauses.
GmRateIsBounded == GmWithinBudget /\ PausedSpendIsBounded

\* When the 429 answers stop, a query ends: neither a pause nor an empty bucket
\* holds it for ever.
QueryEnds == (gmQuery.pc # "idle") ~> (gmQuery.pc = "idle")

\* `Optional hard pause`: nothing is sent while the pause is in force.
PauseIsHard == [][gmQuery.pc = "acquire" /\ gmQuery'.pc = "sent" => gmPause <= 0]_gmVars

-----------------------------------------------------------------------------
(* The inductive invariant behind GmRateIsBounded.                         *)

GmTypeOK ==
  /\ gmTokens \in 0..GmCapacity /\ gmElapsed \in Nat /\ gmPause \in Int
  /\ gmQuery \in [pc : {"idle", "acquire", "sent"}, cost : 0..GmCapacity, sleep : Int]
  /\ gmLimited \in Nat /\ gmCredit \in Int /\ gmPaused \in Nat

\* The client is ahead by no more than the time it has not been credited for
\* leaves of a bucket: while time is still owed the gap is what was spent in
\* the pause, and once a bucket's worth is owed there is none.
AheadByOneBucket ==
  gmCredit >= gmTokens + (IF gmElapsed * GmRate < GmCapacity
                          THEN gmElapsed * GmRate - GmCapacity ELSE 0)

\* Nothing is earned in a pause, so what it spends comes out of the tokens it
\* began with.
PauseSpendsTokens == gmPause > 0 => gmPaused + gmTokens <= GmCapacity

GmIndInv == GmTypeOK /\ AheadByOneBucket /\ PauseSpendsTokens /\ PausedSpendIsBounded
=============================================================================
