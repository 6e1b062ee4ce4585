-------------------------- MODULE AlgorithmProofs --------------------------
(***************************************************************************)
(* Proofs about the pure algorithms, for every input of the types the code *)
(* reads.                                                                  *)
(***************************************************************************)
EXTENDS Algorithms, FiniteSetTheorems, SequenceTheorems, WellFoundedInduction, TLAPS

(***************************************************************************)
(* Numbers and recursion.                                                  *)
(***************************************************************************)

\* Every nonempty set of naturals has a least member.
LEMMA LeastNatural ==
  ASSUME NEW S, S \subseteq Nat, S # {}
  PROVE  \E m \in S : \A s \in S : m <= s
<1> DEFINE Before == {p \in Nat \X Nat : p[1] < p[2]}
<1>1. IsWellFoundedOn(Before, Nat)
  BY NatLessThanWellFounded DEF OpToRel
<1>2. PICK m \in S : \A s \in S : ~(<<s, m>> \in Before)
  <2> HIDE DEF Before
  <2> QED
    BY <1>1, WFMin
<1>3. \A j, k \in Nat : ~(<<j, k>> \in Before) => k <= j
  OBVIOUS
<1>4. \A s \in S : m <= s
  <2> HIDE DEF Before
  <2> QED
    BY <1>2, <1>3
<1> QED
  BY <1>4

LEMMA MinIsLeast ==
  ASSUME NEW S, S \subseteq Nat, S # {}
  PROVE  Min(S) \in S /\ \A s \in S : Min(S) <= s
BY LeastNatural DEF Min

\* Induction up to n, for what a set collects.
LEMMA UpTo ==
  ASSUME NEW n \in Nat, NEW S, 0 \in S, \A k \in Nat : k < n /\ k \in S => k + 1 \in S
  PROVE  \A k \in 0 .. n : k \in S
<1> DEFINE out == {k \in 0 .. n : k \notin S}
<1> SUFFICES ASSUME out # {} PROVE FALSE
  OBVIOUS
<1>1. out \subseteq Nat
  OBVIOUS
<1>2. PICK m \in out : \A k \in out : m <= k
  <2> HIDE DEF out
  <2> QED
    BY <1>1, LeastNatural
<1>3. m \in Nat /\ m # 0 /\ m <= n /\ m \notin S
  OBVIOUS
<1>4. m - 1 \in 0 .. n /\ m - 1 < n /\ (m - 1) + 1 = m /\ m - 1 \in Nat
  BY <1>3
<1>5. m - 1 \in S
  BY <1>2, <1>4
<1> QED
  BY <1>3, <1>4, <1>5

\* A function defined by recursion on 0 .. N exists when its steps stay in a set.
Iterates(g, N, S, a, F) ==
  g \in [0 .. N -> S] /\ g[0] = a /\ \A n \in 1 .. N : g[n] = F[n][g[n - 1]]

LEMMA Recursion ==
  ASSUME NEW N \in Nat, NEW S, NEW a \in S, NEW F \in [1 .. N -> [S -> S]]
  PROVE  \E g : Iterates(g, N, S, a, F)
<1> DEFINE Runs(g, n) == g[0] = a /\ \A k \in 1 .. n : g[k] = F[k][g[k - 1]]
           good == {n \in Nat : \E g \in [0 .. n -> S] : Runs(g, n)}
<1>1. 0 \in good
  <2> DEFINE g == [k \in 0 .. 0 |-> a]
  <2>1. g \in [0 .. 0 -> S] /\ Runs(g, 0)
    OBVIOUS
  <2> QED
    BY <2>1
<1>2. ASSUME NEW n \in Nat, n < N, n \in good PROVE n + 1 \in good
  <2>1. PICK g \in [0 .. n -> S] : Runs(g, n)
    BY <1>2
  <2>2. n \in 0 .. n /\ g[n] \in S /\ n + 1 \in 1 .. N
    BY <1>2
  <2>3. F[n + 1][g[n]] \in S
    BY <2>2
  <2> DEFINE h == [k \in 0 .. (n + 1) |-> IF k = n + 1 THEN F[n + 1][g[n]] ELSE g[k]]
  <2>4. \A k \in 0 .. (n + 1) : k # n + 1 => k \in 0 .. n
    OBVIOUS
  <2>5. h \in [0 .. (n + 1) -> S]
    BY <2>3, <2>4
  <2>6. h[0] = a
    BY <2>1
  <2>7. ASSUME NEW k \in 1 .. (n + 1) PROVE h[k] = F[k][h[k - 1]]
    <3>1. CASE k = n + 1
      <4>1. k - 1 = n /\ n \in 0 .. (n + 1) /\ n # n + 1
        BY <3>1
      <4> QED
        BY <3>1, <4>1
    <3>2. CASE k # n + 1
      <4>1. k \in 1 .. n /\ k - 1 \in 0 .. (n + 1) /\ k - 1 # n + 1
        BY <3>2
      <4>2. h[k] = g[k] /\ h[k - 1] = g[k - 1]
        BY <3>2, <4>1
      <4> QED
        BY <2>1, <4>1, <4>2
    <3> QED
      BY <3>1, <3>2
  <2> HIDE DEF h
  <2>8. Runs(h, n + 1)
    BY <2>6, <2>7
  <2> QED
    BY <2>5, <2>8
<1>3. \A k \in 0 .. N : k \in good
  <2> HIDE DEF good
  <2> QED
    BY <1>1, <1>2, UpTo
<1>4. N \in good
  BY <1>3
<1> QED
  BY <1>4 DEF Iterates

(***************************************************************************)
(* Reachability.                                                           *)
(***************************************************************************)

LEMMA OnwardIs ==
  ASSUME NEW T, NEW States, NEW R \in SUBSET States
  PROVE  /\ Onward(T, States, R) \in SUBSET States
         /\ R \subseteq Onward(T, States, R)
         /\ \A t : t \in Onward(T, States, R) <=> t \in R \/ (t \in States /\ \E r \in R : <<r, t>> \in T)
BY DEF Onward

\* What ReachedFrom computes on the way.
Series(g, T, States, s) ==
  /\ g \in [0 .. Cardinality(States) -> SUBSET States]
  /\ g[0] = {s}
  /\ \A n \in Nat : n < Cardinality(States) => g[n + 1] = Onward(T, States, g[n])
  /\ ReachedFrom(T, States, s) = g[Cardinality(States)]

LEMMA ReachedRuns ==
  ASSUME NEW States, IsFiniteSet(States), NEW T, NEW s \in States
  PROVE  \E g : Series(g, T, States, s)
<1> DEFINE N == Cardinality(States)
           S == SUBSET States
           a == {s}
           F == [n \in 1 .. N |-> [R \in S |-> Onward(T, States, R)]]
           Rec(g) == g = [n \in 0 .. N |-> IF n = 0 THEN a ELSE Onward(T, States, g[n - 1])]
<1>1. N \in Nat
  BY FS_CardinalityType
<1>2. F \in [1 .. N -> [S -> S]] /\ a \in S
  BY OnwardIs
<1>3. PICK g : Iterates(g, N, S, a, F)
  <2> HIDE DEF N, F, S, a
  <2> QED
    BY <1>1, <1>2, Recursion
<1>4. \A n \in 1 .. N : n - 1 \in 0 .. N
  BY <1>1
<1>5. \A n \in 1 .. N : g[n] = Onward(T, States, g[n - 1])
  BY <1>3, <1>4 DEF Iterates
<1>6. Rec(g)
  <2>1. \A n \in 0 .. N : n # 0 => n \in 1 .. N
    BY <1>1
  <2> QED
    BY <1>3, <1>5, <2>1 DEF Iterates
<1> DEFINE f == CHOOSE h : Rec(h)
<1>7. Rec(f)
  BY <1>6
<1>8. ReachedFrom(T, States, s) = f[N]
  BY DEF ReachedFrom
<1> HIDE DEF f, N, S, a, F
<1>9. f[0] = a /\ \A n \in Nat : n < N => f[n + 1] = Onward(T, States, f[n])
  <2>1. \A n \in Nat : n < N => n + 1 \in 0 .. N /\ n + 1 # 0 /\ (n + 1) - 1 = n
    BY <1>1
  <2>2. 0 \in 0 .. N
    BY <1>1
  <2> QED
    BY <1>7, <2>1, <2>2
<1>10. \A k \in 0 .. N : f[k] \in S
  <2> DEFINE good == {n \in 0 .. N : f[n] \in S}
  <2>1. 0 \in good
    BY <1>1, <1>2, <1>9
  <2>2. \A k \in Nat : k < N /\ k \in good => k + 1 \in good
    BY <1>1, <1>9, OnwardIs DEF S
  <2> HIDE DEF good
  <2>3. \A k \in 0 .. N : k \in good
    BY <1>1, <2>1, <2>2, UpTo
  <2> QED
    BY <2>3 DEF good
<1>11. f \in [0 .. N -> S]
  BY <1>7, <1>10
<1>12. Series(f, T, States, s)
  BY <1>8, <1>9, <1>11 DEF Series, N, S, a
<1> QED
  BY <1>12

\* A set that holds the start and is closed under the table holds what is reached.
LEMMA ReachedStaysIn ==
  ASSUME NEW States, IsFiniteSet(States), NEW T, NEW s \in States, NEW C, s \in C,
         \A r \in C, t \in States : <<r, t>> \in T => t \in C
  PROVE  ReachedFrom(T, States, s) \subseteq C
<1> DEFINE N == Cardinality(States)
<1>1. N \in Nat
  BY FS_CardinalityType
<1>2. PICK g : Series(g, T, States, s)
  BY ReachedRuns
<1> DEFINE good == {n \in 0 .. N : g[n] \subseteq C}
<1>3. 0 \in good
  BY <1>1, <1>2 DEF Series
<1>4. ASSUME NEW k \in Nat, k < N, k \in good PROVE k + 1 \in good
  <2>1. k + 1 \in 0 .. N /\ k \in 0 .. N
    BY <1>1, <1>4
  <2>2. g[k + 1] = Onward(T, States, g[k]) /\ g[k] \in SUBSET States
    BY <1>2, <1>4, <2>1 DEF Series
  <2>3. g[k] \subseteq C
    BY <1>4
  <2>4. \A t \in g[k + 1] : t \in g[k] \/ (t \in States /\ \E r \in g[k] : <<r, t>> \in T)
    BY <2>2, OnwardIs
  <2> QED
    BY <2>1, <2>3, <2>4
<1>5. \A k \in 0 .. N : k \in good
  <2> HIDE DEF good
  <2> QED
    BY <1>1, <1>3, <1>4, UpTo
<1>6. N \in 0 .. N
  BY <1>1
<1> QED
  BY <1>2, <1>5, <1>6 DEF Series

\* What is reached is closed: a series that still grew after as many steps as
\* there are states would have more members than there are states.
LEMMA ReachedIsClosed ==
  ASSUME NEW States, IsFiniteSet(States), NEW T, NEW s \in States
  PROVE  /\ s \in ReachedFrom(T, States, s)
         /\ ReachedFrom(T, States, s) \subseteq States
         /\ \A r \in ReachedFrom(T, States, s), t \in States :
              <<r, t>> \in T => t \in ReachedFrom(T, States, s)
<1> DEFINE N == Cardinality(States)
<1>1. N \in Nat
  BY FS_CardinalityType
<1>2. PICK g : Series(g, T, States, s)
  BY ReachedRuns
<1>3. /\ \A n \in 0 .. N : g[n] \in SUBSET States /\ IsFiniteSet(g[n])
      /\ g[0] = {s}
      /\ \A n \in Nat : n < N => g[n + 1] = Onward(T, States, g[n])
      /\ ReachedFrom(T, States, s) = g[N]
  BY <1>2, FS_Subset DEF Series
<1> DEFINE Closed(n) == \A r \in g[n], t \in States : <<r, t>> \in T => t \in g[n]
           Big(n) == Cardinality(g[n]) >= n + 1
           good == {n \in 0 .. N : s \in g[n] /\ (Closed(n) \/ Big(n))}
<1>4. 0 \in good
  <2>1. Cardinality(g[0]) = 1 /\ s \in g[0]
    BY <1>3, FS_Singleton
  <2>2. Big(0) /\ 0 \in 0 .. N
    BY <1>1, <2>1
  <2> QED
    BY <2>1, <2>2
<1>5. ASSUME NEW k \in Nat, k < N, k \in good PROVE k + 1 \in good
  <2>1. k + 1 \in 0 .. N /\ k \in 0 .. N
    BY <1>1, <1>5
  <2>2. g[k + 1] = Onward(T, States, g[k]) /\ g[k] \in SUBSET States /\ s \in g[k]
    BY <1>3, <1>5, <2>1
  <2>3. g[k] \subseteq g[k + 1] /\ \A t : t \in g[k + 1] <=> t \in g[k] \/ (t \in States /\ \E r \in g[k] : <<r, t>> \in T)
    BY <2>2, OnwardIs
  <2>4. CASE Closed(k)
    <3>1. g[k + 1] = g[k]
      BY <2>3, <2>4
    <3>2. Closed(k + 1)
      BY <2>4, <3>1
    <3> QED
      BY <2>1, <2>2, <3>1, <3>2
  <2>5. CASE ~Closed(k)
    <3>1. PICK t \in States : t \in g[k + 1] /\ t \notin g[k]
      BY <2>3, <2>5
    <3>2. IsFiniteSet(g[k + 1]) /\ IsFiniteSet(g[k])
      BY <1>3, <2>1
    <3>3. Big(k)
      BY <1>5, <2>5
    <3>4. Cardinality(g[k]) \in Nat /\ Cardinality(g[k + 1]) \in Nat
      BY <3>2, FS_CardinalityType
    <3>5. Cardinality(g[k]) < Cardinality(g[k + 1])
      BY <2>3, <3>1, <3>2, <3>4, FS_Subset
    <3>6. Big(k + 1)
      BY <3>3, <3>4, <3>5
    <3> QED
      BY <2>1, <2>2, <2>3, <3>6
  <2> QED
    BY <2>4, <2>5
<1>6. \A k \in 0 .. N : k \in good
  <2> HIDE DEF good
  <2> QED
    BY <1>1, <1>4, <1>5, UpTo
<1>7. N \in 0 .. N
  BY <1>1
<1>8. Cardinality(g[N]) <= N /\ Cardinality(g[N]) \in Nat
  BY <1>3, <1>7, FS_Subset, FS_CardinalityType
<1>9. s \in g[N] /\ Closed(N)
  BY <1>1, <1>6, <1>7, <1>8
<1> QED
  BY <1>3, <1>7, <1>9

(***************************************************************************)
(* Intents, switches, autonomy and strategy stages.                        *)
(***************************************************************************)

LEMMA IntentsAreFinite == IsFiniteSet(IntentStates)
<1> DEFINE all == <<"proposed", "approved", "reserved", "built", "simulated", "signed",
                    "submitted", "confirmed", "failed_safe", "unknown", "cancelled">>
<1>1. all \in Seq(IntentStates) /\ Len(all) = 11
  BY DEF IntentStates
<1>2. \A s \in IntentStates : \E n \in 1 .. 11 : all[n] = s
  BY DEF IntentStates
<1> QED
  BY <1>1, <1>2 DEF IsFiniteSet

\* What is past the submission leads to an outcome and never back.
LEMMA SubmittedGoesOn ==
  ASSUME NEW s \in {"submitted", "unknown"}, NEW t \in IntentStates, <<s, t>> \in IntentTable
  PROVE  ReachedFrom(IntentTable, IntentStates, t) \cap {"signed", "submitted"} = {}
<1> DEFINE past == IntentTerminal \cup {"unknown"}
<1>1. t \in past
  BY DEF IntentTable, IntentTerminal
<1>2. \A r \in past, u \in IntentStates : <<r, u>> \in IntentTable => u \in past
  BY DEF IntentTable, IntentTerminal
<1>3. ReachedFrom(IntentTable, IntentStates, t) \subseteq past
  <2> HIDE DEF past
  <2> QED
    BY <1>1, <1>2, IntentsAreFinite, ReachedStaysIn
<1> QED
  BY <1>3 DEF IntentTerminal

\* From every state one transition, or none, is enough to end.
LEMMA IntentsCanEnd ==
  ASSUME NEW s \in IntentStates
  PROVE  ReachedFrom(IntentTable, IntentStates, s) \cap IntentTerminal # {}
<1>1. s \in IntentTerminal \/ \E t \in IntentTerminal : <<s, t>> \in IntentTable
  BY DEF IntentStates, IntentTerminal, IntentTable
<1>2. IntentTerminal \subseteq IntentStates
  BY DEF IntentStates, IntentTerminal
<1> QED
  BY <1>1, <1>2, IntentsAreFinite, ReachedIsClosed

LEMMA IntentsAreBounded == \A s \in IntentStates : IntentNeverResubmits(s)
<1> SUFFICES ASSUME NEW s \in IntentStates PROVE IntentNeverResubmits(s)
  OBVIOUS
<1> DEFINE next == {t \in IntentStates : <<s, t>> \in IntentTable}
<1>1. s \in {"submitted", "unknown"} =>
        \A t \in next : ReachedFrom(IntentTable, IntentStates, t) \cap {"signed", "submitted"} = {}
  BY SubmittedGoesOn
<1>2. ReachedFrom(IntentTable, IntentStates, s) \cap IntentTerminal # {}
  BY IntentsCanEnd
<1>3. CASE s \in IntentTerminal
  <2>1. \A t \in IntentStates : <<s, t>> \notin IntentTable
    BY <1>3 DEF IntentTerminal, IntentTable
  <2> QED
    BY <1>1, <1>2, <1>3, <2>1 DEF IntentNeverResubmits, ReservationHeld
<1>4. CASE s \notin IntentTerminal
  <2>1. \E t \in IntentTerminal : <<s, t>> \in IntentTable
    BY <1>4 DEF IntentStates, IntentTerminal, IntentTable
  <2>2. next # {}
    BY <2>1 DEF IntentStates, IntentTerminal
  <2> QED
    BY <1>1, <1>2, <1>4, <2>2 DEF IntentNeverResubmits, ReservationHeld
<1> QED
  BY <1>3, <1>4

LEMMA ClassesAgree == \A x \in ActionInputs : RiskClassesAgree(x)
<1> SUFFICES ASSUME NEW x \in ActionInputs PROVE RiskClassesAgree(x)
  OBVIOUS
<1>1. x.action \in TradeActions
  BY RulesAssumption
<1>2. RiskReducing(x.action) <=> Maturity(x.action) = "claim_close"
  BY <1>1 DEF TradeActions, RiskReducing, Maturity
<1> QED
  BY <1>2 DEF RiskClassesAgree, ActionPermitted

LEMMA MinimumIsFrozen == \A x \in AutonomyInputs : PermittedMeetsFrozenMinimum(x)
<1> SUFFICES ASSUME NEW x \in AutonomyInputs PROVE PermittedMeetsFrozenMinimum(x)
  OBVIOUS
<1>1. x.guard \in Guards /\ x.guard.thresholds \in Thresholds
  BY RulesAssumption DEF Guards
<1>2. ThresholdsSane(x.guard.thresholds) /\ CanRaiseLimit(x.guard) =>
        /\ x.guard.sample >= 30 /\ x.guard.days >= 14 /\ x.guard.drawdown >= -10
        /\ x.guard.ci > 0 /\ x.guard.approved
  BY <1>1 DEF Guards, Thresholds, ThresholdsSane, CanRaiseLimit
<1> QED
  BY <1>2 DEF PermittedMeetsFrozenMinimum, AutonomousActionPermitted

\* Without stage k a strategy stays before it.
LEMMA StagesAreGates == \A stage \in DOMAIN StrategyStages : LiveOnlyAfterShadowAndPaper(stage)
<1> SUFFICES ASSUME NEW stage, NEW k \in 2 .. 5, stage \in LiveReady
             PROVE  stage \notin ReachedFrom({e \in ((1 .. 9) \ {k}) \X ((1 .. 9) \ {k}) : StrategyMay(e[1], e[2])},
                                             1 .. 9, 1)
  BY DEF LiveOnlyAfterShadowAndPaper
<1> DEFINE T == {e \in ((1 .. 9) \ {k}) \X ((1 .. 9) \ {k}) : StrategyMay(e[1], e[2])}
           all == 1 .. 9
           low == 1 .. (k - 1)
<1>1. IsFiniteSet(all) /\ 1 \in all /\ 1 \in low
  <2>1. IsFiniteSet(1 .. 9)
    <3>1. \A m, n \in Int : IsFiniteSet(m .. n)
      BY FS_Interval
    <3>2. \E m, n \in Int : m = 1 /\ n = 9
      OBVIOUS
    <3> QED
      BY <3>1, <3>2, Zenon
  <2>2. 1 \in 1 .. 9 /\ 1 \in low
    OBVIOUS
  <2> QED
    BY <2>1, <2>2, Zenon
<1>2. \A r \in low, t \in all : <<r, t>> \in T => t \in low
  BY DEF StrategyMay
<1>3. ReachedFrom(T, all, 1) \subseteq low
  <2> HIDE DEF T, all, low
  <2> QED
    BY <1>1, <1>2, ReachedStaysIn
<1> QED
  BY <1>3 DEF LiveReady

\* The inputs a state holds are of the family its kind names.
Given ==
  /\ Of("intent") => input.given \in IntentStates
  /\ Of("action") => input.given \in ActionInputs
  /\ Of("autonomy") => input.given \in AutonomyInputs
  /\ Of("stage") => input.given \in DOMAIN StrategyStages
  /\ Of("health") => input.given \in HealthInputs
  /\ Of("pool") => input.given \in PoolInputs
  /\ Of("revival") => input.given \in RevivalInputs
  /\ Of("entry") => input.given \in EntryInputs
  /\ Of("decision") => input.given \in DecisionInputs
  /\ Of("lines") => input.given \in LineInputs
  /\ Of("replay") => input.given \in ReplayInputs
  /\ Of("metrics") => input.given \in MetricInputs
  /\ Of("repair") => input.given \in StoreInputs
  /\ Of("resolve") => input.given \in ResolverInputs
  /\ Of("groups") => input.given \in CitationInputs
  /\ Of("rates") => input.given \in RateInputs
  /\ Of("swaps") => input.given \in SwapInputs

LEMMA AlwaysGiven == AlgSpec => []Given
<1>1. AlgInit => Given
  BY DEF AlgInit, NoInput, Given, Of
<1>2. Given /\ [AlgNext]_input => Given'
  <2> SUFFICES ASSUME Given, [AlgNext]_input PROVE Given'
    OBVIOUS
  <2>1. CASE UNCHANGED input
    BY <2>1 DEF Given, Of
  <2>2. CASE AlgNext
    BY <2>2 DEF AlgNext, Give, Given, Of
  <2> QED
    BY <2>1, <2>2
<1> QED
  BY <1>1, <1>2, PTL DEF AlgSpec

\* Bounded execution (intent.rs, execution_runtime.rs, autonomy_runtime.rs,
\* strategy_runtime.rs): for any switches, guards and thresholds, no intent is
\* submitted twice, trades are classed alike by switches and autonomy, autonomy keeps
\* its frozen minimum, and a live strategy skipped no stage.
THEOREM BoundedExecution == AlgSpec => []ExecutionIsBounded
<1>1. Given => ExecutionIsBounded
  BY IntentsAreBounded, ClassesAgree, MinimumIsFrozen, StagesAreGates
     DEF Given, ExecutionIsBounded, IntentsNeverResubmit, SwitchesAgreeWithAutonomy, AutonomyMinimum,
         StrategyGates
<1> QED
  BY <1>1, AlwaysGiven, PTL

(***************************************************************************)
(* Source health.                                                          *)
(***************************************************************************)

HealthStates == {"disabled", "down", "degraded", "silent", "recovering", "up"}

LEMMA HealthIsAState == \A state, sig : HealthTransition(state, sig) \in HealthStates
BY DEF HealthTransition, HealthStates

HealthSeries(h, signals) ==
  /\ h[0] = "silent"
  /\ \A n \in 1 .. Len(signals) : h[n] = HealthTransition(h[n - 1], signals[n])
  /\ HealthAfter(signals) = h[Len(signals)]

LEMMA HealthRuns ==
  ASSUME NEW signals \in Seq(Signals)
  PROVE  \E h : HealthSeries(h, signals)
<1> DEFINE N == Len(signals)
           F == [n \in 1 .. N |-> [s \in HealthStates |-> HealthTransition(s, signals[n])]]
           Rec(h) == h = [n \in 0 .. N |-> IF n = 0 THEN "silent" ELSE HealthTransition(h[n - 1], signals[n])]
           f == CHOOSE h : Rec(h)
<1>1. N \in Nat /\ F \in [1 .. N -> [HealthStates -> HealthStates]] /\ "silent" \in HealthStates
  BY HealthIsAState DEF HealthStates
<1>2. PICK g : Iterates(g, N, HealthStates, "silent", F)
  <2> HIDE DEF N, F
  <2> QED
    BY <1>1, Recursion
<1>3. \A n \in 1 .. N : n - 1 \in 0 .. N /\ n # 0 /\ n \in 0 .. N
  BY <1>1
<1>4. Rec(g)
  <2>1. \A n \in 0 .. N : n # 0 => n \in 1 .. N
    BY <1>1
  <2>2. \A n \in 1 .. N : g[n] = HealthTransition(g[n - 1], signals[n])
    BY <1>2, <1>3 DEF Iterates
  <2> QED
    BY <1>2, <2>1, <2>2 DEF Iterates
<1>5. Rec(f)
  BY <1>4
<1>6. HealthAfter(signals) = f[N]
  BY DEF HealthAfter
<1> HIDE DEF f
<1>7. HealthSeries(f, signals)
  BY <1>1, <1>3, <1>5, <1>6 DEF HealthSeries
<1> QED
  BY <1>7

LEMMA UpIsEarned == \A x \in HealthInputs : UpTakesTwoGoodSignals(x)
<1> SUFFICES ASSUME NEW x \in HealthInputs, HealthAfter(x) = "up"
             PROVE  LET n == Len(x)
                        good(s) == OnTime(s) /\ ~s.stale /\ s.failures < 3
                    IN n >= 2 /\ good(x[n]) /\ (good(x[n - 1]) \/ x[n - 1].disabled)
  BY DEF UpTakesTwoGoodSignals
<1> DEFINE n == Len(x)
           good(s) == OnTime(s) /\ ~s.stale /\ s.failures < 3
<1>1. x \in Seq(Signals) /\ n \in Nat /\ \A i \in 1 .. n : x[i] \in Signals
  BY RulesAssumption
<1>2. PICK h : HealthSeries(h, x)
  BY <1>1, HealthRuns
<1>3. h[n] = "up" /\ n # 0 /\ n \in Nat
  BY <1>1, <1>2 DEF HealthSeries
<1>4. \A st : \A s \in Signals : HealthTransition(st, s) = "up" => good(s) /\ st \notin RecoversFrom
  BY DEF HealthTransition, Signals
<1>5. \A st : \A s \in Signals : HealthTransition(st, s) \notin RecoversFrom => good(s) \/ s.disabled
  BY DEF HealthTransition, Signals, RecoversFrom
<1>6. good(x[n]) /\ h[n - 1] \notin RecoversFrom
  BY <1>1, <1>2, <1>3, <1>4 DEF HealthSeries
<1>7. n - 1 # 0
  BY <1>2, <1>6 DEF HealthSeries, RecoversFrom
<1>8. n >= 2 /\ n - 1 \in 1 .. n
  <2> HIDE DEF n
  <2> QED
    BY <1>3, <1>7
<1>9. good(x[n - 1]) \/ x[n - 1].disabled
  BY <1>1, <1>2, <1>5, <1>6, <1>8 DEF HealthSeries
<1> QED
  BY <1>6, <1>8, <1>9

(***************************************************************************)
(* Revival, the entry gate and decisions.                                  *)
(***************************************************************************)

LEMMA MemoryIsKeptApart == \A x \in RevivalInputs : MemoryIsNotEvidence(x)
<1> SUFFICES ASSUME NEW x \in RevivalInputs PROVE MemoryIsNotEvidence(x)
  OBVIOUS
<1>1. PICK m : m = x.memory /\ m \in Seq(Range(m))
  BY RulesAssumption
<1>2. PICK e : e = x.evidence /\ e \in Seq(Range(e))
  BY RulesAssumption
<1>3. IsPrefix(m, m \o e)
  <2> DEFINE S == Range(m) \cup Range(e)
  <2>1. m \in Seq(S) /\ e \in Seq(S)
    BY <1>1, <1>2
  <2>2. Len(m) <= Len(m \o e) /\ Len(m) \in Nat
    BY <2>1
  <2>3. SubSeq(m, 1, Len(m)) = SubSeq(m \o e, 1, Len(m))
    BY <2>1
  <2> QED
    BY <2>2, <2>3 DEF IsPrefix
<1>4. RunRevival(x).evidence = m \o e
  BY <1>1, <1>2 DEF RunRevival
<1>5. RunRevival(x).stage = "evaluation" => RunRevival(x).passed /\ e # <<>>
  BY <1>2 DEF RunRevival, FreshEvidence
<1> QED
  BY <1>1, <1>2, <1>3, <1>4, <1>5 DEF MemoryIsNotEvidence

\* The gate accepts only what every gate lets pass.
LEMMA AcceptedPassesAll ==
  ASSUME NEW in, EntryGate(in) = "accepted", NEW i \in 1 .. 11
  PROVE  GatePasses(in, EntryGates[i])
<1> DEFINE failed == {j \in 1 .. 11 : ~GatePasses(in, EntryGates[j])}
<1>1. EntryGate(in) = IF failed = {} THEN "accepted" ELSE EntryGates[Min(failed)]
  <2>1. DOMAIN EntryGates = 1 .. 11
    BY DEF EntryGates
  <2> QED
    BY <2>1 DEF EntryGate
<1>2. \A j \in 1 .. 11 : EntryGates[j] # "accepted"
  BY DEF EntryGates
<1>3. failed # {} => Min(failed) \in 1 .. 11
  <2>1. failed \subseteq Nat /\ failed \subseteq 1 .. 11
    OBVIOUS
  <2> HIDE DEF failed
  <2> QED
    BY <2>1, MinIsLeast
<1>4. failed = {}
  <2> HIDE DEF failed
  <2> QED
    BY <1>1, <1>2, <1>3
<1> QED
  BY <1>4

LEMMA ForgettingNeverHelps == \A x \in EntryInputs : MissingNeverHelps(x)
<1> SUFFICES ASSUME NEW x \in EntryInputs, NEW f \in {"age", "liquidity", "marketAge"},
                    EntryGate([x EXCEPT ![f] = Absent]) = "accepted"
             PROVE  FALSE
  BY DEF MissingNeverHelps
<1> DEFINE y == [x EXCEPT ![f] = Absent]
<1>1. GatePasses(y, EntryGates[4]) /\ GatePasses(y, EntryGates[5]) /\ GatePasses(y, EntryGates[8])
  <2> HIDE DEF y
  <2>1. EntryGate(y) = "accepted"
    BY DEF y
  <2> QED
    BY <2>1, AcceptedPassesAll
<1>2. EntryGates[4] = "token_too_old" /\ EntryGates[5] = "insufficient_liquidity"
      /\ EntryGates[8] = "stale_market"
  BY DEF EntryGates
<1>3. y.age # Absent /\ y.liquidity # Absent /\ y.marketAge # Absent
  <2> HIDE DEF y
  <2>1. y.age # Absent
    BY <1>1, <1>2 DEF GatePasses
  <2>2. y.liquidity # Absent
    BY <1>1, <1>2 DEF GatePasses
  <2>3. y.marketAge # Absent
    BY <1>1, <1>2 DEF GatePasses, FreshMarket
  <2> QED
    BY <2>1, <2>2, <2>3
<1>4. y[f] = Absent
  BY RulesAssumption
<1> QED
  BY <1>3, <1>4

LEMMA OneMember ==
  ASSUME NEW S, IsFiniteSet(S)
  PROVE  Cardinality(S) = 1 <=> \E x : S = {x}
BY FS_Singleton

\* A required component is met when exactly one result names it, and it is yes.
LEMMA RequiredIsOne ==
  ASSUME NEW cs \in Seq(Components), NEW name
  PROVE  RequiredHolds(cs, name) <=>
           \E i \in 1 .. Len(cs) :
             /\ cs[i].class = "mandatory" /\ cs[i].name = name /\ cs[i].pass = "yes"
             /\ \A j \in 1 .. Len(cs) : cs[j].class = "mandatory" /\ cs[j].name = name => j = i
<1> DEFINE those == {i \in DOMAIN cs : cs[i].class = "mandatory" /\ cs[i].name = name}
<1>1. DOMAIN cs = 1 .. Len(cs) /\ Len(cs) \in Nat
  OBVIOUS
<1>2. IsFiniteSet(those)
  <2>1. IsFiniteSet(1 .. Len(cs))
    BY <1>1, FS_Interval
  <2>2. those \subseteq 1 .. Len(cs)
    BY <1>1
  <2> QED
    BY <2>1, <2>2, FS_Subset
<1>3. Cardinality(those) = 1 <=> \E x : those = {x}
  <2> HIDE DEF those
  <2> QED
    BY <1>2, OneMember
<1>4. (\E x : those = {x}) <=>
        \E i \in 1 .. Len(cs) :
          /\ cs[i].class = "mandatory" /\ cs[i].name = name
          /\ \A j \in 1 .. Len(cs) : cs[j].class = "mandatory" /\ cs[j].name = name => j = i
  <2> DEFINE P(j) == cs[j].class = "mandatory" /\ cs[j].name = name
  <2>1. \A j : j \in those <=> j \in 1 .. Len(cs) /\ P(j)
    BY <1>1
  <2> HIDE DEF those, P
  <2>2. ASSUME NEW x, those = {x} PROVE \E i \in 1 .. Len(cs) : P(i) /\ \A j \in 1 .. Len(cs) : P(j) => j = i
    <3>1. x \in 1 .. Len(cs) /\ P(x)
      BY <2>1, <2>2
    <3>2. \A j \in 1 .. Len(cs) : P(j) => j = x
      BY <2>1, <2>2
    <3> QED
      BY <3>1, <3>2
  <2>3. ASSUME NEW i \in 1 .. Len(cs), P(i), \A j \in 1 .. Len(cs) : P(j) => j = i PROVE those = {i}
    BY <2>1, <2>3
  <2>4. (\E x : those = {x}) <=> \E i \in 1 .. Len(cs) : P(i) /\ \A j \in 1 .. Len(cs) : P(j) => j = i
    BY <2>2, <2>3
  <2> QED
    BY <2>4 DEF P
<1>5. RequiredHolds(cs, name) <=> Cardinality(those) = 1 /\ \A i \in those : cs[i].pass = "yes"
  BY DEF RequiredHolds
<1> QED
  BY <1>1, <1>3, <1>4, <1>5

\* The positions of a reversed sequence are those of the sequence, mirrored.
LEMMA Mirrored ==
  ASSUME NEW S, NEW s \in Seq(S)
  PROVE  /\ Reverse(s) \in Seq(S) /\ Len(Reverse(s)) = Len(s)
         /\ \A i \in 1 .. Len(s) : /\ (Len(s) - i) + 1 \in 1 .. Len(s)
                                    /\ (Len(s) - ((Len(s) - i) + 1)) + 1 = i
                                    /\ Reverse(s)[i] = s[(Len(s) - i) + 1]
                                    /\ s[i] = Reverse(s)[(Len(s) - i) + 1]
<1>1. Len(s) \in Nat /\ \A i \in 1 .. Len(s) : /\ (Len(s) - i) + 1 \in 1 .. Len(s)
                                                /\ (Len(s) - ((Len(s) - i) + 1)) + 1 = i
  OBVIOUS
<1>2. \A i \in 1 .. Len(s) : Reverse(s)[i] = s[(Len(s) - i) + 1]
  BY <1>1 DEF Reverse
<1>3. Reverse(s) \in Seq(S) /\ Len(Reverse(s)) = Len(s)
  BY <1>1 DEF Reverse
<1> QED
  BY <1>1, <1>2, <1>3

\* The verdict does not see the order of the results.
LEMMA ReversedVerdict ==
  ASSUME NEW b \in [evidence : BOOLEAN, freshness : BOOLEAN, missing : BOOLEAN, components : Seq(Components)]
  PROVE  Evaluate([b EXCEPT !.components = Reverse(b.components)]) = Evaluate(b)
<1> DEFINE cs == b.components
           rs == Reverse(cs)
           N == Len(cs)
           c == [b EXCEPT !.components = rs]
           mirror(i) == (N - i) + 1
<1>1. cs \in Seq(Components) /\ rs \in Seq(Components) /\ Len(rs) = N /\ N \in Nat
      /\ \A i \in 1 .. N : mirror(i) \in 1 .. N /\ mirror(mirror(i)) = i /\ rs[i] = cs[mirror(i)]
                           /\ cs[i] = rs[mirror(i)]
  BY Mirrored
<1>2. c.evidence = b.evidence /\ c.freshness = b.freshness /\ c.missing = b.missing /\ c.components = rs
  OBVIOUS
<1>3. DOMAIN cs = 1 .. N /\ DOMAIN rs = 1 .. N
  BY <1>1
<1> HIDE DEF cs, rs, N, mirror, c
<1>4. ASSUME NEW n PROVE RequiredHolds(rs, n) <=> RequiredHolds(cs, n)
  <2> DEFINE P(s, i) == s[i].class = "mandatory" /\ s[i].name = n
             One(s, i) == P(s, i) /\ s[i].pass = "yes" /\ \A j \in 1 .. N : P(s, j) => j = i
  <2>1. RequiredHolds(cs, n) <=> \E i \in 1 .. N : One(cs, i)
    <3>1. RequiredHolds(cs, n) <=>
             \E i \in 1 .. Len(cs) :
               /\ cs[i].class = "mandatory" /\ cs[i].name = n /\ cs[i].pass = "yes"
               /\ \A j \in 1 .. Len(cs) : cs[j].class = "mandatory" /\ cs[j].name = n => j = i
      BY <1>1, RequiredIsOne
    <3> QED
      BY <3>1 DEF N
  <2>2. RequiredHolds(rs, n) <=> \E i \in 1 .. N : One(rs, i)
    <3>1. RequiredHolds(rs, n) <=>
             \E i \in 1 .. Len(rs) :
               /\ rs[i].class = "mandatory" /\ rs[i].name = n /\ rs[i].pass = "yes"
               /\ \A j \in 1 .. Len(rs) : rs[j].class = "mandatory" /\ rs[j].name = n => j = i
      BY <1>1, RequiredIsOne
    <3> QED
      BY <1>1, <3>1
  <2>3. ASSUME NEW i \in 1 .. N, One(cs, i) PROVE One(rs, mirror(i))
    BY <1>1, <2>3
  <2>4. ASSUME NEW i \in 1 .. N, One(rs, i) PROVE One(cs, mirror(i))
    BY <1>1, <2>4
  <2> HIDE DEF One
  <2> QED
    BY <1>1, <2>1, <2>2, <2>3, <2>4
<1> DEFINE Bad(s, i) == \/ s[i].class = "mandatory" /\ s[i].pass # "yes"
                        \/ s[i].class = "halt" /\ s[i].pass = "yes"
           Some(s) == \E i \in DOMAIN s : Bad(s, i)
           Lacks(s) == \E n \in RequiredMandatory : ~RequiredHolds(s, n)
           Verdict(s) == IF ~b.evidence \/ ~b.freshness THEN "insufficient_evidence"
                         ELSE IF b.missing THEN "missing_capability"
                         ELSE IF Lacks(s) THEN "reject" ELSE IF Some(s) THEN "reject" ELSE "approve"
<1>5. Some(rs) <=> Some(cs)
  <2>1. ASSUME NEW i \in DOMAIN rs, Bad(rs, i) PROVE Some(cs)
    <3>1. mirror(i) \in DOMAIN cs /\ Bad(cs, mirror(i))
      BY <1>1, <1>3, <2>1
    <3> QED
      BY <3>1
  <2>2. ASSUME NEW i \in DOMAIN cs, Bad(cs, i) PROVE Some(rs)
    <3>1. mirror(i) \in DOMAIN rs /\ Bad(rs, mirror(i))
      BY <1>1, <1>3, <2>2
    <3> QED
      BY <3>1
  <2> HIDE DEF Bad
  <2> QED
    BY <2>1, <2>2
<1>6. Lacks(rs) <=> Lacks(cs)
  BY <1>4
<1>7. Evaluate(b) = Verdict(cs)
  BY DEF Evaluate, cs
<1>8. Evaluate(c) = Verdict(rs)
  BY <1>2 DEF Evaluate
<1>9. Evaluate(c) = Evaluate(b)
  <2> HIDE DEF Some, Lacks
  <2> QED
    BY <1>5, <1>6, <1>7, <1>8
<1> QED
  BY <1>9 DEF c, rs, cs

LEMMA DoublesUndo ==
  ASSUME NEW b \in [evidence : BOOLEAN, freshness : BOOLEAN, missing : BOOLEAN, components : Seq(Components)],
         NEW i \in DOMAIN b.components, b.components[i].class = "mandatory",
         b.components[i].name \in RequiredMandatory, NEW p \in {"yes", "no", "unknown"}
  PROVE  Evaluate([b EXCEPT !.components = Append(b.components, [b.components[i] EXCEPT !.pass = p])]) # "approve"
<1> DEFINE cs == b.components
           d == [cs[i] EXCEPT !.pass = p]
           ds == Append(cs, d)
           n == cs[i].name
           N == Len(cs)
<1>1. cs \in Seq(Components) /\ N \in Nat /\ i \in 1 .. N /\ cs[i] \in Components
  OBVIOUS
<1>2. d \in Components /\ d.class = "mandatory" /\ d.name = n
  BY <1>1 DEF Components
<1> HIDE DEF d
<1>3. ds \in Seq(Components) /\ Len(ds) = N + 1 /\ ds[N + 1] = d /\ ds[i] = cs[i]
  BY <1>1, <1>2
<1>4. ~RequiredHolds(ds, n)
  <2>1. i \in 1 .. Len(ds) /\ N + 1 \in 1 .. Len(ds) /\ i # N + 1
    BY <1>1, <1>3
  <2>2. /\ ds[i].class = "mandatory" /\ ds[i].name = n
        /\ ds[N + 1].class = "mandatory" /\ ds[N + 1].name = n
    BY <1>2, <1>3
  <2>3. RequiredHolds(ds, n) =>
           \E k \in 1 .. Len(ds) :
             /\ ds[k].class = "mandatory" /\ ds[k].name = n /\ ds[k].pass = "yes"
             /\ \A j \in 1 .. Len(ds) : ds[j].class = "mandatory" /\ ds[j].name = n => j = k
    <3> HIDE DEF ds, n
    <3> QED
      BY <1>3, RequiredIsOne
  <2> HIDE DEF ds, n
  <2> QED
    BY <2>1, <2>2, <2>3
<1> DEFINE c == [b EXCEPT !.components = ds]
<1>5. c.components = ds
  OBVIOUS
<1>6. n \in RequiredMandatory
  OBVIOUS
<1> HIDE DEF ds, n, c
<1>7. Evaluate(c) # "approve"
  BY <1>4, <1>5, <1>6 DEF Evaluate
<1> QED
  BY <1>7 DEF c, ds, d

LEMMA OneVoice == \A x \in DecisionInputs : DoubledResultsNeverApprove(x)
<1> SUFFICES ASSUME NEW x \in DecisionInputs PROVE DoubledResultsNeverApprove(x)
  OBVIOUS
<1>1. x \in [evidence : BOOLEAN, freshness : BOOLEAN, missing : BOOLEAN, components : Seq(Components)]
  BY RulesAssumption
<1> QED
  BY <1>1, ReversedVerdict, DoublesUndo DEF DoubledResultsNeverApprove

(***************************************************************************)
(* Provider selection.                                                     *)
(***************************************************************************)

IsKey(k) == DOMAIN k = 1 .. 6 /\ \A i \in 1 .. 6 : k[i] \in Int

LEMMA RankIsAKey ==
  ASSUME NEW c \in Candidates
  PROVE  IsKey(RankKey(c)) /\ RankKey(c)[6] = c.id
<1>1. HealthRank(c.health) \in Int
  BY DEF HealthRank
<1>2. c.id \in Int /\ c.weight \in Int /\ c.latency \in Int /\ c.cost \in Int
  BY DEF Candidates
<1> QED
  BY <1>1, <1>2 DEF RankKey, IsKey, Candidates, Worst

\* The lexicographic order of keys is a strict total order.
LEMMA KeysAreOrdered ==
  ASSUME NEW a, NEW b, NEW c, IsKey(a), IsKey(b), IsKey(c)
  PROVE  /\ ~KeyBefore(a, a)
         /\ KeyBefore(a, b) /\ KeyBefore(b, c) => KeyBefore(a, c)
         /\ KeyBefore(a, b) \/ KeyBefore(b, a) \/ \A i \in 1 .. 6 : a[i] = b[i]
<1>1. ~KeyBefore(a, a)
  BY DEF KeyBefore, IsKey
<1>2. ASSUME KeyBefore(a, b), KeyBefore(b, c) PROVE KeyBefore(a, c)
  <2>1. PICK i \in 1 .. 6 : a[i] < b[i] /\ \A j \in 1 .. (i - 1) : a[j] = b[j]
    BY <1>2 DEF KeyBefore, IsKey
  <2>2. PICK k \in 1 .. 6 : b[k] < c[k] /\ \A j \in 1 .. (k - 1) : b[j] = c[j]
    BY <1>2 DEF KeyBefore, IsKey
  <2>3. CASE i <= k
    <3>1. a[i] < c[i] /\ \A j \in 1 .. (i - 1) : a[j] = c[j]
      BY <2>1, <2>2, <2>3 DEF IsKey
    <3> QED
      BY <3>1 DEF KeyBefore, IsKey
  <2>4. CASE k < i
    <3>1. a[k] < c[k] /\ \A j \in 1 .. (k - 1) : a[j] = c[j]
      BY <2>1, <2>2, <2>4 DEF IsKey
    <3> QED
      BY <3>1 DEF KeyBefore, IsKey
  <2> QED
    BY <2>3, <2>4
<1>3. KeyBefore(a, b) \/ KeyBefore(b, a) \/ \A i \in 1 .. 6 : a[i] = b[i]
  <2> DEFINE D == {i \in 1 .. 6 : a[i] # b[i]}
  <2> SUFFICES ASSUME D # {} PROVE KeyBefore(a, b) \/ KeyBefore(b, a)
    OBVIOUS
  <2>1. D \subseteq Nat
    OBVIOUS
  <2>2. PICK m \in D : \A i \in D : m <= i
    <3> HIDE DEF D
    <3> QED
      BY <2>1, LeastNatural
  <2>3. \A j \in 1 .. (m - 1) : a[j] = b[j]
    BY <2>2
  <2>4. a[m] < b[m] \/ b[m] < a[m]
    BY DEF IsKey
  <2> QED
    BY <2>3, <2>4 DEF KeyBefore, IsKey
<1> QED
  BY <1>1, <1>2, <1>3

Chosen(cands, n) == {i \in 1 .. n : Eligible(cands[i])}
Ahead(cands, i, j) == KeyBefore(RankKey(cands[i]), RankKey(cands[j]))
Winner(cands, i) ==
  /\ i \in Chosen(cands, Len(cands))
  /\ \A j \in Chosen(cands, Len(cands)) : ~Ahead(cands, j, i)

\* Some candidate of a pool with eligible ones is smallest.
LEMMA SomeoneWins ==
  ASSUME NEW cands \in Seq(Candidates), Chosen(cands, Len(cands)) # {}
  PROVE  \E i : Winner(cands, i)
<1> DEFINE N == Len(cands)
           Wins(n, i) == i \in Chosen(cands, n) /\ \A j \in Chosen(cands, n) : ~Ahead(cands, j, i)
           good == {n \in 0 .. N : Chosen(cands, n) = {} \/ \E i : Wins(n, i)}
<1>1. N \in Nat /\ \A i \in 1 .. N : cands[i] \in Candidates /\ IsKey(RankKey(cands[i]))
  BY RankIsAKey
<1>2. \A i, j, k \in 1 .. N : /\ ~Ahead(cands, i, i)
                              /\ Ahead(cands, i, j) /\ Ahead(cands, j, k) => Ahead(cands, i, k)
  BY <1>1, KeysAreOrdered DEF Ahead
<1>3. 0 \in good
  BY <1>1 DEF Chosen
<1>4. ASSUME NEW n \in Nat, n < N, n \in good PROVE n + 1 \in good
  <2>1. n + 1 \in 0 .. N /\ n + 1 \in 1 .. N /\ n + 1 \in 1 .. (n + 1)
    BY <1>1, <1>4
  <2>2. \A i : i \in Chosen(cands, n + 1) <=> i \in Chosen(cands, n) \/ (i = n + 1 /\ Eligible(cands[n + 1]))
    BY <1>4 DEF Chosen
  <2>3. \A i \in Chosen(cands, n + 1) : i \in 1 .. N
    BY <1>1, <1>4 DEF Chosen
  <2>4. CASE ~Eligible(cands[n + 1])
    <3>1. Chosen(cands, n + 1) = Chosen(cands, n)
      BY <2>2, <2>4
    <3> QED
      BY <1>4, <2>1, <3>1
  <2>5. CASE Eligible(cands[n + 1]) /\ Chosen(cands, n) = {}
    <3>1. Wins(n + 1, n + 1)
      BY <1>2, <2>1, <2>2, <2>5
    <3> QED
      BY <2>1, <3>1
  <2>6. CASE Eligible(cands[n + 1]) /\ \E i : Wins(n, i)
    <3>1. PICK i : Wins(n, i)
      BY <2>6
    <3>2. CASE Ahead(cands, n + 1, i)
      <4>1. Wins(n + 1, n + 1)
        BY <1>2, <2>1, <2>2, <2>3, <2>6, <3>1, <3>2
      <4> QED
        BY <2>1, <4>1
    <3>3. CASE ~Ahead(cands, n + 1, i)
      <4>1. Wins(n + 1, i)
        BY <2>2, <3>1, <3>3
      <4> QED
        BY <2>1, <4>1
    <3> QED
      BY <3>2, <3>3
  <2> QED
    BY <1>4, <2>4, <2>5, <2>6
<1>5. \A n \in 0 .. N : n \in good
  <2> HIDE DEF good, N
  <2> QED
    BY <1>1, <1>3, <1>4, UpTo
<1>6. N \in good
  BY <1>1, <1>5
<1> QED
  BY <1>6 DEF Winner

\* With distinct ids the selection is the winner's, whatever its position.
LEMMA SelectionIs ==
  ASSUME NEW cands \in Seq(Candidates), DistinctIds(cands)
  PROVE  /\ Chosen(cands, Len(cands)) = {} => SelectProvider(cands) = <<>>
         /\ \A i : Winner(cands, i) => SelectProvider(cands) = <<cands[i]>>
<1> DEFINE ok == {i \in DOMAIN cands : Eligible(cands[i])}
           best == {i \in ok : \A j \in ok : ~KeyBefore(RankKey(cands[j]), RankKey(cands[i]))}
<1>1. SelectProvider(cands) = IF best = {} THEN <<>> ELSE <<cands[Min(best)]>>
  BY DEF SelectProvider
<1>2. DOMAIN cands = 1 .. Len(cands) /\ Len(cands) \in Nat
      /\ \A i \in 1 .. Len(cands) : /\ cands[i] \in Candidates /\ IsKey(RankKey(cands[i]))
                                    /\ RankKey(cands[i])[6] = cands[i].id
  BY RankIsAKey
<1>3. ok = Chosen(cands, Len(cands)) /\ \A i : i \in best <=> Winner(cands, i)
  BY <1>2 DEF Chosen, Winner, Ahead
<1>4. ASSUME NEW i \in best, NEW j \in best PROVE i = j
  <2>1. i \in 1 .. Len(cands) /\ j \in 1 .. Len(cands)
        /\ ~KeyBefore(RankKey(cands[i]), RankKey(cands[j])) /\ ~KeyBefore(RankKey(cands[j]), RankKey(cands[i]))
    BY <1>2
  <2>2. RankKey(cands[i])[6] = RankKey(cands[j])[6]
    BY <1>2, <2>1, KeysAreOrdered
  <2> QED
    BY <1>2, <2>1, <2>2 DEF DistinctIds
<1>5. ASSUME NEW i \in best PROVE Min(best) = i
  <2>1. best \subseteq Nat /\ best # {}
    BY <1>2, <1>5
  <2> HIDE DEF best
  <2>2. Min(best) \in best
    BY <2>1, MinIsLeast
  <2> QED
    BY <1>4, <1>5, <2>2
<1>6. ok = {} => best = {}
  OBVIOUS
<1> HIDE DEF best, ok
<1> QED
  BY <1>1, <1>3, <1>5, <1>6

\* r is drawn from s: its members are members of s, each at most once, the winner among them.
Drawn(s, r, m) ==
  /\ m \in [1 .. Len(r) -> 1 .. Len(s)]
  /\ \A j, k \in 1 .. Len(r) : m[j] = m[k] => j = k
  /\ \A j \in 1 .. Len(r) : r[j] = s[m[j]]
  /\ \A i : Winner(s, i) => \E j \in 1 .. Len(r) : m[j] = i

\* A pool drawn from another one that keeps the winner selects the same provider.
LEMMA SameSelection ==
  ASSUME NEW s \in Seq(Candidates), DistinctIds(s), NEW r \in Seq(Candidates), NEW m, Drawn(s, r, m)
  PROVE  SelectProvider(r) = SelectProvider(s)
<1> USE DEF Drawn
<1>1. DOMAIN r = 1 .. Len(r) /\ DOMAIN s = 1 .. Len(s)
  OBVIOUS
<1>2. DistinctIds(r)
  BY <1>1 DEF DistinctIds
<1>3. \A j \in Chosen(r, Len(r)) : m[j] \in Chosen(s, Len(s))
  BY DEF Chosen
<1>4. CASE Chosen(s, Len(s)) = {}
  <2>1. Chosen(r, Len(r)) = {}
    BY <1>3, <1>4
  <2> QED
    BY <1>2, <1>4, <2>1, SelectionIs
<1>5. CASE Chosen(s, Len(s)) # {}
  <2>1. PICK i : Winner(s, i)
    BY <1>5, SomeoneWins
  <2>2. PICK j \in 1 .. Len(r) : m[j] = i
    BY <2>1
  <2>3. Winner(r, j)
    <3>1. j \in Chosen(r, Len(r))
      BY <2>1, <2>2 DEF Winner, Chosen
    <3>2. ASSUME NEW k \in Chosen(r, Len(r)) PROVE ~Ahead(r, k, j)
      <4>1. m[k] \in Chosen(s, Len(s)) /\ r[k] = s[m[k]] /\ r[j] = s[i]
        BY <1>3, <2>2 DEF Chosen
      <4> QED
        BY <2>1, <4>1 DEF Winner, Ahead
    <3> QED
      BY <3>1, <3>2 DEF Winner
  <2>4. r[j] = s[i]
    BY <2>2
  <2> QED
    BY <1>2, <2>1, <2>3, <2>4, SelectionIs
<1> QED
  BY <1>4, <1>5

\* A sequence without its k-th member.
LEMMA RemovedAt ==
  ASSUME NEW S, NEW s \in Seq(S), NEW k \in 1 .. Len(s)
  PROVE  /\ RemoveAt(s, k) \in Seq(S) /\ Len(RemoveAt(s, k)) = Len(s) - 1
         /\ \A j \in 1 .. (Len(s) - 1) : RemoveAt(s, k)[j] = s[IF j < k THEN j ELSE j + 1]
<1> DEFINE a == SubSeq(s, 1, k - 1)
           b == SubSeq(s, k + 1, Len(s))
<1>1. Len(s) \in Nat /\ \A i \in 1 .. Len(s) : s[i] \in S
  OBVIOUS
<1>2. a \in Seq(S) /\ Len(a) = k - 1 /\ \A j \in 1 .. (k - 1) : a[j] = s[j]
  BY <1>1
<1>3. b \in Seq(S) /\ Len(b) = Len(s) - k /\ \A j \in 1 .. (Len(s) - k) : b[j] = s[k + j]
  BY <1>1
<1> HIDE DEF a, b
<1>4. /\ a \o b \in Seq(S) /\ Len(a \o b) = Len(s) - 1
      /\ \A j \in 1 .. (Len(s) - 1) : (a \o b)[j] = IF j < k THEN a[j] ELSE b[j - (k - 1)]
  <2>1. /\ a \o b \in Seq(S) /\ Len(a \o b) = Len(a) + Len(b)
        /\ \A j \in 1 .. (Len(a) + Len(b)) : (a \o b)[j] = IF j <= Len(a) THEN a[j] ELSE b[j - Len(a)]
    BY <1>2, <1>3, ConcatProperties
  <2> QED
    BY <1>1, <1>2, <1>3, <2>1
<1>5. ASSUME NEW j \in 1 .. (Len(s) - 1) PROVE (a \o b)[j] = s[IF j < k THEN j ELSE j + 1]
  <2>1. CASE j < k
    BY <1>2, <1>4, <2>1
  <2>2. CASE ~(j < k)
    <3>1. j - (k - 1) \in 1 .. (Len(s) - k) /\ k + (j - (k - 1)) = j + 1
      BY <1>1, <2>2
    <3> QED
      BY <1>3, <1>4, <2>2, <3>1
  <2> QED
    BY <2>1, <2>2
<1> QED
  BY <1>4, <1>5 DEF RemoveAt, a, b

LEMMA OrderIsIgnored == \A x \in PoolInputs : SelectionIgnoresOrder(x)
<1> SUFFICES ASSUME NEW x \in PoolInputs PROVE SelectionIgnoresOrder(x)
  OBVIOUS
<1> DEFINE N == Len(x)
<1>1. x \in Seq(Candidates) /\ DistinctIds(x) /\ N \in Nat /\ DOMAIN x = 1 .. N
  BY RulesAssumption
<1>2. SelectProvider(Reverse(x)) = SelectProvider(x)
  <2> DEFINE r == Reverse(x)
             m == [i \in 1 .. N |-> (N - i) + 1]
  <2>1. /\ r \in Seq(Candidates) /\ Len(r) = N
        /\ \A i \in 1 .. N : (N - i) + 1 \in 1 .. N /\ (N - ((N - i) + 1)) + 1 = i /\ r[i] = x[(N - i) + 1]
    BY <1>1, Mirrored
  <2> HIDE DEF N, r
  <2>2. m \in [1 .. N -> 1 .. N] /\ \A j, k \in 1 .. N : m[j] = m[k] => j = k
    BY <1>1, <2>1
  <2>3. \A j \in 1 .. N : r[j] = x[m[j]]
    BY <2>1
  <2>4. \A i \in 1 .. N : \E j \in 1 .. N : m[j] = i
    <3> SUFFICES ASSUME NEW i \in 1 .. N PROVE \E j \in 1 .. N : m[j] = i
      OBVIOUS
    <3>1. (N - i) + 1 \in 1 .. N /\ m[(N - i) + 1] = i
      BY <2>1
    <3> QED
      BY <3>1
  <2>5. \A i : Winner(x, i) => \E j \in 1 .. N : m[j] = i
    BY <2>4 DEF Winner, Chosen, N
  <2> HIDE DEF m
  <2>6. Drawn(x, r, m)
    BY <2>1, <2>2, <2>3, <2>5 DEF Drawn, N
  <2>7. SelectProvider(r) = SelectProvider(x)
    BY <1>1, <2>1, <2>6, SameSelection
  <2> QED
    BY <2>7 DEF r
<1>3. ASSUME NEW k \in 1 .. N, SelectProvider(x) # <<x[k]>>
      PROVE  SelectProvider(RemoveAt(x, k)) = SelectProvider(x)
  <2> DEFINE r == RemoveAt(x, k)
             m == [j \in 1 .. (N - 1) |-> IF j < k THEN j ELSE j + 1]
  <2>1. r \in Seq(Candidates) /\ Len(r) = N - 1 /\ \A j \in 1 .. (N - 1) : r[j] = x[IF j < k THEN j ELSE j + 1]
    BY <1>1, RemovedAt
  <2> HIDE DEF r
  <2>2. m \in [1 .. (N - 1) -> 1 .. N] /\ \A i, j \in 1 .. (N - 1) : m[i] = m[j] => i = j
    <3> HIDE DEF N
    <3> QED
      BY <1>1
  <2>3. \A j \in 1 .. (N - 1) : r[j] = x[m[j]]
    BY <2>1
  <2>4. ASSUME NEW i, Winner(x, i) PROVE \E j \in 1 .. (N - 1) : m[j] = i
    <3>1. i \in 1 .. N /\ i # k
      BY <1>1, <1>3, <2>4, SelectionIs DEF Winner, Chosen
    <3> HIDE DEF N
    <3>2. CASE i < k
      <4>1. i \in 1 .. (N - 1) /\ m[i] = i
        BY <1>1, <1>3, <3>1, <3>2
      <4> QED
        BY <4>1
    <3>3. CASE i > k
      <4>1. i - 1 \in 1 .. (N - 1) /\ ~(i - 1 < k) /\ (i - 1) + 1 = i
        BY <1>1, <1>3, <3>1, <3>3
      <4>2. m[i - 1] = i
        BY <4>1
      <4> QED
        BY <4>1, <4>2
    <3> QED
      BY <1>1, <3>1, <3>2, <3>3
  <2> HIDE DEF m
  <2>5. Drawn(x, r, m)
    <3>1. \A i : Winner(x, i) => \E j \in 1 .. (N - 1) : m[j] = i
      BY <2>4
    <3> QED
      BY <2>1, <2>2, <2>3, <3>1 DEF Drawn, N
  <2>6. SelectProvider(r) = SelectProvider(x)
    BY <1>1, <2>1, <2>5, SameSelection
  <2> QED
    BY <2>6 DEF r
<1> QED
  BY <1>1, <1>2, <1>3 DEF SelectionIgnoresOrder

(***************************************************************************)
(* Portfolio groups: the union-find of the projection.                     *)
(***************************************************************************)

\* What Find computes on the way up.
Climb(up, N, p, x) ==
  /\ up \in [0 .. N -> 1 .. N] /\ up[0] = x
  /\ \A n \in Nat : n < N => up[n + 1] = p[up[n]]
  /\ Find(p, x) = up[N]

LEMMA FindClimbs ==
  ASSUME NEW N \in Nat, NEW p \in [1 .. N -> 1 .. N], NEW x \in 1 .. N
  PROVE  \E up : Climb(up, N, p, x)
<1> DEFINE D == 1 .. N
           F == [n \in 1 .. N |-> p]
           Rec(h) == h = [n \in 0 .. N |-> IF n = 0 THEN x ELSE p[h[n - 1]]]
           f == CHOOSE h : Rec(h)
<1>1. Len(p) = N
  OBVIOUS
<1>2. F \in [1 .. N -> [D -> D]] /\ x \in D
  OBVIOUS
<1>3. PICK g : Iterates(g, N, D, x, F)
  <2> HIDE DEF D, F
  <2> QED
    BY <1>2, Recursion
<1>4. Rec(g)
  <2>1. \A n \in 0 .. N : n # 0 => n \in 1 .. N
    OBVIOUS
  <2>2. \A n \in 1 .. N : g[n] = p[g[n - 1]]
    BY <1>3 DEF Iterates
  <2> QED
    BY <1>3, <2>1, <2>2 DEF Iterates
<1>5. Rec(f)
  BY <1>4
<1>6. Find(p, x) = f[N]
  BY <1>1 DEF Find
<1> HIDE DEF f, F, D
<1>7. f[0] = x /\ \A n \in Nat : n < N => f[n + 1] = p[f[n]]
  <2>1. 0 \in 0 .. N /\ \A n \in Nat : n < N => n + 1 \in 0 .. N /\ n + 1 # 0 /\ (n + 1) - 1 = n
    OBVIOUS
  <2>2. f[0] = x
    BY <1>5, <2>1
  <2>3. ASSUME NEW n \in Nat, n < N PROVE f[n + 1] = p[f[n]]
    <3>1. n + 1 \in 0 .. N /\ n + 1 # 0 /\ (n + 1) - 1 = n
      BY <2>3
    <3>2. f[n + 1] = p[f[(n + 1) - 1]]
      BY <1>5, <3>1
    <3> QED
      BY <3>1, <3>2
  <2> QED
    BY <2>2, <2>3
<1> DEFINE good == {n \in 0 .. N : f[n] \in 1 .. N}
<1>8. 0 \in good /\ \A k \in Nat : k < N /\ k \in good => k + 1 \in good
  <2>1. \A y \in 1 .. N : p[y] \in 1 .. N
    OBVIOUS
  <2>2. \A k \in Nat : k < N => k + 1 \in 0 .. N
    OBVIOUS
  <2>3. 0 \in 0 .. N /\ f[0] \in 1 .. N
    BY <1>7
  <2>4. ASSUME NEW k \in Nat, k < N, f[k] \in 1 .. N PROVE k + 1 \in 0 .. N /\ f[k + 1] \in 1 .. N
    BY <1>7, <2>1, <2>2, <2>4
  <2> QED
    BY <2>3, <2>4
<1>9. \A k \in 0 .. N : k \in good
  <2> HIDE DEF good
  <2> QED
    BY <1>8, UpTo
<1>10. f \in [0 .. N -> 1 .. N]
  BY <1>5, <1>9
<1> QED
  BY <1>6, <1>7, <1>10 DEF Climb

\* p is a forest: R gives the root of each node and d its depth, which is
\* bounded by the nodes that are not roots.
RootsOf(N, p) == {r \in 1 .. N : p[r] = r}
Forest(N, p, R, d) ==
  /\ p \in [1 .. N -> 1 .. N] /\ R \in [1 .. N -> 1 .. N] /\ d \in [1 .. N -> Nat]
  /\ \A x \in 1 .. N : p[R[x]] = R[x]
  /\ \A x \in 1 .. N : p[x] = x => R[x] = x /\ d[x] = 0
  /\ \A x \in 1 .. N : p[x] # x => R[p[x]] = R[x] /\ d[x] = d[p[x]] + 1
  /\ \A x \in 1 .. N : d[x] + Cardinality(RootsOf(N, p)) <= N

LEMMA RootsAreFinite ==
  ASSUME NEW N \in Nat, NEW p
  PROVE  IsFiniteSet(RootsOf(N, p)) /\ Cardinality(RootsOf(N, p)) \in Nat
<1>1. IsFiniteSet(1 .. N)
  BY FS_Interval
<1>2. RootsOf(N, p) \subseteq 1 .. N
  BY DEF RootsOf
<1> QED
  BY <1>1, <1>2, FS_Subset, FS_CardinalityType

\* In a forest Find ends at the root.
LEMMA FindIsRoot ==
  ASSUME NEW N \in Nat, NEW p, NEW R, NEW d, Forest(N, p, R, d), NEW x \in 1 .. N
  PROVE  Find(p, x) = R[x]
<1>1. PICK up : Climb(up, N, p, x)
  BY FindClimbs DEF Forest
<1> DEFINE good == {n \in 0 .. N : R[up[n]] = R[x] /\ (d[up[n]] = 0 \/ d[up[n]] + n = d[x])}
<1>2. 0 \in good
  BY <1>1 DEF Climb, Forest
<1>3. ASSUME NEW k \in Nat, k < N, k \in good PROVE k + 1 \in good
  <2>1. up[k] \in 1 .. N /\ up[k + 1] = p[up[k]] /\ k + 1 \in 0 .. N
    <3>1. k \in 0 .. N /\ k + 1 \in 0 .. N
      BY <1>3
    <3> HIDE DEF good
    <3> QED
      BY <1>1, <1>3, <3>1 DEF Climb
  <2>2. CASE p[up[k]] = up[k]
    BY <1>3, <2>1, <2>2 DEF Forest
  <2>3. CASE p[up[k]] # up[k]
    <3>1. R[p[up[k]]] = R[up[k]] /\ d[up[k]] = d[p[up[k]]] + 1 /\ d[p[up[k]]] \in Nat /\ d[x] \in Nat
      BY <2>1, <2>3 DEF Forest
    <3>2. d[p[up[k]]] + (k + 1) = d[x]
      BY <1>3, <3>1
    <3> QED
      BY <1>3, <2>1, <3>1, <3>2
  <2> QED
    BY <2>2, <2>3
<1>4. \A k \in 0 .. N : k \in good
  <2> HIDE DEF good
  <2> QED
    BY <1>2, <1>3, UpTo
<1>5. N \in good /\ up[N] \in 1 .. N
  BY <1>1, <1>4 DEF Climb
<1>6. d[up[N]] = 0
  <2>1. d[x] <= N /\ d[x] \in Nat /\ d[up[N]] \in Nat
    BY <1>5, RootsAreFinite DEF Forest
  <2> QED
    BY <1>5, <2>1
<1>7. p[up[N]] = up[N]
  <2>1. d[p[up[N]]] \in Nat
    BY <1>5 DEF Forest
  <2> QED
    BY <1>5, <1>6, <2>1 DEF Forest
<1>8. R[up[N]] = up[N]
  BY <1>5, <1>7 DEF Forest
<1> QED
  BY <1>1, <1>5, <1>8 DEF Climb

\* The roots when the class of b goes to the root of a.
Merged(N, R, a, b) == [x \in 1 .. N |-> IF R[x] = R[b] THEN R[a] ELSE R[x]]

LEMMA UnionMerges ==
  ASSUME NEW N \in Nat, NEW p, NEW R, NEW d, Forest(N, p, R, d), NEW a \in 1 .. N, NEW b \in 1 .. N
  PROVE  \E e : Forest(N, Union(p, a, b), Merged(N, R, a, b), e)
<1>1. Find(p, a) = R[a] /\ Find(p, b) = R[b] /\ R[a] \in 1 .. N /\ R[b] \in 1 .. N
  <2>1. Find(p, a) = R[a] /\ Find(p, b) = R[b]
    BY FindIsRoot
  <2> QED
    BY <2>1 DEF Forest
<1>2. CASE R[a] = R[b]
  <2>1. Union(p, a, b) = p
    BY <1>1, <1>2 DEF Union
  <2>2. Merged(N, R, a, b) = R
    BY <1>2 DEF Merged, Forest
  <2> QED
    BY <2>1, <2>2
<1>3. CASE R[a] # R[b]
  <2> DEFINE q == [p EXCEPT ![R[b]] = R[a]]
             S == Merged(N, R, a, b)
             e == [x \in 1 .. N |-> IF R[x] = R[b] THEN d[x] + 1 ELSE d[x]]
  <2>1. Union(p, a, b) = q
    BY <1>1, <1>3 DEF Union
  <2>2. q \in [1 .. N -> 1 .. N] /\ S \in [1 .. N -> 1 .. N] /\ e \in [1 .. N -> Nat]
    <3>1. q \in [1 .. N -> 1 .. N]
      BY <1>1 DEF Forest
    <3>2. S \in [1 .. N -> 1 .. N]
      BY <1>1 DEF Forest, Merged
    <3>3. e \in [1 .. N -> Nat]
      <4>1. \A y \in 1 .. N : d[y] \in Nat /\ d[y] + 1 \in Nat
        BY DEF Forest
      <4> QED
        BY <4>1
    <3> QED
      BY <3>1, <3>2, <3>3
  <2>3. R[R[a]] = R[a] /\ R[R[b]] = R[b] /\ d[R[a]] = 0 /\ d[R[b]] = 0 /\ p[R[a]] = R[a] /\ p[R[b]] = R[b]
    BY <1>1 DEF Forest
  <2>4. \A x \in 1 .. N : q[S[x]] = S[x]
    <3> SUFFICES ASSUME NEW x \in 1 .. N PROVE q[S[x]] = S[x]
      OBVIOUS
    <3>1. S[x] = (IF R[x] = R[b] THEN R[a] ELSE R[x]) /\ S[x] \in 1 .. N
      BY <2>2 DEF Merged
    <3>2. S[x] # R[b]
      BY <1>3, <3>1
    <3>3. p[S[x]] = S[x]
      BY <2>3, <3>1 DEF Forest
    <3> QED
      BY <3>1, <3>2, <3>3 DEF Forest
  <2>5. ASSUME NEW x \in 1 .. N, q[x] = x PROVE S[x] = x /\ e[x] = 0
    <3>1. x # R[b]
      BY <1>3, <2>5 DEF Forest
    <3>2. p[x] = x
      BY <2>5, <3>1 DEF Forest
    <3>3. R[x] = x /\ d[x] = 0
      BY <3>2 DEF Forest
    <3> QED
      BY <3>1, <3>3 DEF Merged
  <2>6. ASSUME NEW x \in 1 .. N, q[x] # x PROVE S[q[x]] = S[x] /\ e[x] = e[q[x]] + 1
    <3>1. CASE x = R[b]
      <4>1. q[x] = R[a]
        BY <3>1 DEF Forest
      <4>2. S[x] = R[a] /\ e[x] = 1 /\ S[R[a]] = R[a] /\ e[R[a]] = 0
        BY <1>1, <1>3, <2>3, <3>1 DEF Merged
      <4> QED
        BY <4>1, <4>2
    <3>2. CASE x # R[b]
      <4>1. q[x] = p[x] /\ p[x] # x /\ p[x] \in 1 .. N
        BY <2>6, <3>2 DEF Forest
      <4>2. R[p[x]] = R[x] /\ d[x] = d[p[x]] + 1 /\ d[p[x]] \in Nat
        BY <4>1 DEF Forest
      <4> QED
        BY <4>1, <4>2 DEF Merged
    <3> QED
      BY <3>1, <3>2
  <2>7. ASSUME NEW x \in 1 .. N PROVE e[x] + Cardinality(RootsOf(N, q)) <= N
    <3>1. RootsOf(N, q) = RootsOf(N, p) \ {R[b]}
      BY <1>1, <1>3, <2>3 DEF RootsOf, Forest
    <3>2. R[b] \in RootsOf(N, p)
      BY <1>1, <2>3 DEF RootsOf
    <3>3. IsFiniteSet(RootsOf(N, p)) /\ Cardinality(RootsOf(N, p)) \in Nat /\ Cardinality(RootsOf(N, q)) \in Nat
      BY RootsAreFinite
    <3>4. Cardinality(RootsOf(N, q)) = Cardinality(RootsOf(N, p)) - 1
      BY <3>1, <3>2, <3>3, FS_RemoveElement
    <3>5. d[x] + Cardinality(RootsOf(N, p)) <= N /\ d[x] \in Nat
      BY DEF Forest
    <3>6. e[x] = d[x] \/ e[x] = d[x] + 1
      OBVIOUS
    <3> QED
      BY <3>3, <3>4, <3>5, <3>6
  <2> HIDE DEF q, S, e
  <2>8. Forest(N, q, S, e)
    BY <2>2, <2>4, <2>5, <2>6, <2>7 DEF Forest
  <2> QED
    BY <2>1, <2>8 DEF S
<1> QED
  BY <1>2, <1>3

Grouped(lines) == {i \in DOMAIN lines : lines[i].grouped}
Linked(lines) ==
  {e \in Grouped(lines) \X Grouped(lines) : Range(lines[e[1]].keys) \cap Range(lines[e[2]].keys) # {}}
Component(lines, i) == ReachedFrom(Linked(lines), Grouped(lines), i)

\* One and the same line, or two of one component.
Related(lines, i, j) == i = j \/ (i \in Grouped(lines) /\ j \in Component(lines, i))

AreLines(lines) ==
  /\ DOMAIN lines = 1 .. Len(lines) /\ Len(lines) \in Nat
  /\ \A i \in 1 .. Len(lines) :
       /\ Len(lines[i].keys) \in Nat /\ DOMAIN lines[i].keys = 1 .. Len(lines[i].keys)
       /\ Len(lines[i].keys) # 0 => lines[i].grouped

LEMMA LinesAreLines == \A x \in LineInputs : AreLines(x)
<1> SUFFICES ASSUME NEW x \in LineInputs PROVE AreLines(x)
  OBVIOUS
<1>1. x \in Seq(Range(x)) /\ \A i \in DOMAIN x : IsLine(x[i])
  BY RulesAssumption
<1>2. DOMAIN x = 1 .. Len(x) /\ Len(x) \in Nat
  <2> DEFINE S == Range(x)
  <2>1. x \in Seq(S)
    BY <1>1
  <2> HIDE DEF S
  <2> QED
    BY <2>1
<1>3. ASSUME NEW i \in 1 .. Len(x)
      PROVE  /\ Len(x[i].keys) \in Nat /\ DOMAIN x[i].keys = 1 .. Len(x[i].keys)
             /\ Len(x[i].keys) # 0 => x[i].grouped
  <2>1. IsLine(x[i])
    BY <1>1, <1>2
  <2> DEFINE k == x[i].keys
             S == Range(k)
  <2>2. k \in Seq(S)
    BY <2>1 DEF IsLine
  <2>3. x[i].grouped \/ k = <<>>
    BY <2>1 DEF IsLine
  <2> HIDE DEF k, S
  <2>4. Len(k) \in Nat /\ DOMAIN k = 1 .. Len(k)
    BY <2>2
  <2>5. Len(k) # 0 => x[i].grouped
    BY <2>3
  <2> QED
    BY <2>4, <2>5 DEF k
<1> QED
  BY <1>2, <1>3 DEF AreLines

\* The components are the classes of an equivalence.
LEMMA RelatedIsEquivalence ==
  ASSUME NEW lines, AreLines(lines)
  PROVE  /\ \A i, j \in 1 .. Len(lines) : Related(lines, i, j) => Related(lines, j, i)
         /\ \A i, j, k \in 1 .. Len(lines) :
              Related(lines, i, j) /\ Related(lines, j, k) => Related(lines, i, k)
<1> DEFINE G == Grouped(lines)
           T == Linked(lines)
<1>1. IsFiniteSet(G) /\ G \subseteq 1 .. Len(lines)
  <2>1. G \subseteq 1 .. Len(lines)
    BY DEF Grouped, AreLines
  <2>2. IsFiniteSet(1 .. Len(lines))
    BY FS_Interval DEF AreLines
  <2> QED
    BY <2>1, <2>2, FS_Subset
<1>2. \A i \in G : /\ i \in Component(lines, i) /\ Component(lines, i) \subseteq G
                   /\ \A r \in Component(lines, i), t \in G : <<r, t>> \in T => t \in Component(lines, i)
  <2> HIDE DEF G, T
  <2> QED
    BY <1>1, ReachedIsClosed DEF Component, G, T
<1>3. ASSUME NEW i \in G, NEW C, i \in C, \A r \in C, t \in G : <<r, t>> \in T => t \in C
      PROVE  Component(lines, i) \subseteq C
  <2> HIDE DEF G, T
  <2>1. ReachedFrom(T, G, i) \subseteq C
    BY <1>1, <1>3, ReachedStaysIn
  <2> QED
    BY <2>1 DEF Component, G, T
<1>4. \A i, j \in G : <<i, j>> \in T => <<j, i>> \in T
  BY DEF Linked
<1> HIDE DEF G, T
<1>5. ASSUME NEW i \in G, NEW j \in Component(lines, i) PROVE Component(lines, j) \subseteq Component(lines, i)
  <2>1. j \in G
    BY <1>2
  <2> DEFINE C == Component(lines, i)
  <2>2. j \in C /\ \A r \in C, t \in G : <<r, t>> \in T => t \in C
    BY <1>2
  <2> HIDE DEF C
  <2>3. Component(lines, j) \subseteq C
    BY <1>3, <2>1, <2>2
  <2> QED
    BY <2>3 DEF C
<1>6. ASSUME NEW i \in G, NEW j \in Component(lines, i) PROVE i \in Component(lines, j)
  <2> DEFINE C == {k \in G : i \in Component(lines, k)}
  <2>1. i \in C
    BY <1>2
  <2>2. ASSUME NEW r \in C, NEW t \in G, <<r, t>> \in T PROVE t \in C
    <3>1. r \in G /\ i \in Component(lines, r) /\ <<t, r>> \in T
      BY <1>4, <2>2
    <3>2. r \in Component(lines, t)
      BY <1>2, <3>1
    <3>3. i \in Component(lines, t)
      BY <1>5, <3>1, <3>2
    <3> QED
      BY <3>3
  <2>3. Component(lines, i) \subseteq C
    <3> HIDE DEF C
    <3> QED
      BY <1>3, <2>1, <2>2
  <2> QED
    BY <2>3
<1>7. ASSUME NEW i \in 1 .. Len(lines), NEW j \in 1 .. Len(lines), Related(lines, i, j)
      PROVE  Related(lines, j, i)
  <2>1. i # j => i \in G /\ j \in Component(lines, i)
    BY <1>7 DEF Related, G
  <2>2. i # j => j \in G /\ i \in Component(lines, j)
    BY <1>2, <1>6, <2>1
  <2> QED
    BY <2>2 DEF Related, G
<1>8. ASSUME NEW i \in 1 .. Len(lines), NEW j \in 1 .. Len(lines), NEW k \in 1 .. Len(lines),
             Related(lines, i, j), Related(lines, j, k)
      PROVE  Related(lines, i, k)
  <2>1. i # j => i \in G /\ j \in Component(lines, i)
    BY <1>8 DEF Related, G
  <2>2. j # k => j \in G /\ k \in Component(lines, j)
    BY <1>8 DEF Related, G
  <2>3. i # j /\ j # k => i \in G /\ k \in Component(lines, i)
    BY <1>5, <2>1, <2>2
  <2> QED
    BY <1>8, <2>3 DEF Related, G
<1> QED
  BY <1>7, <1>8

Owner(lines, i, k) == Min({j \in 1 .. i : k \in Range(lines[j].keys)})

\* The owner of a key is the first line that declares it, for every line with it.
LEMMA OwnerIs ==
  ASSUME NEW lines, AreLines(lines), NEW i \in 1 .. Len(lines), NEW k \in Range(lines[i].keys)
  PROVE  /\ Owner(lines, i, k) \in 1 .. i
         /\ k \in Range(lines[Owner(lines, i, k)].keys)
         /\ \A j \in 1 .. Len(lines) : k \in Range(lines[j].keys) => Owner(lines, i, k) <= j
<1> DEFINE S == {j \in 1 .. i : k \in Range(lines[j].keys)}
<1>1. i \in S /\ S \subseteq Nat
  BY DEF AreLines
<1>2. Owner(lines, i, k) = Min(S)
  BY DEF Owner
<1>3. Min(S) \in S /\ \A s \in S : Min(S) <= s
  <2> HIDE DEF S
  <2> QED
    BY <1>1, MinIsLeast
<1>4. ASSUME NEW j \in 1 .. Len(lines), k \in Range(lines[j].keys) PROVE Min(S) <= j
  <2>1. CASE j <= i
    <3>1. j \in S
      BY <1>4, <2>1 DEF AreLines
    <3> HIDE DEF S
    <3> QED
      BY <1>3, <3>1
  <2>2. CASE ~(j <= i)
    <3>1. Min(S) <= i /\ Min(S) \in Nat
      <4> HIDE DEF S
      <4> QED
        BY <1>1, <1>3
    <3> HIDE DEF S
    <3> QED
      BY <2>2, <3>1 DEF AreLines
  <2> QED
    BY <2>1, <2>2
<1>5. Min(S) \in 1 .. i /\ k \in Range(lines[Min(S)].keys)
  BY <1>3
<1> HIDE DEF S
<1> QED
  BY <1>2, <1>4, <1>5

LEMMA OneOwner ==
  ASSUME NEW lines, AreLines(lines), NEW i \in 1 .. Len(lines), NEW j \in 1 .. Len(lines),
         NEW k, k \in Range(lines[i].keys), k \in Range(lines[j].keys)
  PROVE  Owner(lines, i, k) = Owner(lines, j, k)
<1>1. /\ Owner(lines, i, k) \in 1 .. i /\ k \in Range(lines[Owner(lines, i, k)].keys)
      /\ \A l \in 1 .. Len(lines) : k \in Range(lines[l].keys) => Owner(lines, i, k) <= l
  BY OwnerIs
<1>2. /\ Owner(lines, j, k) \in 1 .. j /\ k \in Range(lines[Owner(lines, j, k)].keys)
      /\ \A l \in 1 .. Len(lines) : k \in Range(lines[l].keys) => Owner(lines, j, k) <= l
  BY OwnerIs
<1>3. Owner(lines, i, k) \in 1 .. Len(lines) /\ Owner(lines, j, k) \in 1 .. Len(lines)
  BY <1>1, <1>2 DEF AreLines
<1>4. Owner(lines, i, k) <= Owner(lines, j, k) /\ Owner(lines, j, k) <= Owner(lines, i, k)
  BY <1>1, <1>2, <1>3
<1> QED
  BY <1>3, <1>4 DEF AreLines

\* Lines of one class belong together, and every key of the lines before i and
\* the first n keys of line i have taken their line to the class of the owner.
Sound(lines, R) == \A x, y \in 1 .. Len(lines) : R[x] = R[y] => Related(lines, x, y)
KeyMet(lines, R, l, m) == R[l] = R[Owner(lines, l, lines[l].keys[m])]
Joined(lines, p, i, n) ==
  \E R, d :
    /\ Forest(Len(lines), p, R, d)
    /\ Sound(lines, R)
    /\ \A l \in 1 .. Len(lines) : \A m \in 1 .. Len(lines[l].keys) :
         l < i \/ (l = i /\ m <= n) => KeyMet(lines, R, l, m)

LEMMA JoinKeyJoins ==
  ASSUME NEW lines, AreLines(lines), NEW p, NEW i \in 1 .. Len(lines), NEW n \in Nat,
         n < Len(lines[i].keys), Joined(lines, p, i, n)
  PROVE  Joined(lines, JoinKey(lines, p, i, lines[i].keys[n + 1]), i, n + 1)
<1> DEFINE N == Len(lines)
           k == lines[i].keys[n + 1]
           o == Owner(lines, i, k)
<1>1. PICK R, d : /\ Forest(N, p, R, d) /\ Sound(lines, R)
                  /\ \A l \in 1 .. N : \A m \in 1 .. Len(lines[l].keys) :
                       l < i \/ (l = i /\ m <= n) => KeyMet(lines, R, l, m)
  BY DEF Joined
<1>2. n + 1 \in 1 .. Len(lines[i].keys) /\ k \in Range(lines[i].keys)
  BY DEF AreLines, Range
<1>3. N \in Nat /\ o \in 1 .. N /\ o \in 1 .. i /\ k \in Range(lines[o].keys)
  <2> HIDE DEF k
  <2>1. o \in 1 .. i /\ k \in Range(lines[o].keys)
    BY <1>2, OwnerIs
  <2> QED
    BY <2>1 DEF AreLines
<1>4. JoinKey(lines, p, i, k) = IF o = i THEN p ELSE Union(p, i, o)
  BY DEF JoinKey, Owner
<1>5. i \in 1 .. N
  OBVIOUS
<1>6. CASE o = i
  <2>1. KeyMet(lines, R, i, n + 1)
    BY <1>6 DEF KeyMet
  <2>2. ASSUME NEW l \in 1 .. N, NEW m \in 1 .. Len(lines[l].keys), l < i \/ (l = i /\ m <= n + 1)
        PROVE  KeyMet(lines, R, l, m)
    <3>1. (l = i /\ m = n + 1) \/ l < i \/ (l = i /\ m <= n)
      BY <2>2
    <3> QED
      BY <1>1, <2>1, <3>1
  <2>3. Joined(lines, p, i, n + 1)
    <3> HIDE DEF k, o
    <3> QED
      BY <1>1, <2>2 DEF Joined
  <2> HIDE DEF o
  <2> QED
    BY <1>4, <1>6, <2>3
<1>7. CASE o # i
  <2> DEFINE S == Merged(N, R, i, o)
             q == Union(p, i, o)
  <2>1. PICK e : Forest(N, q, S, e)
    <3> HIDE DEF o, N
    <3>1. \E e : Forest(N, Union(p, i, o), Merged(N, R, i, o), e)
      BY <1>1, <1>3, <1>5, UnionMerges
    <3> QED
      BY <3>1
  <2>2. R \in [1 .. N -> 1 .. N] /\ \A x \in 1 .. N : S[x] = IF R[x] = R[o] THEN R[i] ELSE R[x]
    BY <1>1 DEF Forest, Merged
  <2>3. Related(lines, i, o)
    <3>1. i \in Grouped(lines) /\ o \in Grouped(lines)
      <4>1. Len(lines[i].keys) # 0 /\ Len(lines[o].keys) # 0
        <5>1. DOMAIN lines[i].keys = 1 .. Len(lines[i].keys) /\ DOMAIN lines[o].keys = 1 .. Len(lines[o].keys)
          BY <1>3 DEF AreLines
        <5> HIDE DEF k, o
        <5>2. \E z \in DOMAIN lines[o].keys : k = lines[o].keys[z]
          BY <1>3 DEF Range
        <5> QED
          BY <1>2, <5>1, <5>2
      <4> HIDE DEF o
      <4> QED
        BY <1>3, <4>1 DEF Grouped, AreLines
    <3>2. <<i, o>> \in Linked(lines)
      <4> HIDE DEF o, k
      <4> QED
        BY <1>2, <1>3, <3>1 DEF Linked
    <3>3. IsFiniteSet(Grouped(lines))
      <4>1. Grouped(lines) \subseteq 1 .. N /\ IsFiniteSet(1 .. N)
        BY FS_Interval DEF Grouped, AreLines
      <4> QED
        BY <4>1, FS_Subset
    <3>4. o \in Component(lines, i)
      <4> HIDE DEF o
      <4>1. i \in Component(lines, i) /\ \A r \in Component(lines, i), t \in Grouped(lines) :
                  <<r, t>> \in Linked(lines) => t \in Component(lines, i)
        BY <3>1, <3>3, ReachedIsClosed DEF Component
      <4> QED
        BY <3>1, <3>2, <4>1
    <3> HIDE DEF o
    <3> QED
      BY <3>1, <3>4 DEF Related
  <2> HIDE DEF k, o, S, q
  <2>4. Sound(lines, S)
    <3> SUFFICES ASSUME NEW x \in 1 .. N, NEW y \in 1 .. N, S[x] = S[y] PROVE Related(lines, x, y)
      BY DEF Sound
    <3>1. \A a, b \in 1 .. N : R[a] = R[b] => Related(lines, a, b)
      BY <1>1 DEF Sound
    <3>2. /\ \A a, b \in 1 .. N : Related(lines, a, b) => Related(lines, b, a)
          /\ \A a, b, c \in 1 .. N : Related(lines, a, b) /\ Related(lines, b, c) => Related(lines, a, c)
      BY RelatedIsEquivalence
    <3>3. CASE R[x] = R[o] /\ R[y] # R[o]
      <4>1. R[i] = R[y] /\ Related(lines, x, o) /\ Related(lines, o, i)
        BY <1>3, <2>2, <2>3, <3>1, <3>2, <3>3
      <4> QED
        BY <1>3, <3>1, <3>2, <4>1
    <3>4. CASE R[x] # R[o] /\ R[y] = R[o]
      <4>1. R[x] = R[i] /\ Related(lines, o, y) /\ Related(lines, i, o)
        BY <1>3, <2>2, <2>3, <3>1, <3>2, <3>4
      <4> QED
        BY <1>3, <3>1, <3>2, <4>1
    <3>5. CASE R[x] = R[y]
      BY <3>1, <3>5
    <3> QED
      BY <2>2, <3>3, <3>4, <3>5
  <2>5. \A a, b \in 1 .. N : R[a] = R[b] => S[a] = S[b]
    BY <2>2
  <2>6. S[i] = S[o]
    BY <1>3, <2>2
  <2>7. ASSUME NEW l \in 1 .. N, NEW m \in 1 .. Len(lines[l].keys), l < i \/ (l = i /\ m <= n + 1)
        PROVE  KeyMet(lines, S, l, m)
    <3>1. CASE l = i /\ m = n + 1
      BY <2>6, <3>1 DEF KeyMet, o, k
    <3>2. CASE l < i \/ (l = i /\ m <= n)
      <4>1. KeyMet(lines, R, l, m)
        BY <1>1, <3>2
      <4>2. lines[l].keys[m] \in Range(lines[l].keys)
        BY DEF AreLines, Range
      <4>3. Owner(lines, l, lines[l].keys[m]) \in 1 .. l
        BY <4>2, OwnerIs
      <4>4. Owner(lines, l, lines[l].keys[m]) \in 1 .. N
        BY <1>3, <4>3
      <4> QED
        BY <2>5, <4>1, <4>4 DEF KeyMet
    <3>3. m \in Nat
      OBVIOUS
    <3> QED
      BY <2>7, <3>1, <3>2, <3>3
  <2>8. Joined(lines, q, i, n + 1)
    BY <2>1, <2>4, <2>7 DEF Joined
  <2> QED
    BY <1>4, <1>7, <2>8 DEF q, k
<1> QED
  BY <1>6, <1>7

Parents(lines) == [1 .. Len(lines) -> 1 .. Len(lines)]

LEMMA JoinKeyStays ==
  ASSUME NEW lines, AreLines(lines), NEW p \in Parents(lines), NEW i \in 1 .. Len(lines),
         NEW k \in Range(lines[i].keys)
  PROVE  JoinKey(lines, p, i, k) \in Parents(lines)
<1> DEFINE N == Len(lines)
           o == Owner(lines, i, k)
<1>1. N \in Nat /\ i \in 1 .. N /\ o \in 1 .. N /\ p \in [1 .. N -> 1 .. N]
  <2>1. o \in 1 .. i
    BY OwnerIs
  <2> HIDE DEF o
  <2> QED
    BY <2>1 DEF AreLines, Parents
<1>2. JoinKey(lines, p, i, k) = IF o = i THEN p ELSE Union(p, i, o)
  BY DEF JoinKey, Owner
<1> HIDE DEF o, N
<1>3. \A x \in 1 .. N : Find(p, x) \in 1 .. N
  <2> SUFFICES ASSUME NEW x \in 1 .. N PROVE Find(p, x) \in 1 .. N
    OBVIOUS
  <2>1. PICK up : Climb(up, N, p, x)
    BY <1>1, FindClimbs
  <2> QED
    BY <1>1, <2>1 DEF Climb
<1>4. Union(p, i, o) \in [1 .. N -> 1 .. N]
  <2>1. Find(p, i) \in 1 .. N
    BY <1>1, <1>3
  <2> QED
    BY <1>1, <2>1 DEF Union
<1> QED
  BY <1>1, <1>2, <1>4 DEF Parents, N

\* The parents while the keys of line i are joined.
KeySeries(g, lines, p, i) ==
  /\ g \in [0 .. Len(lines[i].keys) -> Parents(lines)]
  /\ g[0] = p
  /\ \A n \in Nat : n < Len(lines[i].keys) => g[n + 1] = JoinKey(lines, g[n], i, lines[i].keys[n + 1])
  /\ JoinLine(lines, p, i) = g[Len(lines[i].keys)]

LEMMA JoinLineRuns ==
  ASSUME NEW lines, AreLines(lines), NEW p \in Parents(lines), NEW i \in 1 .. Len(lines)
  PROVE  \E g : KeySeries(g, lines, p, i)
<1> DEFINE keys == lines[i].keys
           M == Len(keys)
           P == Parents(lines)
           F == [n \in 1 .. M |-> [q \in P |-> JoinKey(lines, q, i, keys[n])]]
           Rec(h) == h = [n \in 0 .. M |-> IF n = 0 THEN p ELSE JoinKey(lines, h[n - 1], i, keys[n])]
           f == CHOOSE h : Rec(h)
<1>1. M \in Nat /\ DOMAIN keys = 1 .. M
  BY DEF AreLines
<1>2. F \in [1 .. M -> [P -> P]]
  <2>1. ASSUME NEW n \in 1 .. M, NEW q \in P PROVE JoinKey(lines, q, i, keys[n]) \in P
    <3>1. keys[n] \in Range(lines[i].keys)
      BY <1>1 DEF Range
    <3> HIDE DEF keys, M
    <3> QED
      BY <3>1, JoinKeyStays
  <2> HIDE DEF P, M, keys
  <2> QED
    BY <2>1
<1>3. PICK g : Iterates(g, M, P, p, F)
  <2> HIDE DEF M, F, P
  <2>1. p \in P
    BY DEF P
  <2> QED
    BY <1>1, <1>2, <2>1, Recursion
<1>4. Rec(g)
  <2>1. \A n \in 0 .. M : n # 0 => n \in 1 .. M
    BY <1>1
  <2>2. \A n \in 1 .. M : n - 1 \in 0 .. M
    BY <1>1
  <2> HIDE DEF keys, M, P
  <2>3. \A n \in 1 .. M : g[n] = JoinKey(lines, g[n - 1], i, keys[n])
    BY <1>3, <2>2 DEF Iterates
  <2> QED
    BY <1>3, <2>1, <2>3 DEF Iterates
<1>5. Rec(f)
  BY <1>4
<1>6. JoinLine(lines, p, i) = f[M]
  BY DEF JoinLine
<1> HIDE DEF f, F, M, keys, P
<1>7. f[0] = p
  <2>1. 0 \in 0 .. M
    BY <1>1
  <2> QED
    BY <1>5, <2>1
<1>8. ASSUME NEW n \in Nat, n < M PROVE n + 1 \in 0 .. M /\ f[n + 1] = JoinKey(lines, f[n], i, keys[n + 1])
  <2>1. n + 1 \in 0 .. M /\ n + 1 # 0 /\ (n + 1) - 1 = n
    BY <1>1, <1>8
  <2>2. f[n + 1] = JoinKey(lines, f[(n + 1) - 1], i, keys[n + 1])
    BY <1>5, <2>1
  <2> QED
    BY <2>1, <2>2
<1> DEFINE good == {n \in 0 .. M : f[n] \in P}
<1>9. 0 \in good
  BY <1>1, <1>7 DEF P
<1>10. ASSUME NEW n \in Nat, n < M, n \in good PROVE n + 1 \in good
  <2>1. keys[n + 1] \in Range(lines[i].keys)
    BY <1>1, <1>10 DEF Range, keys
  <2>2. f[n] \in Parents(lines)
    BY <1>10 DEF P
  <2>3. JoinKey(lines, f[n], i, keys[n + 1]) \in P
    BY <2>1, <2>2, JoinKeyStays DEF P
  <2> QED
    BY <1>8, <1>10, <2>3
<1>11. \A n \in 0 .. M : n \in good
  <2> HIDE DEF good
  <2> QED
    BY <1>1, <1>9, <1>10, UpTo
<1>12. f \in [0 .. M -> P]
  BY <1>5, <1>11
<1>13. KeySeries(f, lines, p, i)
  BY <1>6, <1>7, <1>8, <1>12 DEF KeySeries, M, keys, P
<1> QED
  BY <1>13

LEMMA JoinLineJoins ==
  ASSUME NEW lines, AreLines(lines), NEW p \in Parents(lines), NEW i \in 1 .. Len(lines), Joined(lines, p, i, 0)
  PROVE  JoinLine(lines, p, i) \in Parents(lines) /\ Joined(lines, JoinLine(lines, p, i), i + 1, 0)
<1> DEFINE M == Len(lines[i].keys)
<1>1. M \in Nat
  BY DEF AreLines
<1>2. PICK g : KeySeries(g, lines, p, i)
  BY JoinLineRuns
<1> DEFINE good == {n \in 0 .. M : Joined(lines, g[n], i, n)}
<1>3. 0 \in good
  BY <1>1, <1>2 DEF KeySeries
<1>4. ASSUME NEW n \in Nat, n < M, n \in good PROVE n + 1 \in good
  <2>1. Joined(lines, g[n], i, n) /\ n + 1 \in 0 .. M
    BY <1>1, <1>4
  <2>2. g[n + 1] = JoinKey(lines, g[n], i, lines[i].keys[n + 1])
    BY <1>2, <1>4 DEF KeySeries
  <2>3. Joined(lines, JoinKey(lines, g[n], i, lines[i].keys[n + 1]), i, n + 1)
    BY <1>4, <2>1, JoinKeyJoins
  <2> QED
    BY <2>1, <2>2, <2>3
<1>5. \A n \in 0 .. M : n \in good
  <2> HIDE DEF good, M
  <2> QED
    BY <1>1, <1>3, <1>4, UpTo
<1>6. M \in good
  BY <1>1, <1>5
<1>7. Joined(lines, g[M], i, M) /\ g[M] \in Parents(lines) /\ JoinLine(lines, p, i) = g[M]
  BY <1>1, <1>2, <1>6 DEF KeySeries
<1>8. \A q : Joined(lines, q, i, M) => Joined(lines, q, i + 1, 0)
  <2> SUFFICES ASSUME NEW q, Joined(lines, q, i, M) PROVE Joined(lines, q, i + 1, 0)
    OBVIOUS
  <2>1. PICK R, d : /\ Forest(Len(lines), q, R, d) /\ Sound(lines, R)
                    /\ \A l \in 1 .. Len(lines) : \A m \in 1 .. Len(lines[l].keys) :
                         l < i \/ (l = i /\ m <= M) => KeyMet(lines, R, l, m)
    BY DEF Joined
  <2>2. ASSUME NEW l \in 1 .. Len(lines), NEW m \in 1 .. Len(lines[l].keys), l < i + 1 \/ (l = i + 1 /\ m <= 0)
        PROVE  KeyMet(lines, R, l, m)
    <3>1. l < i \/ l = i
      BY <2>2
    <3>2. l = i => m <= M
      BY <1>1
    <3> QED
      BY <2>1, <3>1, <3>2
  <2> QED
    BY <2>1, <2>2 DEF Joined
<1> QED
  BY <1>7, <1>8

\* The parents while the lines are joined.
LineSeries(g, lines) ==
  /\ g[0] = [l \in 1 .. Len(lines) |-> l]
  /\ \A n \in Nat : n < Len(lines) => g[n + 1] = JoinLine(lines, g[n], n + 1)
  /\ JoinedLines(lines) = g[Len(lines)]

LEMMA JoinedLinesRuns ==
  ASSUME NEW lines, AreLines(lines)
  PROVE  \E g : LineSeries(g, lines)
<1> DEFINE N == Len(lines)
           P == Parents(lines)
           a == [l \in 1 .. N |-> l]
           F == [n \in 1 .. N |-> [q \in P |-> JoinLine(lines, q, n)]]
           Rec(h) == h = [n \in 0 .. N |-> IF n = 0 THEN a ELSE JoinLine(lines, h[n - 1], n)]
           f == CHOOSE h : Rec(h)
<1>1. N \in Nat /\ a \in P
  BY DEF AreLines, Parents
<1>2. F \in [1 .. N -> [P -> P]]
  <2>1. ASSUME NEW n \in 1 .. N, NEW q \in P PROVE JoinLine(lines, q, n) \in P
    <3>1. PICK g : KeySeries(g, lines, q, n)
      BY JoinLineRuns
    <3>2. Len(lines[n].keys) \in Nat
      BY DEF AreLines
    <3> QED
      BY <3>1, <3>2 DEF KeySeries
  <2> HIDE DEF P, N
  <2> QED
    BY <2>1
<1>3. PICK g : Iterates(g, N, P, a, F)
  <2> HIDE DEF N, F, P, a
  <2> QED
    BY <1>1, <1>2, Recursion
<1>4. Rec(g)
  <2>1. \A n \in 0 .. N : n # 0 => n \in 1 .. N
    BY <1>1
  <2>2. \A n \in 1 .. N : n - 1 \in 0 .. N
    BY <1>1
  <2> HIDE DEF N, P, a
  <2>3. \A n \in 1 .. N : g[n] = JoinLine(lines, g[n - 1], n)
    BY <1>3, <2>2 DEF Iterates
  <2> QED
    BY <1>3, <2>1, <2>3 DEF Iterates
<1>5. Rec(f)
  BY <1>4
<1>6. JoinedLines(lines) = f[N]
  BY DEF JoinedLines, AreLines
<1> HIDE DEF f, F, N, P, a
<1>7. f[0] = a
  <2>1. 0 \in 0 .. N
    BY <1>1
  <2> QED
    BY <1>5, <2>1
<1>8. ASSUME NEW n \in Nat, n < N PROVE f[n + 1] = JoinLine(lines, f[n], n + 1)
  <2>1. n + 1 \in 0 .. N /\ n + 1 # 0 /\ (n + 1) - 1 = n
    BY <1>1, <1>8
  <2>2. f[n + 1] = JoinLine(lines, f[(n + 1) - 1], n + 1)
    BY <1>5, <2>1
  <2> QED
    BY <2>1, <2>2
<1>9. LineSeries(f, lines)
  BY <1>6, <1>7, <1>8 DEF LineSeries, N, a
<1> QED
  BY <1>9

LEMMA AllJoined ==
  ASSUME NEW lines, AreLines(lines)
  PROVE  Joined(lines, JoinedLines(lines), Len(lines) + 1, 0)
<1> DEFINE N == Len(lines)
           a == [l \in 1 .. N |-> l]
<1>1. N \in Nat
  BY DEF AreLines
<1>2. PICK g : LineSeries(g, lines)
  BY JoinedLinesRuns
<1>3. Joined(lines, a, 1, 0) /\ a \in Parents(lines)
  <2> DEFINE d == [l \in 1 .. N |-> 0]
  <2>1. a \in [1 .. N -> 1 .. N] /\ d \in [1 .. N -> Nat] /\ \A x \in 1 .. N : a[x] = x /\ d[x] = 0
    BY <1>1
  <2>2. Cardinality(RootsOf(N, a)) = N
    <3>1. RootsOf(N, a) = 1 .. N
      BY <2>1 DEF RootsOf
    <3>2. 1 \in Int /\ N \in Int /\ N - 1 + 1 = N /\ (N = 0 => 1 > N) /\ (N # 0 => ~(1 > N))
      BY <1>1
    <3>3. Cardinality(1 .. N) = IF 1 > N THEN 0 ELSE N - 1 + 1
      BY <3>2, FS_Interval
    <3> QED
      BY <1>1, <3>1, <3>2, <3>3
  <2> HIDE DEF a, d
  <2>3. Forest(N, a, a, d)
    BY <1>1, <2>1, <2>2 DEF Forest
  <2>4. Sound(lines, a)
    BY <2>1 DEF Sound, Related
  <2>5. \A l \in 1 .. N : \A m \in 1 .. Len(lines[l].keys) : l < 1 \/ (l = 1 /\ m <= 0) => KeyMet(lines, a, l, m)
    BY <1>1 DEF AreLines
  <2> QED
    BY <2>1, <2>3, <2>4, <2>5 DEF Joined, Parents
<1> DEFINE good == {n \in 0 .. N : g[n] \in Parents(lines) /\ Joined(lines, g[n], n + 1, 0)}
<1>4. 0 \in good
  BY <1>1, <1>2, <1>3 DEF LineSeries
<1>5. ASSUME NEW n \in Nat, n < N, n \in good PROVE n + 1 \in good
  <2>1. g[n] \in Parents(lines) /\ Joined(lines, g[n], n + 1, 0) /\ n + 1 \in 0 .. N /\ n + 1 \in 1 .. N
    BY <1>1, <1>5
  <2>2. g[n + 1] = JoinLine(lines, g[n], n + 1)
    BY <1>2, <1>5 DEF LineSeries
  <2>3. /\ JoinLine(lines, g[n], n + 1) \in Parents(lines)
        /\ Joined(lines, JoinLine(lines, g[n], n + 1), (n + 1) + 1, 0)
    BY <2>1, JoinLineJoins
  <2> QED
    BY <2>1, <2>2, <2>3
<1>6. \A n \in 0 .. N : n \in good
  <2> HIDE DEF good, N
  <2> QED
    BY <1>1, <1>4, <1>5, UpTo
<1>7. N \in good
  BY <1>1, <1>6
<1> QED
  BY <1>2, <1>7 DEF LineSeries

LEMMA GroupsAreRight == \A x \in LineInputs : GroupsAreComponents(x)
<1> SUFFICES ASSUME NEW x \in LineInputs PROVE GroupsAreComponents(x)
  OBVIOUS
<1> DEFINE G == Grouped(x)
           N == Len(x)
           P == JoinedLines(x)
<1>1. AreLines(x) /\ G \subseteq 1 .. N /\ IsFiniteSet(G) /\ N \in Nat
  <2>1. AreLines(x)
    BY LinesAreLines
  <2>2. G \subseteq 1 .. N /\ N \in Nat
    BY <2>1 DEF Grouped, AreLines
  <2>3. IsFiniteSet(1 .. N)
    BY <2>2, FS_Interval
  <2> HIDE DEF G
  <2> QED
    BY <2>1, <2>2, <2>3, FS_Subset
<1>2. PICK R, d : /\ Forest(N, P, R, d) /\ Sound(x, R)
                  /\ \A l \in 1 .. N : \A m \in 1 .. Len(x[l].keys) : l < N + 1 => KeyMet(x, R, l, m)
  BY <1>1, AllJoined DEF Joined
<1>3. \A i \in 1 .. N : Find(P, i) = R[i]
  <2> HIDE DEF N, P
  <2> QED
    BY <1>1, <1>2, FindIsRoot
<1>4. ASSUME NEW i \in G, NEW j \in G, <<i, j>> \in Linked(x) PROVE R[i] = R[j]
  <2>1. PICK k : k \in Range(x[i].keys) /\ k \in Range(x[j].keys)
    BY <1>4 DEF Linked
  <2>2. i \in 1 .. N /\ j \in 1 .. N
    BY <1>1
  <2>3. \A l \in 1 .. N : k \in Range(x[l].keys) => R[l] = R[Owner(x, l, k)]
    <3> SUFFICES ASSUME NEW l \in 1 .. N, k \in Range(x[l].keys) PROVE R[l] = R[Owner(x, l, k)]
      OBVIOUS
    <3>1. PICK m \in 1 .. Len(x[l].keys) : x[l].keys[m] = k
      BY <1>1 DEF Range, AreLines
    <3>2. l < N + 1
      BY <1>1
    <3> QED
      BY <1>2, <3>1, <3>2 DEF KeyMet
  <2>4. Owner(x, i, k) = Owner(x, j, k)
    BY <1>1, <2>1, <2>2, OneOwner
  <2> QED
    BY <2>1, <2>2, <2>3, <2>4
<1>5. ASSUME NEW i \in G
      PROVE  /\ i \in Component(x, i) /\ Component(x, i) \subseteq G
             /\ \A j \in Component(x, i) : R[j] = R[i]
             /\ \A j \in G : R[j] = R[i] => j \in Component(x, i)
  <2>1. i \in Component(x, i) /\ Component(x, i) \subseteq G
    <3> HIDE DEF G
    <3> QED
      BY <1>1, ReachedIsClosed DEF Component, G
  <2> DEFINE C == {j \in G : R[j] = R[i]}
  <2>2. i \in C
    OBVIOUS
  <2>3. \A r \in C, t \in G : <<r, t>> \in Linked(x) => t \in C
    BY <1>4
  <2>4. Component(x, i) \subseteq C
    <3> HIDE DEF C, G
    <3>1. ReachedFrom(Linked(x), G, i) \subseteq C
      BY <1>1, <2>2, <2>3, ReachedStaysIn
    <3> QED
      BY <3>1 DEF Component, G
  <2>5. \A j \in G : R[j] = R[i] => j \in Component(x, i)
    BY <1>1, <1>2, <2>1 DEF Sound, Related
  <2> QED
    BY <2>1, <2>4, <2>5
<1> DEFINE Class(i) == {j \in G : Find(P, j) = i}
           roots == {Find(P, i) : i \in G}
<1>6. \A i \in G : Class(Find(P, i)) = Component(x, i)
  <2> SUFFICES ASSUME NEW i \in G PROVE Class(Find(P, i)) = Component(x, i)
    OBVIOUS
  <2>1. \A j \in G : Find(P, j) = R[j]
    BY <1>1, <1>3
  <2> HIDE DEF G, P
  <2> QED
    BY <1>5, <2>1
<1>7. Project(x).groups = {Class(r) : r \in roots}
  BY DEF Project, Grouped
<1>8. {Class(r) : r \in roots} = {Component(x, i) : i \in G}
  <2> HIDE DEF G, P
  <2> QED
    BY <1>6
<1>9. {Component(x, i) : i \in G} = {ReachedFrom(Linked(x), G, i) : i \in G}
  BY DEF Component
<1> QED
  BY <1>7, <1>8, <1>9 DEF GroupsAreComponents, Linked, Grouped

\* Doubt is refused, whatever the signals, the pool, the market, the results and
\* the portfolio: missing, stale, doubled or correlated input never counts in
\* favour of a source, a provider, a revival, an entry or a decision.
THEOREM RefusedDoubt == AlgSpec => []DoubtIsRefused
<1>1. Given => DoubtIsRefused
  BY UpIsEarned, OrderIsIgnored, MemoryIsKeptApart, ForgettingNeverHelps, OneVoice, GroupsAreRight
     DEF Given, DoubtIsRefused, HealthUpIsEarned, ProviderSelectionStable, RevivalEvidence,
         GateFailsClosed, DecisionsNeedOneVoice, PortfolioGroups
<1> QED
  BY <1>1, AlwaysGiven, PTL

(***************************************************************************)
(* Replay.                                                                 *)
(***************************************************************************)

\* What was observed later is in no answer for a time.
LEMMA PastIsEnough == \A x \in ReplayInputs : NoLookAhead(x)
<1> SUFFICES ASSUME NEW x \in ReplayInputs PROVE NoLookAhead(x)
  OBVIOUS
<1> DEFINE past == {r \in x.rows : r.at <= x.time}
           seen == {v \in x.messages : v.at <= x.time}
<1>1. Usable(x.rows, x.time) = past /\ Usable(past, x.time) = past
  BY DEF Usable
<1>2. LatestAt(x.rows, x.time) = LatestAt(past, x.time)
  <2> HIDE DEF past
  <2> QED
    BY <1>1 DEF LatestAt
<1>3. \A r \in LatestAt(x.rows, x.time) : Guard(r.at, x.time) = "usable"
  <2>1. \A r \in past : r.at \in Nat /\ r.at <= x.time
    BY ReplayAssumption
  <2>2. \A r \in past : Guard(r.at, x.time) = "usable"
    BY <2>1 DEF Guard, Unknown
  <2> HIDE DEF past
  <2> QED
    BY <1>1, <2>2 DEF LatestAt
<1>4. MentionsAt(x.mentions, x.messages, x.time) = MentionsAt(x.mentions, seen, x.time)
  BY DEF MentionsAt
<1> QED
  BY <1>2, <1>3, <1>4 DEF NoLookAhead

\* What MetricOf computes on the way.
MetricSeries(g, rows, read, signal, h) ==
  /\ g[0] = Unknown
  /\ \A n \in Nat : n < Len(rows) => g[n + 1] = Measured(rows, read, signal, h, g[n], n + 1)
  /\ MetricOf(rows, read, signal, h) = g[Len(rows)]

Values == Nat \cup {Unknown}

LEMMA MetricRuns ==
  ASSUME NEW rows \in Snapshots, NEW read, NEW signal, NEW h
  PROVE  \E g : MetricSeries(g, rows, read, signal, h)
<1> DEFINE N == Len(rows)
           F == [n \in 1 .. N |-> [m \in Values |-> Measured(rows, read, signal, h, m, n)]]
           Rec(g) == g = [n \in 0 .. N |-> IF n = 0 THEN Unknown
                                           ELSE Measured(rows, read, signal, h, g[n - 1], n)]
           f == CHOOSE g : Rec(g)
<1>1. N \in Nat /\ \A n \in 1 .. N : rows[n].value \in Values
  <2> DEFINE Row == [at : Nat, value : Values]
  <2>1. rows \in Seq(Row)
    BY DEF Snapshots, Values
  <2>2. \A r \in Row : r.value \in Values
    OBVIOUS
  <2> HIDE DEF Row
  <2> QED
    BY <2>1, <2>2
<1>2. F \in [1 .. N -> [Values -> Values]] /\ Unknown \in Values
  <2>1. \A n \in 1 .. N, m \in Values : Measured(rows, read, signal, h, m, n) \in Values
    BY <1>1 DEF Measured, KeepFirst
  <2> HIDE DEF N
  <2> QED
    BY <2>1 DEF Values
<1>3. PICK g : Iterates(g, N, Values, Unknown, F)
  <2> HIDE DEF N, F
  <2> QED
    BY <1>1, <1>2, Recursion
<1>4. Rec(g)
  <2>1. \A n \in 0 .. N : n # 0 => n \in 1 .. N
    BY <1>1
  <2>2. \A n \in 1 .. N : n - 1 \in 0 .. N
    BY <1>1
  <2> HIDE DEF N
  <2>3. \A n \in 1 .. N : g[n] = Measured(rows, read, signal, h, g[n - 1], n)
    BY <1>3, <2>2 DEF Iterates
  <2> QED
    BY <1>3, <2>1, <2>3 DEF Iterates
<1>5. Rec(f)
  BY <1>4
<1>6. MetricOf(rows, read, signal, h) = f[N]
  BY DEF MetricOf
<1> HIDE DEF f, F, N
<1>7. f[0] = Unknown
  <2>1. 0 \in 0 .. N
    BY <1>1
  <2> QED
    BY <1>5, <2>1
<1>8. ASSUME NEW n \in Nat, n < N PROVE f[n + 1] = Measured(rows, read, signal, h, f[n], n + 1)
  <2>1. n + 1 \in 0 .. N /\ n + 1 # 0 /\ (n + 1) - 1 = n
    BY <1>1, <1>8
  <2>2. f[n + 1] = Measured(rows, read, signal, h, f[(n + 1) - 1], n + 1)
    BY <1>5, <2>1
  <2> QED
    BY <2>1, <2>2
<1>9. MetricSeries(f, rows, read, signal, h)
  BY <1>6, <1>7, <1>8 DEF MetricSeries, N
<1> QED
  BY <1>9

\* The snapshots that count for a horizon.
Counts(rows, read, signal, h) ==
  {i \in DOMAIN rows : i \in read /\ rows[i].at - signal <= h /\ rows[i].value # Unknown}

\* The metric is the value of the first snapshot that counts.
FirstCounted(rows, read, signal, h, n, metric) ==
  /\ metric = Unknown => \A i \in Counts(rows, read, signal, h) : ~(i <= n)
  /\ metric # Unknown => \E i \in Counts(rows, read, signal, h) :
                           /\ i <= n /\ rows[i].value = metric
                           /\ \A j \in Counts(rows, read, signal, h) : i <= j

LEMMA MetricIsFirst ==
  ASSUME NEW rows \in Snapshots, NEW read, NEW signal, NEW h
  PROVE  FirstCounted(rows, read, signal, h, Len(rows), MetricOf(rows, read, signal, h))
<1> DEFINE N == Len(rows)
           C == Counts(rows, read, signal, h)
<1>1. N \in Nat /\ DOMAIN rows = 1 .. N
  BY DEF Snapshots
<1>2. PICK g : MetricSeries(g, rows, read, signal, h)
  BY MetricRuns
<1> DEFINE good == {n \in 0 .. N : FirstCounted(rows, read, signal, h, n, g[n])}
<1>3. 0 \in good
  BY <1>1, <1>2 DEF MetricSeries, FirstCounted, Counts
<1>4. ASSUME NEW n \in Nat, n < N, n \in good PROVE n + 1 \in good
  <2>1. n + 1 \in 0 .. N /\ n + 1 \in 1 .. N /\ FirstCounted(rows, read, signal, h, n, g[n])
    BY <1>1, <1>4
  <2>2. g[n + 1] = Measured(rows, read, signal, h, g[n], n + 1)
    BY <1>2, <1>4 DEF MetricSeries
  <2>3. C \subseteq 1 .. N
    BY <1>1 DEF Counts
  <2>4. CASE g[n] # Unknown
    <3>1. g[n + 1] = g[n]
      BY <2>2, <2>4 DEF Measured, KeepFirst
    <3>2. PICK i \in C : i <= n /\ rows[i].value = g[n] /\ \A j \in C : i <= j
      BY <2>1, <2>4 DEF FirstCounted
    <3>3. i <= n + 1
      BY <2>3, <3>2
    <3>4. FirstCounted(rows, read, signal, h, n + 1, g[n + 1])
      BY <2>4, <3>1, <3>2, <3>3 DEF FirstCounted
    <3> QED
      BY <2>1, <3>4
  <2>5. CASE g[n] = Unknown /\ n + 1 \in C
    <3>1. g[n + 1] = rows[n + 1].value /\ rows[n + 1].value # Unknown
      BY <2>2, <2>5 DEF Measured, KeepFirst, Counts
    <3>2. \A j \in C : n + 1 <= j
      BY <2>1, <2>3, <2>5 DEF FirstCounted
    <3>3. FirstCounted(rows, read, signal, h, n + 1, g[n + 1])
      BY <2>5, <3>1, <3>2 DEF FirstCounted
    <3> QED
      BY <2>1, <3>3
  <2>6. CASE g[n] = Unknown /\ n + 1 \notin C
    <3>1. g[n + 1] = Unknown
      BY <1>1, <2>1, <2>2, <2>6 DEF Measured, KeepFirst, Counts
    <3>2. \A j \in C : ~(j <= n + 1)
      BY <2>1, <2>3, <2>6 DEF FirstCounted
    <3>3. FirstCounted(rows, read, signal, h, n + 1, g[n + 1])
      BY <3>1, <3>2 DEF FirstCounted
    <3> QED
      BY <2>1, <3>3
  <2> QED
    BY <2>4, <2>5, <2>6
<1>5. \A n \in 0 .. N : n \in good
  <2> HIDE DEF good, N
  <2> QED
    BY <1>1, <1>3, <1>4, UpTo
<1>6. N \in good
  BY <1>1, <1>5
<1> QED
  BY <1>2, <1>6 DEF MetricSeries

LEMMA MetricsAreRight == \A x \in MetricInputs : MetricsAreFirstKnown(x)
<1> SUFFICES ASSUME NEW x \in MetricInputs PROVE MetricsAreFirstKnown(x)
  OBVIOUS
<1> DEFINE rows == x.rows
           signal == x.signal
           N == Len(rows)
           after == {i \in DOMAIN rows : rows[i].at > signal}
           upTo(i) == {j \in after : j <= i}
           read == Read(rows, signal, SnapshotLimit)
           known(h) == {i \in DOMAIN rows : /\ rows[i].at > signal /\ rows[i].at - signal <= h
                                            /\ rows[i].value # Unknown}
           before(i) == {j \in DOMAIN rows : rows[j].at > signal /\ rows[j].at <= rows[i].at}
           metric(h) == MetricOf(rows, read, signal, h)
           first(m, h) ==
             IF m = Unknown THEN \A i \in known(h) : Cardinality(before(i)) > SnapshotLimit
             ELSE \E i \in known(h) : /\ rows[i].value = m
                                      /\ \A j \in known(h) : rows[i].at <= rows[j].at
           C(h) == Counts(rows, read, signal, h)
<1>1. rows \in Snapshots /\ signal \in Nat
  BY ReplayAssumption
<1>2. N \in Nat /\ DOMAIN rows = 1 .. N
  BY <1>1 DEF Snapshots
<1>3. /\ \A i \in 1 .. N : rows[i].at \in Nat
      /\ \A i, j \in 1 .. N : i <= j => rows[i].at <= rows[j].at
  <2> DEFINE Row == [at : Nat, value : Nat \cup {Unknown}]
  <2>1. rows \in Seq(Row) /\ \A i, j \in DOMAIN rows : i <= j => rows[i].at <= rows[j].at
    BY <1>1 DEF Snapshots
  <2>2. \A r \in Row : r.at \in Nat
    OBVIOUS
  <2> HIDE DEF rows, Row
  <2>3. \A i \in 1 .. N : rows[i] \in Row
    BY <1>2, <2>1 DEF N
  <2> QED
    BY <1>2, <2>1, <2>2, <2>3
<1>4. \A i : i \in read <=> i \in after /\ Cardinality(upTo(i)) <= SnapshotLimit
  BY DEF Read
<1> HIDE DEF rows, signal, N, read
<1>5. \A S : S \subseteq 1 .. N => IsFiniteSet(S) /\ Cardinality(S) \in Nat
  <2> SUFFICES ASSUME NEW S, S \subseteq 1 .. N PROVE IsFiniteSet(S) /\ Cardinality(S) \in Nat
    OBVIOUS
  <2>1. IsFiniteSet(1 .. N)
    BY <1>2, FS_Interval
  <2> QED
    BY <2>1, FS_Subset, FS_CardinalityType
<1>6. \A S, T : S \subseteq T /\ T \subseteq 1 .. N => Cardinality(S) <= Cardinality(T)
  <2> SUFFICES ASSUME NEW S, NEW T, S \subseteq T, T \subseteq 1 .. N PROVE Cardinality(S) <= Cardinality(T)
    OBVIOUS
  <2> QED
    BY <1>5, FS_Subset
<1>7. after \subseteq 1 .. N
  BY <1>2
<1>8. ASSUME NEW i \in after, NEW j \in read, i <= j PROVE i \in read
  <2>1. i \in 1 .. N /\ j \in 1 .. N /\ Cardinality(upTo(j)) <= SnapshotLimit
    BY <1>4, <1>7, <1>8
  <2>2. upTo(i) \subseteq upTo(j) /\ upTo(j) \subseteq 1 .. N
    BY <1>7, <1>8, <2>1
  <2> HIDE DEF after, upTo
  <2>3. Cardinality(upTo(i)) <= Cardinality(upTo(j))
    BY <1>6, <2>2
  <2>4. Cardinality(upTo(i)) \in Nat /\ Cardinality(upTo(j)) \in Nat
    BY <1>5, <2>2
  <2> QED
    BY <1>4, <1>8, <2>1, <2>3, <2>4 DEF SnapshotLimit
<1>9. ASSUME NEW i \in after, i \notin read PROVE Cardinality(before(i)) > SnapshotLimit
  <2>1. upTo(i) \subseteq before(i) /\ before(i) \subseteq 1 .. N
    BY <1>2, <1>3, <1>7
  <2>2. ~(Cardinality(upTo(i)) <= SnapshotLimit)
    BY <1>4, <1>9
  <2> HIDE DEF after, upTo, before
  <2>3. Cardinality(upTo(i)) <= Cardinality(before(i))
    BY <1>6, <2>1
  <2>4. Cardinality(upTo(i)) \in Nat /\ Cardinality(before(i)) \in Nat
    BY <1>5, <2>1
  <2> QED
    BY <2>2, <2>3, <2>4 DEF SnapshotLimit
<1>10. \A h : \A i : i \in C(h) <=> i \in known(h) /\ i \in read
  BY <1>4 DEF Counts
<1>11. \A h : known(h) \subseteq after
  OBVIOUS
<1>12. \A h : FirstCounted(rows, read, signal, h, N, metric(h))
  <2> SUFFICES ASSUME NEW h PROVE FirstCounted(rows, read, signal, h, N, metric(h))
    OBVIOUS
  <2> QED
    BY <1>1, MetricIsFirst DEF N
<1>13. ASSUME NEW h \in Nat PROVE first(metric(h), h)
  <2> DEFINE m == metric(h)
  <2>1. FirstCounted(rows, read, signal, h, N, m)
    BY <1>12
  <2> HIDE DEF m
  <2>2. ASSUME m = Unknown, NEW i \in known(h) PROVE Cardinality(before(i)) > SnapshotLimit
    <3>1. i \in 1 .. N /\ i \in after
      BY <1>2, <1>11
    <3>2. i \notin C(h)
      BY <1>2, <2>1, <2>2, <3>1 DEF FirstCounted
    <3>3. i \notin read
      BY <1>10, <3>2
    <3> HIDE DEF before, after
    <3> QED
      BY <1>9, <3>1, <3>3
  <2>3. ASSUME m # Unknown
        PROVE  \E i \in known(h) : rows[i].value = m /\ \A j \in known(h) : rows[i].at <= rows[j].at
    <3>1. PICK i \in C(h) : rows[i].value = m /\ \A j \in C(h) : i <= j
      BY <2>1, <2>3 DEF FirstCounted
    <3>2. i \in known(h) /\ i \in read /\ i \in 1 .. N
      BY <1>2, <1>10, <3>1
    <3>3. ASSUME NEW j \in known(h) PROVE rows[i].at <= rows[j].at
      <4>1. j \in 1 .. N /\ j \in after
        BY <1>2, <1>11
      <4>2. CASE i <= j
        BY <1>3, <3>2, <4>1, <4>2
      <4>3. CASE ~(i <= j)
        <5>1. j <= i
          BY <3>2, <4>1, <4>3
        <5>2. j \in read
          BY <1>8, <3>2, <4>1, <5>1
        <5>3. j \in C(h)
          BY <1>10, <5>2
        <5> QED
          BY <3>1, <4>3, <5>3
      <4> QED
        BY <4>2, <4>3
    <3> QED
      BY <3>1, <3>2, <3>3
  <2> HIDE DEF known, before
  <2>4. first(m, h)
    BY <2>2, <2>3
  <2> QED
    BY <2>4 DEF m
<1>14. ASSUME NEW h \in Nat, NEW k \in Nat, h <= k, metric(h) # Unknown PROVE metric(k) = metric(h)
  <2> DEFINE m == metric(h)
             n == metric(k)
  <2>1. FirstCounted(rows, read, signal, h, N, m) /\ FirstCounted(rows, read, signal, k, N, n) /\ m # Unknown
    BY <1>12, <1>14
  <2> HIDE DEF m, n
  <2>2. PICK i \in C(h) : i <= N /\ rows[i].value = m /\ \A j \in C(h) : i <= j
    BY <2>1 DEF FirstCounted
  <2>3. i \in 1 .. N /\ i \in known(h) /\ i \in read
    BY <1>2, <1>10, <2>2
  <2>4. i \in C(k)
    <3>1. i \in known(k)
      BY <1>1, <1>3, <1>14, <2>3
    <3> QED
      BY <1>10, <2>3, <3>1
  <2>5. n # Unknown
    BY <2>1, <2>2, <2>4 DEF FirstCounted
  <2>6. PICK j \in C(k) : rows[j].value = n /\ \A l \in C(k) : j <= l
    BY <2>1, <2>5 DEF FirstCounted
  <2>7. j <= i /\ j \in 1 .. N /\ j \in known(k) /\ j \in read
    BY <1>2, <1>10, <2>4, <2>6
  <2>8. j \in known(h)
    <3>1. rows[j].at <= rows[i].at /\ rows[i].at \in Nat /\ rows[j].at \in Nat
      BY <1>3, <2>3, <2>7
    <3> QED
      BY <1>1, <2>3, <2>7, <3>1
  <2>9. j \in C(h)
    BY <1>10, <2>7, <2>8
  <2>10. i = j
    BY <2>2, <2>3, <2>7, <2>9
  <2>11. n = m
    BY <2>2, <2>6, <2>10
  <2> QED
    BY <2>11 DEF m, n
<1>15. PaperMetrics(x.rows, x.signal) = [m1 |-> metric(60), m5 |-> metric(300), m15 |-> metric(900)]
  BY DEF PaperMetrics, rows, signal, read
<1>16. /\ first(metric(60), 60) /\ first(metric(300), 300) /\ first(metric(900), 900)
       /\ metric(60) # Unknown => metric(300) = metric(60)
       /\ metric(300) # Unknown => metric(900) = metric(300)
  <2>1. 60 \in Nat /\ 300 \in Nat /\ 900 \in Nat /\ 60 <= 300 /\ 300 <= 900
    OBVIOUS
  <2> HIDE DEF first, metric
  <2> QED
    BY <1>13, <1>14, <2>1
<1> HIDE DEF metric
<1> QED
  BY <1>15, <1>16 DEF MetricsAreFirstKnown, rows, signal

\* A replay knows what was known then, and measures what came first after,
\* whatever was observed and in whatever order the rows of a moment come.
THEOREM HonestReplay == AlgSpec => []ReplayIsHonest
<1>1. Given => ReplayIsHonest
  BY PastIsEnough, MetricsAreRight DEF Given, ReplayIsHonest, ReplayNeverLooksAhead, PaperFirstKnown
<1> QED
  BY <1>1, AlwaysGiven, PTL

(***************************************************************************)
(* The repair of funding cases.                                            *)
(***************************************************************************)

\* Every nonempty finite set of naturals has a greatest member.
LEMMA GreatestNatural ==
  ASSUME NEW S, S \subseteq Nat, IsFiniteSet(S), S # {}
  PROVE  \E m \in S : \A s \in S : s <= m
<1>1. PICK q \in Seq(S) : \A s \in S : \E n \in 1 .. Len(q) : q[n] = s
  BY DEF IsFiniteSet
<1> DEFINE N == Len(q)
           good == {n \in 0 .. N : n # 0 => \E m \in 1 .. n : \A i \in 1 .. n : q[i] <= q[m]}
<1>2. N \in Nat /\ \A i \in 1 .. N : q[i] \in S /\ q[i] \in Nat
  <2>1. N \in Nat /\ \A i \in 1 .. N : q[i] \in S
    BY <1>1
  <2> HIDE DEF N
  <2> QED
    BY <2>1
<1>3. 0 \in good
  BY <1>2
<1>4. ASSUME NEW n \in Nat, n < N, n \in good PROVE n + 1 \in good
  <2>1. n + 1 \in 0 .. N /\ n + 1 \in 1 .. N /\ n + 1 \in 1 .. (n + 1)
    BY <1>2, <1>4
  <2>2. CASE n = 0
    <3>1. \A i \in 1 .. (n + 1) : q[i] <= q[n + 1]
      BY <1>2, <2>1, <2>2
    <3> QED
      BY <2>1, <3>1
  <2>3. CASE n # 0
    <3>1. PICK m \in 1 .. n : \A i \in 1 .. n : q[i] <= q[m]
      BY <1>4, <2>3
    <3>2. m \in 1 .. (n + 1) /\ m \in 1 .. N
      BY <1>2, <1>4, <3>1
    <3>3. \A i \in 1 .. (n + 1) : i = n + 1 \/ i \in 1 .. n
      BY <1>4
    <3>4. CASE q[n + 1] <= q[m]
      <4>1. \A i \in 1 .. (n + 1) : q[i] <= q[m]
        BY <3>1, <3>3, <3>4
      <4> QED
        BY <2>1, <3>2, <4>1
    <3>5. CASE ~(q[n + 1] <= q[m])
      <4>1. \A i \in 1 .. (n + 1) : q[i] <= q[n + 1]
        <5>1. \A i \in 1 .. n : i \in 1 .. N
          BY <1>2, <1>4
        <5> HIDE DEF N
        <5> QED
          BY <1>2, <2>1, <3>1, <3>2, <3>3, <3>5, <5>1
      <4> QED
        BY <2>1, <4>1
    <3> QED
      BY <3>4, <3>5
  <2> QED
    BY <2>2, <2>3
<1>5. \A n \in 0 .. N : n \in good
  <2> HIDE DEF good, N
  <2> QED
    BY <1>2, <1>3, <1>4, UpTo
<1>6. N \in good /\ N # 0
  <2>1. PICK x \in S : TRUE
    OBVIOUS
  <2>2. PICK n \in 1 .. N : q[n] = x
    BY <1>1
  <2> HIDE DEF good, N
  <2> QED
    BY <1>2, <1>5, <2>2
<1>7. PICK m \in 1 .. N : \A i \in 1 .. N : q[i] <= q[m]
  BY <1>6
<1>8. q[m] \in S
  BY <1>2
<1> QED
  BY <1>1, <1>7, <1>8

\* The survivor of a group is its least id, and no row of it is merged away.
LEMMA KeepIs ==
  ASSUME NEW s, IsStore(s), NEW id \in DOMAIN s.cases
  PROVE  /\ Group(s, id) \subseteq DOMAIN s.cases /\ id \in Group(s, id)
         /\ Keep(s, id) \in Group(s, id) /\ Keep(s, id) \notin MergedAway(s)
         /\ s.cases[Keep(s, id)].group = s.cases[id].group
         /\ id \notin MergedAway(s) => Keep(s, id) = id
<1> DEFINE G == Group(s, id)
           k == Keep(s, id)
<1>1. G \subseteq DOMAIN s.cases /\ id \in G /\ DOMAIN s.cases \subseteq Nat
  BY DEF Group, IsStore
<1>2. k \in G /\ \A i \in G : k <= i
  <2>1. G \subseteq Nat /\ G # {}
    BY <1>1
  <2> HIDE DEF G
  <2>2. Min(G) \in G /\ \A i \in G : Min(G) <= i
    BY <2>1, MinIsLeast
  <2> QED
    BY <2>2 DEF Keep, G
<1>3. s.cases[k].group = s.cases[id].group /\ k \in DOMAIN s.cases
  BY <1>2 DEF Group
<1>4. Keep(s, k) = k
  <2>1. Group(s, k) = G
    BY <1>3 DEF Group
  <2> QED
    BY <2>1 DEF Keep
<1> HIDE DEF k, G
<1>5. k \notin MergedAway(s)
  BY <1>4 DEF MergedAway
<1>6. id \notin MergedAway(s) => k = id
  BY DEF MergedAway, k
<1> QED
  BY <1>1, <1>2, <1>3, <1>5, <1>6 DEF k, G

\* The three things the repair does to a store.
Untouched(s, t) == t = s
ScalarsWrapped(s, t) ==
  /\ MergedAway(s) = {}
  /\ t.cases = NormalizedCases(s) /\ t.events = s.events /\ t.alerts = s.alerts
Merges(s, t) ==
  /\ t.cases = [id \in DOMAIN s.cases \ MergedAway(s) |-> MergedCase(s, id)]
  /\ t.events = RepairedEvents(s) /\ t.alerts = RepairedAlerts(s)
  /\ s.caseColumn => ~RekeyCollides(s)

LEMMA RepairIs ==
  ASSUME NEW s, IsStore(s)
  PROVE  LET t == RepairFundingCases(s) IN Untouched(s, t) \/ ScalarsWrapped(s, t) \/ Merges(s, t)
<1>1. s = [cases |-> s.cases, events |-> s.events, alerts |-> s.alerts, uidx |-> s.uidx,
           caseColumn |-> s.caseColumn]
  BY DEF IsStore
<1>2. CASE ~NeedsRepair(s) \/ (s.caseColumn /\ RekeyCollides(s))
  BY <1>2 DEF RepairFundingCases, Untouched
<1>3. CASE ~(~NeedsRepair(s) \/ (s.caseColumn /\ RekeyCollides(s))) /\ MergedAway(s) = {}
  <2> DEFINE t == [s EXCEPT !.cases = NormalizedCases(s)]
  <2>1. RepairFundingCases(s) = t
    BY <1>3 DEF RepairFundingCases
  <2>2. t.cases = NormalizedCases(s) /\ t.events = s.events /\ t.alerts = s.alerts
    BY <1>1
  <2> HIDE DEF t
  <2> QED
    BY <1>3, <2>1, <2>2 DEF ScalarsWrapped
<1>4. CASE ~(~NeedsRepair(s) \/ (s.caseColumn /\ RekeyCollides(s))) /\ MergedAway(s) # {}
  <2> DEFINE c == [id \in DOMAIN s.cases \ MergedAway(s) |-> MergedCase(s, id)]
             e == RepairedEvents(s)
             a == RepairedAlerts(s)
             t == [s EXCEPT !.cases = c, !.events = e, !.alerts = a]
  <2>1. RepairFundingCases(s) = t
    BY <1>4 DEF RepairFundingCases
  <2> HIDE DEF c, e, a
  <2>2. t.cases = c /\ t.events = e /\ t.alerts = a
    BY <1>1
  <2> HIDE DEF t
  <2> QED
    BY <1>4, <2>1, <2>2 DEF Merges, c, e, a
<1> QED
  BY <1>2, <1>3, <1>4

LEMMA MergedCaseIs ==
  ASSUME NEW s, IsStore(s), NEW id \in DOMAIN s.cases
  PROVE  /\ MergedCase(s, id).group = s.cases[id].group
         /\ MergedCase(s, id).first = s.cases[FirstRow(s, Group(s, id))].first
         /\ MergedCase(s, id).facts = s.cases[FirstRow(s, Group(s, id))].facts
         /\ MergedCase(s, id).evidence = MergedEvidence(s, Group(s, id))
<1> DEFINE g == Group(s, id)
           f == s.cases[FirstRow(s, g)].first
           a == s.cases[FirstRow(s, g)].facts
           l == LastStage(s, g)
           m == Max({s.cases[k].score : k \in g})
           e == MergedEvidence(s, g)
           c == s.cases[id]
<1>1. MergedCase(s, id) = [c EXCEPT !.first = f, !.facts = a, !.stage = l, !.score = m, !.evidence = e]
  BY DEF MergedCase
<1>2. c \in CaseRows
  BY DEF IsStore
<1> HIDE DEF f, a, l, m, e, c
<1>3. /\ MergedCase(s, id).group = c.group /\ MergedCase(s, id).first = f
      /\ MergedCase(s, id).facts = a /\ MergedCase(s, id).evidence = e
  BY <1>1, <1>2 DEF CaseRows
<1> QED
  BY <1>3 DEF f, a, e, c

\* The first row of a group is the earliest, and of those the one with the least id.
LEMMA FirstRowIs ==
  ASSUME NEW s, IsStore(s), NEW g, g \subseteq DOMAIN s.cases, g # {}
  PROVE  /\ FirstRow(s, g) \in g
         /\ \A k \in g : \/ s.cases[FirstRow(s, g)].first < s.cases[k].first
                         \/ s.cases[FirstRow(s, g)].first = s.cases[k].first /\ FirstRow(s, g) <= k
<1> DEFINE first(k) == s.cases[k].first
           F == {first(k) : k \in g}
<1>1. g \subseteq Nat /\ \A k \in g : first(k) \in Nat
  BY DEF IsStore, CaseRows
<1>2. F \subseteq Nat /\ F # {}
  BY <1>1
<1>3. PICK m \in F : \A n \in F : m <= n
  <2> HIDE DEF F
  <2> QED
    BY <1>2, LeastNatural
<1> DEFINE E == {k \in g : first(k) = m}
<1>4. E \subseteq Nat /\ E # {}
  BY <1>1, <1>3
<1>5. PICK r \in E : \A k \in E : r <= k
  <2> HIDE DEF E
  <2> QED
    BY <1>4, LeastNatural
<1>6. \A k \in g : first(r) < first(k) \/ (first(r) = first(k) /\ r <= k)
  <2> SUFFICES ASSUME NEW k \in g PROVE first(r) < first(k) \/ (first(r) = first(k) /\ r <= k)
    OBVIOUS
  <2>1. first(r) = m /\ m <= first(k) /\ m \in Nat /\ first(k) \in Nat
    BY <1>1, <1>2, <1>3, <1>5
  <2>2. first(k) = m => r <= k
    BY <1>5
  <2> QED
    BY <2>1, <2>2
<1>7. r \in g
  BY <1>5
<1> QED
  BY <1>6, <1>7 DEF FirstRow

\* Every key of the rows' evidence is a key of the merged one.
LEMMA EvidenceKeepsKeys ==
  ASSUME NEW s, IsStore(s), NEW g, g \subseteq DOMAIN s.cases, NEW id \in g,
         NEW kv \in Normalized(s.cases[id].evidence)
  PROVE  \E kw \in MergedEvidence(s, g) : kw[1] = kv[1]
<1> DEFINE Of2(k) == Normalized(s.cases[k].evidence)
           H == {k \in g : \E kw \in Of2(k) : kw[1] = kv[1]}
<1>1. id \in H /\ H \subseteq DOMAIN s.cases
  OBVIOUS
<1>2. H \subseteq Nat /\ IsFiniteSet(H)
  <2> HIDE DEF H
  <2> QED
    BY <1>1, FS_Subset DEF IsStore
<1>3. PICK m \in H : \A k \in H : k <= m
  <2> HIDE DEF H
  <2> QED
    BY <1>1, <1>2, GreatestNatural
<1>4. PICK kw \in Of2(m) : kw[1] = kv[1]
  OBVIOUS
<1>5. \A k \in g : k > m => \A kx \in Of2(k) : kx[1] # kw[1]
  <2> SUFFICES ASSUME NEW k \in g, k > m, NEW kx \in Of2(k), kx[1] = kw[1] PROVE FALSE
    OBVIOUS
  <2>1. k \in H
    BY <1>4
  <2>2. k \in Nat /\ m \in Nat /\ k <= m
    <3> HIDE DEF H
    <3> QED
      BY <1>2, <1>3, <2>1
  <2> QED
    BY <2>2
<1>6. m \in g
  OBVIOUS
<1>7. kw \in MergedEvidence(s, g)
  <2> HIDE DEF H
  <2> QED
    BY <1>4, <1>5, <1>6 DEF MergedEvidence
<1> QED
  BY <1>4, <1>7

\* A merged evidence is no scalar.
LEMMA MergedIsNoScalar ==
  ASSUME NEW s, IsStore(s), NEW g, g \subseteq DOMAIN s.cases
  PROVE  Normalized(MergedEvidence(s, g)) = MergedEvidence(s, g)
<1>1. \A id \in g : \A kv \in Normalized(s.cases[id].evidence) : kv[1] # ""
  <2> SUFFICES ASSUME NEW id \in g, NEW kv \in Normalized(s.cases[id].evidence) PROVE kv[1] # ""
    OBVIOUS
  <2>1. CASE s.cases[id].evidence = ScalarEvidence
    <3>1. kv = <<"legacy_evidence", 0>>
      BY <2>1 DEF Normalized
    <3> QED
      BY <3>1
  <2>2. CASE s.cases[id].evidence # ScalarEvidence
    BY <2>2 DEF Normalized, IsStore
  <2> QED
    BY <2>1, <2>2
<1>2. \A kv \in MergedEvidence(s, g) : kv[1] # ""
  BY <1>1 DEF MergedEvidence
<1>3. MergedEvidence(s, g) # ScalarEvidence
  <2>1. <<"", 0>>[1] = "" /\ <<"", 0>> \in ScalarEvidence
    BY DEF ScalarEvidence
  <2> QED
    BY <1>2, <2>1
<1> QED
  BY <1>3 DEF Normalized

LEMMA HistoryIsKept == \A s \in StoreInputs : RepairKeepsHistory(s)
<1> SUFFICES ASSUME NEW s \in StoreInputs PROVE RepairKeepsHistory(s)
  OBVIOUS
<1> DEFINE t == RepairFundingCases(s)
           D == DOMAIN s.cases
           NamesOf(e) == {kv[1] : kv \in Normalized(e)}
           Event(e) == t.events[e] \in DOMAIN t.cases /\ t.cases[t.events[e]].group = s.cases[s.events[e]].group
           Holds(id, k) ==
             /\ k \in Subjects(t, s.cases[id].group)
             /\ NamesOf(s.cases[id].evidence) \subseteq NamesOf(t.cases[k].evidence)
             /\ s.cases[id].first = t.cases[k].first =>
                  \/ s.cases[id].facts = t.cases[k].facts
                  \/ \E other \in Group(s, id) : other < id /\ s.cases[other].first = s.cases[id].first
           Goal == /\ DOMAIN t.events = DOMAIN s.events
                   /\ \A e \in DOMAIN s.events : Event(e)
                   /\ \A id \in D : \E k : Holds(id, k)
<1>1. IsStore(s)
  BY StoreAssumption
<1>2. Untouched(s, t) \/ ScalarsWrapped(s, t) \/ Merges(s, t)
  BY <1>1, RepairIs
<1>3. Goal => RepairKeepsHistory(s)
  BY DEF RepairKeepsHistory
<1>4. \A e \in DOMAIN s.events : s.events[e] \in D
  BY <1>1 DEF IsStore
<1> HIDE DEF t
<1>5. CASE Untouched(s, t)
  <2>1. t = s
    BY <1>5 DEF Untouched
  <2>2. \A id \in D : Holds(id, id)
    BY <2>1 DEF Subjects
  <2>3. \A e \in DOMAIN s.events : Event(e)
    BY <1>4, <2>1
  <2> QED
    BY <1>3, <2>1, <2>2, <2>3
<1>6. CASE ScalarsWrapped(s, t)
  <2>1. t.cases = NormalizedCases(s) /\ t.events = s.events
    BY <1>6 DEF ScalarsWrapped
  <2>2. DOMAIN t.cases = D
    BY <2>1 DEF NormalizedCases
  <2>3. ASSUME NEW id \in D
        PROVE  /\ t.cases[id].group = s.cases[id].group /\ t.cases[id].facts = s.cases[id].facts
               /\ t.cases[id].evidence = Normalized(s.cases[id].evidence)
    <3> DEFINE c == s.cases[id]
               n == Normalized(c.evidence)
    <3>1. t.cases[id] = [c EXCEPT !.evidence = n]
      BY <2>1 DEF NormalizedCases
    <3>2. c \in CaseRows
      BY <1>1 DEF IsStore
    <3> HIDE DEF c, n
    <3>3. t.cases[id].group = c.group /\ t.cases[id].facts = c.facts /\ t.cases[id].evidence = n
      BY <3>1, <3>2 DEF CaseRows
    <3> QED
      BY <3>3 DEF c, n
  <2>4. \A e : Normalized(Normalized(e)) = Normalized(e)
    <3>1. {<<"legacy_evidence", 0>>} # ScalarEvidence
      <4>1. <<"legacy_evidence", 0>> # <<"", 0>>
        OBVIOUS
      <4> QED
        BY <4>1 DEF ScalarEvidence
    <3> QED
      BY <3>1 DEF Normalized
  <2>5. \A id \in D : Holds(id, id)
    <3> SUFFICES ASSUME NEW id \in D PROVE Holds(id, id)
      OBVIOUS
    <3>1. id \in Subjects(t, s.cases[id].group)
      BY <2>2, <2>3 DEF Subjects
    <3>2. NamesOf(s.cases[id].evidence) \subseteq NamesOf(t.cases[id].evidence)
      BY <2>3, <2>4
    <3> QED
      BY <2>3, <3>1, <3>2
  <2>6. \A e \in DOMAIN s.events : Event(e)
    BY <1>4, <2>1, <2>2, <2>3
  <2> QED
    BY <1>3, <2>1, <2>5, <2>6
<1>7. CASE Merges(s, t)
  <2>1. /\ t.cases = [id \in D \ MergedAway(s) |-> MergedCase(s, id)]
        /\ t.events = RepairedEvents(s)
    BY <1>7 DEF Merges
  <2>2. /\ DOMAIN t.cases = D \ MergedAway(s)
        /\ \A k \in D \ MergedAway(s) : t.cases[k] = MergedCase(s, k)
    BY <2>1
  <2>3. \A id \in D : /\ Keep(s, id) \in D \ MergedAway(s)
                      /\ t.cases[Keep(s, id)].group = s.cases[id].group
    <3> SUFFICES ASSUME NEW id \in D PROVE /\ Keep(s, id) \in D \ MergedAway(s)
                                           /\ t.cases[Keep(s, id)].group = s.cases[id].group
      OBVIOUS
    <3>1. Keep(s, id) \in D \ MergedAway(s) /\ s.cases[Keep(s, id)].group = s.cases[id].group
      BY <1>1, KeepIs
    <3>2. MergedCase(s, Keep(s, id)).group = s.cases[Keep(s, id)].group
      BY <1>1, <3>1, MergedCaseIs
    <3> QED
      BY <2>2, <3>1, <3>2
  <2>4. \A e \in DOMAIN s.events : Event(e)
    <3> SUFFICES ASSUME NEW e \in DOMAIN s.events PROVE Event(e)
      OBVIOUS
    <3>1. t.events[e] = Keep(s, s.events[e])
      <4>1. s.events[e] \notin MergedAway(s) => Keep(s, s.events[e]) = s.events[e]
        BY <1>1, <1>4, KeepIs
      <4> QED
        BY <2>1, <4>1 DEF RepairedEvents
    <3> QED
      BY <1>4, <2>2, <2>3, <3>1
  <2>5. \A id \in D : Holds(id, Keep(s, id))
    <3> SUFFICES ASSUME NEW id \in D PROVE Holds(id, Keep(s, id))
      OBVIOUS
    <3> DEFINE k == Keep(s, id)
               g == Group(s, k)
    <3>1. k \in D \ MergedAway(s) /\ t.cases[k].group = s.cases[id].group /\ t.cases[k] = MergedCase(s, k)
      BY <2>2, <2>3
    <3>2. k \in Subjects(t, s.cases[id].group)
      BY <2>2, <3>1 DEF Subjects
    <3>3. g = Group(s, id) /\ id \in g /\ g \subseteq D
      <4>1. s.cases[k].group = s.cases[id].group
        BY <1>1, KeepIs
      <4> QED
        BY <4>1 DEF Group
    <3> HIDE DEF k, g
    <3>4. /\ t.cases[k].first = s.cases[FirstRow(s, g)].first
          /\ t.cases[k].facts = s.cases[FirstRow(s, g)].facts
          /\ t.cases[k].evidence = MergedEvidence(s, g)
      BY <1>1, <3>1, MergedCaseIs DEF g
    <3>5. NamesOf(s.cases[id].evidence) \subseteq NamesOf(t.cases[k].evidence)
      <4>1. Normalized(t.cases[k].evidence) = MergedEvidence(s, g)
        BY <1>1, <3>3, <3>4, MergedIsNoScalar
      <4>2. \A kv \in Normalized(s.cases[id].evidence) : \E kw \in MergedEvidence(s, g) : kw[1] = kv[1]
        BY <1>1, <3>3, EvidenceKeepsKeys
      <4> QED
        BY <4>1, <4>2
    <3>6. ASSUME s.cases[id].first = t.cases[k].first
          PROVE  \/ s.cases[id].facts = t.cases[k].facts
                 \/ \E other \in Group(s, id) : other < id /\ s.cases[other].first = s.cases[id].first
      <4> DEFINE r == FirstRow(s, g)
      <4>1. /\ r \in g
            /\ \A j \in g : s.cases[r].first < s.cases[j].first \/ (s.cases[r].first = s.cases[j].first /\ r <= j)
        BY <1>1, <3>3, FirstRowIs
      <4> HIDE DEF r
      <4>2. s.cases[r].first = s.cases[id].first /\ s.cases[id].first \in Nat /\ r \in Nat /\ id \in Nat
        BY <1>1, <3>3, <3>4, <3>6, <4>1 DEF r, IsStore, CaseRows
      <4>3. r <= id
        BY <3>3, <4>1, <4>2
      <4>4. CASE r = id
        BY <3>4, <4>4 DEF r
      <4>5. CASE r # id
        BY <3>3, <4>1, <4>2, <4>3, <4>5
      <4> QED
        BY <4>4, <4>5
    <3> QED
      BY <3>2, <3>5, <3>6 DEF k
  <2>6. DOMAIN t.events = DOMAIN s.events
    BY <2>1 DEF RepairedEvents
  <2> HIDE DEF Holds, Event
  <2>7. Goal
    BY <2>4, <2>5, <2>6
  <2> QED
    BY <1>3, <2>7
<1> QED
  BY <1>2, <1>5, <1>6, <1>7

\* What stands for an alert after a repair that merges.
LEMMA RekeyedIs ==
  ASSUME NEW s, IsStore(s), NEW a \in s.alerts
  PROVE  /\ Rekeyed(s, a).subject = NewSubject(s, a) /\ Rekeyed(s, a).dest = a.dest
         /\ Rekeyed(s, a).state = Folded(s, a).state
         /\ a.subject \in DOMAIN s.cases
         /\ NewSubject(s, a) = Keep(s, a.subject)
         /\ a.state = "sent" => Folded(s, a).state = "sent"
<1> DEFINE T == [subject : DOMAIN s.cases, dest : STRING, state : STRING, case : Nat]
           f == Folded(s, a)
           r == Repointed(s, f)
           n == NewSubject(s, a)
           c == IF f.case \in MergedAway(s) THEN Keep(s, f.case) ELSE f.case
<1>1. a \in T
  BY DEF IsStore
<1>2. f = a \/ f = [a EXCEPT !.state = "sent"]
  BY DEF Folded
<1>3. /\ f.dest = a.dest /\ f.subject = a.subject /\ (a.state = "sent" => f.state = "sent")
      /\ f = [subject |-> f.subject, dest |-> f.dest, state |-> f.state, case |-> f.case]
  <2> HIDE DEF f
  <2> QED
    BY <1>1, <1>2
<1>4. r = [f EXCEPT !.case = c]
  BY DEF Repointed
<1>5. Rekeyed(s, a) = [r EXCEPT !.subject = n]
  BY DEF Rekeyed
<1> HIDE DEF f, r, n, c
<1>6. r = [subject |-> f.subject, dest |-> f.dest, state |-> f.state, case |-> c]
  BY <1>3, <1>4
<1>7. Rekeyed(s, a).subject = n /\ Rekeyed(s, a).dest = f.dest /\ Rekeyed(s, a).state = f.state
  BY <1>5, <1>6
<1>8. a.subject \in DOMAIN s.cases
  BY <1>1
<1>9. n = Keep(s, a.subject)
  <2>1. a.subject \notin MergedAway(s) => Keep(s, a.subject) = a.subject
    BY <1>8, KeepIs
  <2> QED
    BY <2>1 DEF n, NewSubject, Stale
<1> QED
  BY <1>3, <1>7, <1>8, <1>9 DEF f, n

LEMMA SentIsKept == \A s \in StoreInputs : RepairKeepsSent(s)
<1> SUFFICES ASSUME NEW s \in StoreInputs, NEW a \in s.alerts, s.caseColumn, a.state = "sent"
             PROVE  LET t == RepairFundingCases(s)
                    IN \E b \in t.alerts :
                         /\ b.dest = a.dest /\ b.state = "sent"
                         /\ b.subject = a.subject \/ b.subject \in Subjects(t, s.cases[a.subject].group)
  BY DEF RepairKeepsSent
<1> DEFINE t == RepairFundingCases(s)
           Stands(b) == /\ b.dest = a.dest /\ b.state = "sent"
                        /\ b.subject = a.subject \/ b.subject \in Subjects(t, s.cases[a.subject].group)
<1>1. IsStore(s)
  BY StoreAssumption
<1>2. Untouched(s, t) \/ ScalarsWrapped(s, t) \/ Merges(s, t)
  BY <1>1, RepairIs
<1> HIDE DEF t
<1>3. CASE Untouched(s, t) \/ ScalarsWrapped(s, t)
  <2>1. a \in t.alerts /\ Stands(a)
    BY <1>3 DEF Untouched, ScalarsWrapped
  <2> QED
    BY <2>1 DEF t
<1>4. CASE Merges(s, t)
  <2>1. /\ t.cases = [id \in DOMAIN s.cases \ MergedAway(s) |-> MergedCase(s, id)]
        /\ t.alerts = {Rekeyed(s, x) : x \in {y \in s.alerts : ~Superseded(s, y)}}
    BY <1>4 DEF Merges, RepairedAlerts
  <2> DEFINE k == Keep(s, a.subject)
  <2>2. a.subject \in DOMAIN s.cases /\ NewSubject(s, a) = k
    BY <1>1, RekeyedIs
  <2>3. k \in DOMAIN s.cases \ MergedAway(s) /\ s.cases[k].group = s.cases[a.subject].group
    BY <1>1, <2>2, KeepIs
  <2>4. k \in Subjects(t, s.cases[a.subject].group)
    <3>1. MergedCase(s, k).group = s.cases[k].group
      BY <1>1, <2>3, MergedCaseIs
    <3>2. k \in DOMAIN t.cases /\ t.cases[k] = MergedCase(s, k)
      BY <2>1, <2>3
    <3> QED
      BY <2>3, <3>1, <3>2 DEF Subjects
  <2>5. CASE ~Superseded(s, a)
    <3> DEFINE b == Rekeyed(s, a)
    <3>1. b \in t.alerts
      BY <2>1, <2>5
    <3>2. b.subject = k /\ b.dest = a.dest /\ b.state = "sent"
      BY <1>1, <2>2, RekeyedIs
    <3> HIDE DEF b, k
    <3> QED
      BY <2>4, <3>1, <3>2 DEF t
  <2>6. CASE Superseded(s, a)
    <3>1. PICK x \in s.alerts : Stale(s, a) /\ SameNewKey(s, a, x)
      BY <2>6 DEF Superseded
    <3>2. x.subject = k /\ x.dest = a.dest
      BY <2>2, <3>1 DEF SameNewKey
    <3>3. ~Superseded(s, x)
      BY <2>3, <3>2 DEF Superseded, Stale
    <3>4. Folded(s, x).state = "sent"
      <4>1. Folded(s, x) = [x EXCEPT !.state = "sent"]
        BY <3>1 DEF Folded
      <4>2. x \in [subject : DOMAIN s.cases, dest : STRING, state : STRING, case : Nat]
        BY <1>1 DEF IsStore
      <4> QED
        BY <4>1, <4>2
    <3> DEFINE b == Rekeyed(s, x)
    <3>5. b \in t.alerts
      BY <2>1, <3>3
    <3>6. b.subject = Keep(s, x.subject) /\ b.dest = a.dest /\ b.state = "sent"
      BY <1>1, <3>2, <3>4, RekeyedIs
    <3>7. Keep(s, x.subject) = k
      BY <1>1, <2>3, <3>2, KeepIs
    <3> HIDE DEF b, k
    <3> QED
      BY <2>4, <3>5, <3>6, <3>7 DEF t
  <2> QED
    BY <2>5, <2>6
<1> QED
  BY <1>2, <1>3, <1>4

LEMMA KeysStayUnique == \A s \in StoreInputs : RepairKeysUnique(s)
<1> SUFFICES ASSUME NEW s \in StoreInputs PROVE RepairKeysUnique(s)
  OBVIOUS
<1> DEFINE t == RepairFundingCases(s)
           T == [subject : DOMAIN s.cases, dest : STRING, state : STRING, case : Nat]
<1>1. IsStore(s)
  BY StoreAssumption
<1>2. Untouched(s, t) \/ ScalarsWrapped(s, t) \/ Merges(s, t)
  BY <1>1, RepairIs
<1>3. /\ \A a, b \in s.alerts : a.subject = b.subject /\ a.dest = b.dest => a = b
      /\ \A a \in s.alerts : a.subject \in DOMAIN s.cases
  BY <1>1, RekeyedIs DEF IsStore
<1>4. CASE Untouched(s, t)
  <2>1. t = s
    BY <1>4 DEF Untouched
  <2> HIDE DEF t
  <2> QED
    BY <1>3, <2>1 DEF RepairKeysUnique, t
<1>5. CASE ScalarsWrapped(s, t)
  <2>1. t.alerts = s.alerts /\ DOMAIN t.cases = DOMAIN s.cases
    BY <1>5 DEF ScalarsWrapped, NormalizedCases
  <2> HIDE DEF t
  <2> QED
    BY <1>3, <2>1 DEF RepairKeysUnique, t
<1>6. CASE Merges(s, t)
  <2>1. /\ DOMAIN t.cases = DOMAIN s.cases \ MergedAway(s)
        /\ t.alerts = RepairedAlerts(s)
        /\ s.caseColumn => ~RekeyCollides(s)
    BY <1>6 DEF Merges
  <2>2. CASE ~s.caseColumn
    <3>1. t.alerts = s.alerts
      BY <2>1, <2>2 DEF RepairedAlerts
    <3> HIDE DEF t
    <3> QED
      BY <1>3, <2>2, <3>1 DEF RepairKeysUnique, t
  <2>3. CASE s.caseColumn
    <3>1. t.alerts = {Rekeyed(s, x) : x \in {y \in s.alerts : ~Superseded(s, y)}}
      BY <2>1, <2>3 DEF RepairedAlerts
    <3> HIDE DEF t
    <3>2. ASSUME NEW a \in t.alerts, NEW b \in t.alerts, a.subject = b.subject, a.dest = b.dest
          PROVE  a = b
      <4>1. PICK x \in s.alerts : ~Superseded(s, x) /\ a = Rekeyed(s, x)
        BY <3>1
      <4>2. PICK y \in s.alerts : ~Superseded(s, y) /\ b = Rekeyed(s, y)
        BY <3>1
      <4>3. NewSubject(s, x) = NewSubject(s, y) /\ x.dest = y.dest
        BY <1>1, <3>2, <4>1, <4>2, RekeyedIs
      <4>4. Stale(s, x) => Stale(s, y)
        BY <4>1, <4>3 DEF Superseded, SameNewKey, NewSubject
      <4>5. Stale(s, y) => Stale(s, x)
        BY <4>2, <4>3 DEF Superseded, SameNewKey, NewSubject
      <4>6. x = y
        <5>1. CASE Stale(s, x)
          BY <2>1, <2>3, <4>1, <4>2, <4>3, <4>4, <5>1 DEF RekeyCollides
        <5>2. CASE ~Stale(s, x)
          <6>1. x.subject = y.subject
            BY <4>3, <4>5, <5>2 DEF NewSubject
          <6> QED
            BY <1>3, <4>3, <6>1
        <5> QED
          BY <5>1, <5>2
      <4> QED
        BY <4>1, <4>2, <4>6
    <3>3. ASSUME NEW a \in t.alerts PROVE a.subject \in DOMAIN t.cases
      <4>1. PICK x \in s.alerts : a = Rekeyed(s, x)
        BY <3>1
      <4>2. a.subject = Keep(s, x.subject) /\ x.subject \in DOMAIN s.cases
        BY <1>1, <4>1, RekeyedIs
      <4>3. Keep(s, x.subject) \in DOMAIN s.cases /\ Keep(s, x.subject) \notin MergedAway(s)
        BY <1>1, <4>2, KeepIs
      <4> QED
        BY <2>1, <4>2, <4>3
    <3> QED
      BY <3>2, <3>3 DEF RepairKeysUnique, t
  <2> QED
    BY <2>2, <2>3
<1> QED
  BY <1>2, <1>4, <1>5, <1>6

\* The repair merges duplicates without losing history, deliveries or keys,
\* whatever cases, events and alerts the store holds.
THEOREM LosslessRepair == AlgSpec => []RepairLosesNothing
<1>1. Given => RepairLosesNothing
  BY HistoryIsKept, SentIsKept, KeysStayUnique
     DEF Given, RepairLosesNothing, RepairHistory, RepairSent, RepairKeys
<1> QED
  BY <1>1, AlwaysGiven, PTL

(***************************************************************************)
(* resolve_candidates: how a chain is spelled decides nothing.             *)
(***************************************************************************)

ResolverStates ==
  [anchor : Anchors, nodes : Seq(Nodes), edges : Seq(GraphEdges), bindings : SUBSET Bindings, now : Int]

LEMMA AliasesAreIdempotent ==
  ASSUME NEW c \in DOMAIN ChainAliases
  PROVE  ChainAliases[c] \in DOMAIN ChainAliases /\ ChainAliases[ChainAliases[c]] = ChainAliases[c]
BY DEF ChainAliases

\* Two spellings of one key.
Alike(a, b) == /\ Qualified(a) <=> Qualified(b)
               /\ Qualified(a) => Canonical(a) = Canonical(b)

LEMMA AlikeAgree ==
  ASSUME NEW a, NEW a1, NEW b, NEW b1, Alike(a, a1), Alike(b, b1)
  PROVE  /\ SameKey(a, b) <=> SameKey(a1, b1)
         /\ \A kind \in {"token", "wallet"} : NormalizeIdentity(kind, a) = NormalizeIdentity(kind, a1)
BY DEF Alike, SameKey, NormalizeIdentity

LEMMA SameKeyIsAlike ==
  ASSUME NEW a, NEW b, SameKey(a, b)
  PROVE  Qualified(a) /\ Qualified(b) /\ Alike(a, b)
BY DEF Alike, SameKey

LEMMA RespellIs ==
  ASSUME NEW k
  PROVE  Alike(k, Respell(k))
<1>1. CASE ~Qualified(k)
  BY <1>1 DEF Alike, Respell
<1>2. CASE Qualified(k)
  <2>1. k.chain \in DOMAIN ChainAliases /\ k.id # ""
    BY <1>2 DEF Qualified
  <2>2. /\ CanonicalChain(k) \in DOMAIN ChainAliases
        /\ ChainAliases[CanonicalChain(k)] = CanonicalChain(k)
    BY <2>1, AliasesAreIdempotent DEF CanonicalChain
  <2> DEFINE c == Canonical(k)
  <2>3. c.chain = CanonicalChain(k) /\ c.id = k.id
    BY DEF Canonical
  <2>4. Qualified(c) /\ CanonicalChain(c) = CanonicalChain(k)
    BY <2>1, <2>2, <2>3 DEF Qualified, CanonicalChain
  <2>5. Canonical(c) = c
    BY <2>3, <2>4 DEF Canonical
  <2> QED
    BY <1>2, <2>4, <2>5 DEF Alike, Respell
<1> QED
  BY <1>1, <1>2

\* What an edge is, for the resolver, whatever its keys are called.
SameEdge(e, f) ==
  /\ f.type = e.type /\ f.truth = e.truth /\ f.evidence = e.evidence
  /\ f.validFrom = e.validFrom /\ f.validUntil = e.validUntil /\ f.occurred = e.occurred
  /\ Alike(e.from, f.from)
  /\ IF e.type = "reused_social_link" THEN f.to = e.to ELSE Alike(e.to, f.to)

LEMMA RespelledEdgeIs ==
  ASSUME NEW e \in GraphEdges
  PROVE  SameEdge(e, RespellEdge(e))
BY RespellIs DEF SameEdge, RespellEdge, GraphEdges

SameAnchor(a, b) ==
  /\ b.socials = a.socials
  /\ Alike(a.token, b.token) /\ Alike(a.deployer, b.deployer) /\ Alike(a.funder, b.funder)
  /\ Alike(a.authority, b.authority) /\ Alike(a.feePayer, b.feePayer) /\ Alike(a.factory, b.factory)

LEMMA RespelledAnchorIs ==
  ASSUME NEW a \in Anchors
  PROVE  SameAnchor(a, RespellAnchor(a))
BY RespellIs DEF SameAnchor, RespellAnchor, Anchors

\* Two inputs that differ in how chains are spelled.
SameInput(x, y) ==
  /\ y.now = x.now /\ y.bindings = x.bindings /\ SameAnchor(x.anchor, y.anchor)
  /\ Len(y.nodes) = Len(x.nodes) /\ DOMAIN y.nodes = DOMAIN x.nodes
  /\ \A i \in DOMAIN x.nodes : /\ y.nodes[i].type = x.nodes[i].type
                               /\ Alike(x.nodes[i].key, y.nodes[i].key)
  /\ DOMAIN y.edges = DOMAIN x.edges
  /\ \A i \in DOMAIN x.edges : SameEdge(x.edges[i], y.edges[i])

LEMMA RespelledInputIs ==
  ASSUME NEW x \in ResolverStates
  PROVE  SameInput(x, RespellInput(x))
<1> DEFINE y == RespellInput(x)
           nodes == [i \in DOMAIN x.nodes |-> RespellNode(x.nodes[i])]
           edges == [i \in DOMAIN x.edges |-> RespellEdge(x.edges[i])]
<1>1. /\ x.anchor \in Anchors /\ x.nodes \in Seq(Nodes) /\ x.edges \in Seq(GraphEdges)
      /\ x = [anchor |-> x.anchor, nodes |-> x.nodes, edges |-> x.edges,
              bindings |-> x.bindings, now |-> x.now]
  BY DEF ResolverStates
<1>2. /\ y.anchor = RespellAnchor(x.anchor) /\ y.nodes = nodes /\ y.edges = edges
      /\ y.bindings = x.bindings /\ y.now = x.now
  BY <1>1 DEF RespellInput
<1>3. Len(x.nodes) \in Nat /\ DOMAIN x.nodes = 1 .. Len(x.nodes)
  BY <1>1
<1>4. DOMAIN nodes = 1 .. Len(x.nodes) /\ DOMAIN edges = DOMAIN x.edges
  BY <1>3
<1>5. Len(nodes) = Len(x.nodes)
  BY <1>3, <1>4
<1>6. ASSUME NEW i \in DOMAIN x.nodes
      PROVE  nodes[i].type = x.nodes[i].type /\ Alike(x.nodes[i].key, nodes[i].key)
  <2>1. x.nodes[i] \in Nodes
    BY <1>1
  <2>2. nodes[i] = [type |-> x.nodes[i].type, key |-> Respell(x.nodes[i].key)]
    BY <2>1 DEF RespellNode, Nodes
  <2> QED
    BY <2>2, RespellIs
<1>7. ASSUME NEW i \in DOMAIN x.edges PROVE SameEdge(x.edges[i], edges[i])
  BY <1>1, RespelledEdgeIs
<1>8. SameAnchor(x.anchor, y.anchor)
  BY <1>1, <1>2, RespelledAnchorIs
<1> HIDE DEF y, nodes, edges
<1> QED
  BY <1>2, <1>3, <1>4, <1>5, <1>6, <1>7, <1>8 DEF SameInput, y

\* The joins of the resolver do not tell spellings apart.
LEMMA AuthorityIsTheSame ==
  ASSUME NEW e, NEW f, SameEdge(e, f), NEW now
  PROVE  EdgeIsAuthoritative(f, now) <=> EdgeIsAuthoritative(e, now)
BY DEF SameEdge, EdgeIsAuthoritative, Within

LEMMA AlikeIsSymmetric ==
  ASSUME NEW a, NEW b, Alike(a, b)
  PROVE  Alike(b, a)
BY DEF Alike

LEMMA NoKeyIsUnqualified == ~Qualified(NoKey)
BY DEF Qualified, NoKey

LEMMA ActorsAreAlike ==
  ASSUME NEW a, NEW b, SameAnchor(a, b), NEW type
  PROVE  Alike(ActorOf(a, type), ActorOf(b, type))
BY NoKeyIsUnqualified DEF SameAnchor, ActorOf, Alike

LEMMA NodesAreTheSame ==
  ASSUME NEW x, NEW y, SameInput(x, y), NEW k, NEW k1, Alike(k, k1), NEW type
  PROVE  IsNode(y.nodes, k1, type) <=> IsNode(x.nodes, k, type)
<1>1. \A i \in DOMAIN x.nodes : /\ y.nodes[i].type = x.nodes[i].type
                                /\ SameKey(x.nodes[i].key, k) <=> SameKey(y.nodes[i].key, k1)
  BY AlikeAgree DEF SameInput
<1> QED
  BY <1>1 DEF SameInput, IsNode, Range

LEMMA CanonicalChainIsTheSame ==
  ASSUME NEW a, NEW b, Alike(a, b), Qualified(a)
  PROVE  CanonicalChain(a) = CanonicalChain(b)
BY DEF Alike, Canonical

LEMMA EmitsTheSame ==
  ASSUME NEW x, NEW y, SameInput(x, y), Qualified(x.anchor.token), NEW p, p[3] \in DOMAIN x.edges
  PROVE  EmitsAt(y, p) <=> EmitsAt(x, p)
<1> DEFINE e == x.edges[p[3]]
           f == y.edges[p[3]]
           n == x.nodes[p[2]]
           m == y.nodes[p[2]]
<1>1. /\ SameEdge(e, f) /\ SameAnchor(x.anchor, y.anchor) /\ y.now = x.now
      /\ y.anchor.socials = x.anchor.socials
  BY DEF SameInput, SameAnchor
<1>2. Alike(x.anchor.token, y.anchor.token) /\ Alike(x.anchor.deployer, y.anchor.deployer)
      /\ Alike(x.anchor.factory, y.anchor.factory)
  BY <1>1 DEF SameAnchor
<1>3. e.type = f.type /\ Alike(e.from, f.from)
      /\ (e.type = "reused_social_link" => e.to = f.to)
      /\ (e.type # "reused_social_link" => Alike(e.to, f.to))
  BY <1>1 DEF SameEdge
<1>4. EdgeIsAuthoritative(e, x.now) <=> EdgeIsAuthoritative(f, y.now)
  BY <1>1, AuthorityIsTheSame
<1> HIDE DEF e, f
<1>5. CrossChain(x.anchor, e, x.now) <=> CrossChain(y.anchor, f, y.now)
  <2>1. CASE e.type # "cross_chain_deployment"
    BY <1>3, <2>1 DEF CrossChain
  <2>2. CASE e.type = "cross_chain_deployment"
    <3>1. Alike(e.to, f.to)
      BY <1>3, <2>2
    <3>2. SameKey(e.from, x.anchor.token) <=> SameKey(f.from, y.anchor.token)
      BY <1>2, <1>3, AlikeAgree
    <3>3. Qualified(e.to) <=> Qualified(f.to)
      BY <3>1 DEF Alike
    <3>4. Qualified(e.to) => CanonicalChain(e.to) = CanonicalChain(f.to)
      BY <3>1, CanonicalChainIsTheSame
    <3>5. CanonicalChain(x.anchor.token) = CanonicalChain(y.anchor.token)
      BY <1>2, CanonicalChainIsTheSame
    <3> QED
      BY <1>3, <1>4, <2>2, <3>2, <3>3, <3>4, <3>5 DEF CrossChain
  <2> QED
    BY <2>1, <2>2
<1>6. FundedWallet(x.anchor, x.nodes, e) <=> FundedWallet(y.anchor, y.nodes, f)
  <2>1. CASE e.type # "funded_by"
    BY <1>3, <2>1 DEF FundedWallet
  <2>2. CASE e.type = "funded_by"
    <3>1. Alike(e.to, f.to)
      BY <1>3, <2>2
    <3>2. SameKey(x.anchor.deployer, e.from) <=> SameKey(y.anchor.deployer, f.from)
      BY <1>2, <1>3, AlikeAgree
    <3>3. IsNode(y.nodes, f.to, "wallet") <=> IsNode(x.nodes, e.to, "wallet")
      BY <3>1, NodesAreTheSame
    <3> QED
      BY <1>3, <2>2, <3>2, <3>3 DEF FundedWallet
  <2> QED
    BY <2>1, <2>2
<1>7. ASSUME NEW s PROVE SocialReuse(x.nodes, s, e) <=> SocialReuse(y.nodes, s, f)
  <2>1. CASE e.type # "reused_social_link"
    BY <1>3, <2>1 DEF SocialReuse
  <2>2. CASE e.type = "reused_social_link"
    <3>1. IsNode(y.nodes, f.from, "token") <=> IsNode(x.nodes, e.from, "token")
      BY <1>3, NodesAreTheSame
    <3> QED
      BY <1>3, <2>2, <3>1 DEF SocialReuse
  <2> QED
    BY <2>1, <2>2
<1>8. ASSUME p[2] \in DOMAIN x.nodes
      PROVE  /\ OtherToken(x.anchor, n) <=> OtherToken(y.anchor, m)
             /\ SharedActor(x.anchor, n, e) <=> SharedActor(y.anchor, m, f)
  <2>1. m.type = n.type /\ Alike(n.key, m.key)
    BY <1>8 DEF SameInput
  <2> HIDE DEF n, m
  <2>2. OtherToken(x.anchor, n) <=> OtherToken(y.anchor, m)
    <3>1. SameKey(n.key, x.anchor.token) <=> SameKey(m.key, y.anchor.token)
      BY <1>2, <2>1, AlikeAgree
    <3> QED
      BY <2>1, <3>1 DEF OtherToken, Alike
  <2>3. SharedActor(x.anchor, n, e) <=> SharedActor(y.anchor, m, f)
    <3>1. CASE e.type = "reused_social_link"
      <4>1. ActorOf(x.anchor, e.type) = NoKey /\ ActorOf(y.anchor, f.type) = NoKey
        BY <1>3, <3>1 DEF ActorOf
      <4> QED
        BY <4>1, NoKeyIsUnqualified DEF SharedActor, SameKey
    <3>2. CASE e.type # "reused_social_link"
      <4>1. Alike(e.to, f.to)
        BY <1>3, <3>2
      <4>2. SameKey(e.to, n.key) <=> SameKey(f.to, m.key)
        BY <2>1, <4>1, AlikeAgree
      <4>3. SameKey(x.anchor.factory, e.from) <=> SameKey(y.anchor.factory, f.from)
        BY <1>2, <1>3, AlikeAgree
      <4>4. Alike(ActorOf(x.anchor, e.type), ActorOf(y.anchor, f.type))
        BY <1>1, <1>3, ActorsAreAlike
      <4>5. SameKey(ActorOf(x.anchor, e.type), e.from) <=> SameKey(ActorOf(y.anchor, f.type), f.from)
        BY <1>3, <4>4, AlikeAgree
      <4> QED
        BY <4>2, <4>3, <4>5 DEF SharedActor
    <3> QED
      BY <3>1, <3>2
  <2> QED
    BY <2>2, <2>3
<1>9. DOMAIN y.nodes = DOMAIN x.nodes
  BY DEF SameInput
<1> QED
  BY <1>1, <1>5, <1>6, <1>7, <1>8, <1>9 DEF EmitsAt, e, f

LEMMA SameConfidence ==
  ASSUME NEW x, NEW y, SameInput(x, y), NEW i \in DOMAIN x.edges, x.edges[i].type = "funded_by"
  PROVE  FundingConfidence(y.edges[i], y.anchor, y.edges, y.bindings, y.now)
           = FundingConfidence(x.edges[i], x.anchor, x.edges, x.bindings, x.now)
<1>1. /\ y.now = x.now /\ y.bindings = x.bindings /\ y.anchor.socials = x.anchor.socials
      /\ DOMAIN y.edges = DOMAIN x.edges
  BY DEF SameInput, SameAnchor
<1>2. \A j \in DOMAIN x.edges : SameEdge(x.edges[j], y.edges[j])
  BY DEF SameInput
<1>3. EdgeIsAuthoritative(y.edges[i], y.now) <=> EdgeIsAuthoritative(x.edges[i], x.now)
  BY <1>1, <1>2, AuthorityIsTheSame
<1>4. ASSUME NEW j \in DOMAIN x.edges
      PROVE  CorroboratesFunding(y.edges[j], y.edges[i], y.anchor, y.bindings, y.now)
               <=> CorroboratesFunding(x.edges[j], x.edges[i], x.anchor, x.bindings, x.now)
  <2> DEFINE e == x.edges[i]
             f == y.edges[i]
             re == x.edges[j]
             rf == y.edges[j]
  <2>1. SameEdge(e, f) /\ SameEdge(re, rf) /\ e.type = "funded_by"
    BY <1>2
  <2>2. EdgeIsAuthoritative(rf, y.now) <=> EdgeIsAuthoritative(re, x.now)
    BY <1>1, <1>2, AuthorityIsTheSame
  <2> HIDE DEF e, f, re, rf
  <2>3. /\ Alike(e.to, f.to) /\ e.occurred = f.occurred /\ re.type = rf.type
        /\ Alike(re.from, rf.from) /\ re.validFrom = rf.validFrom /\ re.validUntil = rf.validUntil
        /\ re.type = "reused_social_link" => re.to = rf.to
    BY <2>1 DEF SameEdge
  <2>4. SameKey(rf.from, f.to) <=> SameKey(re.from, e.to)
    BY <2>3, AlikeAgree
  <2>5. CorroboratesFunding(rf, f, y.anchor, y.bindings, y.now)
          <=> CorroboratesFunding(re, e, x.anchor, x.bindings, x.now)
    BY <1>1, <2>2, <2>3, <2>4 DEF CorroboratesFunding
  <2> QED
    BY <2>5 DEF e, f, re, rf
<1>5. (\E re \in Range(y.edges) : CorroboratesFunding(re, y.edges[i], y.anchor, y.bindings, y.now))
        <=> \E re \in Range(x.edges) : CorroboratesFunding(re, x.edges[i], x.anchor, x.bindings, x.now)
  BY <1>1, <1>4 DEF Range
<1> QED
  BY <1>3, <1>5 DEF FundingConfidence

LEMMA SameEmission ==
  ASSUME NEW x, NEW y, SameInput(x, y), NEW p, p[3] \in DOMAIN x.edges, EmitsAt(x, p)
  PROVE  Emission(y, p) = Emission(x, p)
<1> DEFINE e == x.edges[p[3]]
           f == y.edges[p[3]]
<1>1. SameEdge(e, f) /\ y.now = x.now
  BY DEF SameInput
<1>2. EdgeIsAuthoritative(f, y.now) <=> EdgeIsAuthoritative(e, x.now)
  BY <1>1, AuthorityIsTheSame
<1>3. e.type = f.type /\ Alike(e.from, f.from) /\ f.evidence = e.evidence
      /\ (e.type # "reused_social_link" => Alike(e.to, f.to))
  BY <1>1 DEF SameEdge
<1>4. CASE p[1] = 1
  <2>1. e.type = "cross_chain_deployment"
    BY <1>4 DEF EmitsAt, CrossChain
  <2> HIDE DEF e, f
  <2>2. NormalizeIdentity("token", f.to) = NormalizeIdentity("token", e.to)
    BY <1>3, <2>1, AlikeAgree
  <2> QED
    BY <1>3, <1>4, <2>2 DEF Emission, Emit, e, f
<1>5. CASE p[1] = 2
  <2>1. p[2] \in DOMAIN x.nodes
    BY <1>5 DEF EmitsAt
  <2>2. Alike(x.nodes[p[2]].key, y.nodes[p[2]].key)
    BY <2>1 DEF SameInput
  <2>3. NormalizeIdentity("token", y.nodes[p[2]].key) = NormalizeIdentity("token", x.nodes[p[2]].key)
    BY <2>2, AlikeAgree
  <2> HIDE DEF e, f
  <2> QED
    BY <1>2, <1>3, <1>5, <2>3 DEF Emission, Emit, e, f
<1>6. CASE p[1] = 3
  <2>1. e.type = "funded_by"
    BY <1>6 DEF EmitsAt, FundedWallet
  <2>2. FundingConfidence(f, y.anchor, y.edges, y.bindings, y.now)
          = FundingConfidence(e, x.anchor, x.edges, x.bindings, x.now)
    BY <2>1, SameConfidence
  <2> HIDE DEF e, f
  <2>3. NormalizeIdentity("wallet", f.to) = NormalizeIdentity("wallet", e.to)
    BY <1>3, <2>1, AlikeAgree
  <2> QED
    BY <1>3, <1>6, <2>2, <2>3 DEF Emission, Emit, e, f
<1>7. CASE p[1] = 4
  <2> HIDE DEF e, f
  <2>1. NormalizeIdentity("token", f.from) = NormalizeIdentity("token", e.from)
    BY <1>3, AlikeAgree
  <2> QED
    BY <1>3, <1>7, <2>1 DEF Emission, Emit, e, f
<1>8. p[1] \in {1, 2, 3, 4}
  BY DEF EmitsAt
<1> QED
  BY <1>4, <1>5, <1>6, <1>7, <1>8

\* Inputs that differ in spelling only resolve to the same candidates.
LEMMA SpellingIsIgnored ==
  ASSUME NEW x, NEW y, SameInput(x, y)
  PROVE  ResolveCandidates(y) = ResolveCandidates(x)
<1>1. Qualified(y.anchor.token) <=> Qualified(x.anchor.token)
  BY DEF SameInput, SameAnchor, Alike
<1>2. CASE ~Qualified(x.anchor.token)
  BY <1>1, <1>2 DEF ResolveCandidates
<1>3. CASE Qualified(x.anchor.token)
  <2>1. /\ Len(y.nodes) = Len(x.nodes) /\ y.anchor.socials = x.anchor.socials
        /\ DOMAIN y.edges = DOMAIN x.edges
    BY DEF SameInput, SameAnchor
  <2> DEFINE All == (1..4) \X (0..(Len(x.nodes) + Len(x.anchor.socials))) \X DOMAIN x.edges
  <2>2. \A p \in All : EmitsAt(y, p) <=> EmitsAt(x, p)
    BY <1>3, EmitsTheSame
  <2>3. Places(y) = Places(x)
    BY <2>1, <2>2 DEF Places
  <2>4. \A p \in Places(x) : Emission(y, p) = Emission(x, p)
    BY SameEmission DEF Places
  <2>5. Kept(y) = Kept(x)
    BY <2>3, <2>4 DEF Kept
  <2>6. \A p \in Kept(x) : p \in Places(x)
    BY DEF Kept
  <2>7. {Emission(y, p) : p \in Kept(y)} = {Emission(x, p) : p \in Kept(x)}
    BY <2>4, <2>5, <2>6
  <2> QED
    BY <1>1, <1>3, <2>7 DEF ResolveCandidates
<1> QED
  BY <1>2, <1>3

LEMMA AliasesDecideNothing == \A x \in ResolverStates : AliasesAgree(x)
BY RespelledInputIs, SpellingIsIgnored DEF AliasesAgree

(***************************************************************************)
(* resolve_candidates: weak edges lift nothing.                            *)
(***************************************************************************)

LEMMA WithoutWeakIs ==
  ASSUME NEW x \in ResolverStates, NEW w, w = WithoutWeakEdges(x)
  PROVE  /\ w.anchor = x.anchor /\ w.nodes = x.nodes /\ w.bindings = x.bindings /\ w.now = x.now
         /\ DOMAIN w.edges = {i \in DOMAIN x.edges : EdgeIsAuthoritative(x.edges[i], x.now)}
         /\ \A i \in DOMAIN w.edges : w.edges[i] = x.edges[i]
<1>1. x = [anchor |-> x.anchor, nodes |-> x.nodes, edges |-> x.edges,
           bindings |-> x.bindings, now |-> x.now]
  BY DEF ResolverStates
<1> DEFINE kept == {i \in DOMAIN x.edges : EdgeIsAuthoritative(x.edges[i], x.now)}
           edges == [i \in kept |-> x.edges[i]]
<1>2. w = [x EXCEPT !.edges = edges]
  BY DEF WithoutWeakEdges, Restrict
<1>3. DOMAIN edges = kept /\ \A i \in kept : edges[i] = x.edges[i]
  OBVIOUS
<1> HIDE DEF edges
<1>4. /\ w.anchor = x.anchor /\ w.nodes = x.nodes /\ w.bindings = x.bindings /\ w.now = x.now
      /\ w.edges = edges
  BY <1>1, <1>2
<1> QED
  BY <1>3, <1>4

LEMMA StrongEdgesSuffice ==
  ASSUME NEW x \in ResolverStates, NEW w, w = WithoutWeakEdges(x), NEW p, p[3] \in DOMAIN w.edges
  PROVE  (EmitsAt(w, p) <=> EmitsAt(x, p)) /\ Emission(w, p) = Emission(x, p)
<1>1. /\ w.anchor = x.anchor /\ w.nodes = x.nodes /\ w.bindings = x.bindings /\ w.now = x.now
      /\ DOMAIN w.edges = {i \in DOMAIN x.edges : EdgeIsAuthoritative(x.edges[i], x.now)}
      /\ \A i \in DOMAIN w.edges : w.edges[i] = x.edges[i]
  BY WithoutWeakIs
<1>2. w.edges[p[3]] = x.edges[p[3]]
  BY <1>1
<1>3. EmitsAt(w, p) <=> EmitsAt(x, p)
  BY <1>1, <1>2 DEF EmitsAt
<1>4. ASSUME NEW e
      PROVE  (\E re \in Range(w.edges) : CorroboratesFunding(re, e, x.anchor, x.bindings, x.now))
               <=> \E re \in Range(x.edges) : CorroboratesFunding(re, e, x.anchor, x.bindings, x.now)
  BY <1>1 DEF CorroboratesFunding, Range
<1>5. ASSUME NEW e
      PROVE  FundingConfidence(e, w.anchor, w.edges, w.bindings, w.now)
               = FundingConfidence(e, x.anchor, x.edges, x.bindings, x.now)
  BY <1>1, <1>4 DEF FundingConfidence
<1>6. Emission(w, p) = Emission(x, p)
  BY <1>1, <1>2, <1>5 DEF Emission
<1> QED
  BY <1>3, <1>6

LEMMA StrongIsAuthoritative ==
  ASSUME NEW x, NEW p \in Places(x), Emission(x, p).confidence # "insufficient"
  PROVE  EdgeIsAuthoritative(x.edges[p[3]], x.now)
<1>1. EmitsAt(x, p) /\ p[1] \in {1, 2, 3, 4}
  BY DEF Places, EmitsAt
<1>2. CASE p[1] = 1
  BY <1>1, <1>2 DEF EmitsAt, CrossChain
<1>3. CASE p[1] = 2
  BY <1>3 DEF Emission, Emit
<1>4. CASE p[1] = 3
  BY <1>4 DEF Emission, Emit, FundingConfidence
<1>5. CASE p[1] = 4
  BY <1>5 DEF Emission, Emit
<1> QED
  BY <1>1, <1>2, <1>3, <1>4, <1>5

LEMMA WeakEdgesLiftNothing == \A x \in ResolverStates : WeakEdgesNeverPromote(x)
<1> SUFFICES ASSUME NEW x \in ResolverStates PROVE WeakEdgesNeverPromote(x)
  OBVIOUS
<1> DEFINE w == WithoutWeakEdges(x)
<1>1. /\ w.anchor = x.anchor /\ w.nodes = x.nodes
      /\ DOMAIN w.edges = {i \in DOMAIN x.edges : EdgeIsAuthoritative(x.edges[i], x.now)}
  BY WithoutWeakIs
<1>2. \A p : p[3] \in DOMAIN w.edges =>
               (EmitsAt(w, p) <=> EmitsAt(x, p)) /\ Emission(w, p) = Emission(x, p)
  BY StrongEdgesSuffice
<1> HIDE DEF w
<1>3. \A p \in Places(w) : p \in Places(x) /\ p[3] \in DOMAIN w.edges
  BY <1>1, <1>2 DEF Places
<1>4. \A p \in Places(x) : p[3] \in DOMAIN w.edges => p \in Places(w)
  BY <1>1, <1>2 DEF Places
<1>5. \A p \in Kept(x) : p[3] \in DOMAIN w.edges => p \in Kept(w)
  BY <1>2, <1>3, <1>4 DEF Kept
<1>6. ASSUME NEW c \in Strong(ResolveCandidates(x)) PROVE c \in Strong(ResolveCandidates(w))
  <2>1. PICK p \in Kept(x) : c = Emission(x, p) /\ Qualified(x.anchor.token)
    BY <1>6 DEF Strong, ResolveCandidates
  <2>2. p \in Places(x) /\ c.confidence # "insufficient"
    BY <1>6, <2>1 DEF Kept, Strong
  <2>3. EdgeIsAuthoritative(x.edges[p[3]], x.now)
    BY <2>1, <2>2, StrongIsAuthoritative
  <2>4. p[3] \in DOMAIN w.edges
    BY <1>1, <2>2, <2>3 DEF Places
  <2>5. p \in Kept(w) /\ Emission(w, p) = c
    BY <1>2, <1>5, <2>1, <2>4
  <2> QED
    BY <1>1, <2>1, <2>2, <2>5 DEF Strong, ResolveCandidates
<1> QED
  BY <1>6 DEF WeakEdgesNeverPromote, w

(***************************************************************************)
(* resolve_candidates: no self relation, no factory.                       *)
(***************************************************************************)

LEMMA DifferentKeysDiffer ==
  ASSUME NEW a, NEW b, Qualified(a), ~SameKey(a, b)
  PROVE  Respell(a) # Respell(b)
<1>1. CASE Qualified(b)
  BY <1>1 DEF SameKey, Respell
<1>2. CASE ~Qualified(b)
  <2>1. Qualified(Respell(a))
    BY RespellIs DEF Alike
  <2> QED
    BY <1>2, <2>1 DEF Respell
<1> QED
  BY <1>1, <1>2

ActorRelations == {"same_deployer", "same_funder", "same_authority", "same_fee_payer"}

LEMMA ActorRelationsAreShared ==
  ASSUME NEW x, NEW p \in Places(x), Emission(x, p).relation \in ActorRelations
  PROVE  p[1] = 2
<1>1. p[1] \in {1, 2, 3, 4}
  BY DEF Places, EmitsAt
<1> QED
  BY <1>1 DEF Emission, Emit, ActorRelations

LEMMA NoSelfNoFactory == \A x \in ResolverStates : NoSelfOrFactoryRelation(x)
<1> SUFFICES ASSUME NEW x \in ResolverStates, NEW c \in ResolveCandidates(x), c.relation \in ActorRelations
             PROVE  /\ c.to # Respell(x.anchor.token)
                    /\ Respell(ActorOf(x.anchor, IF c.relation = "same_deployer" THEN "deployed_by"
                                                 ELSE IF c.relation = "same_funder" THEN "funded_by"
                                                 ELSE c.relation)) # Respell(x.anchor.factory)
  BY DEF NoSelfOrFactoryRelation, ActorRelations
<1>1. PICK p \in Kept(x) : c = Emission(x, p) /\ Qualified(x.anchor.token)
  BY DEF ResolveCandidates
<1>2. p \in Places(x) /\ p[1] = 2
  BY <1>1, ActorRelationsAreShared DEF Kept
<1> DEFINE n == x.nodes[p[2]]
           e == x.edges[p[3]]
<1>3. OtherToken(x.anchor, n) /\ SharedActor(x.anchor, n, e)
  BY <1>2 DEF Places, EmitsAt
<1>4. c.to = NormalizeIdentity("token", n.key) /\ c.relation = RelationOf(e.type)
  BY <1>1, <1>2 DEF Emission, Emit
<1> HIDE DEF n, e
<1>5. c.to = Respell(n.key)
  BY <1>3, <1>4 DEF OtherToken, NormalizeIdentity, Respell
<1>6. Respell(n.key) # Respell(x.anchor.token)
  BY <1>3, DifferentKeysDiffer DEF OtherToken
<1> DEFINE actor == ActorOf(x.anchor, e.type)
<1>7. SameKey(actor, e.from) /\ ~SameKey(x.anchor.factory, e.from)
  BY <1>3 DEF SharedActor
<1>8. actor # NoKey
  BY <1>7, NoKeyIsUnqualified DEF SameKey
<1>9. e.type = IF c.relation = "same_deployer" THEN "deployed_by"
               ELSE IF c.relation = "same_funder" THEN "funded_by" ELSE c.relation
  BY <1>4, <1>8 DEF RelationOf, ActorOf
<1> HIDE DEF actor
<1>10. Respell(actor) # Respell(x.anchor.factory)
  <2>1. ~SameKey(actor, x.anchor.factory)
    BY <1>7 DEF SameKey
  <2> QED
    BY <1>7, <2>1, DifferentKeysDiffer DEF SameKey
<1> QED
  BY <1>5, <1>6, <1>9, <1>10 DEF actor

(***************************************************************************)
(* Dependency groups: copies of one source, and nothing else, share one.   *)
(***************************************************************************)

Deps == Seq(STRING \X STRING)
Ups(deps) == {deps[i][1] : i \in DOMAIN deps}

LEMMA DepsAre ==
  ASSUME NEW deps \in Deps
  PROVE  /\ Len(deps) \in Nat /\ DOMAIN deps = 1 .. Len(deps)
         /\ \A i \in DOMAIN deps : deps[i][1] \in STRING /\ deps[i][2] \in STRING
BY DEF Deps

\* A ref that any pair mentions has its upstream among those of the pairs.
LEMMA UpstreamIs ==
  ASSUME NEW deps \in Deps, NEW r \in STRING
  PROVE  /\ Upstream(deps, r) \in STRING
         /\ Mentioned(deps, r) => Upstream(deps, r) \in Ups(deps)
         /\ r \in Ups(deps) => Upstream(deps, r) \in Ups(deps)
<1> DEFINE pairs == {i \in DOMAIN deps : deps[i][2] = r}
           last == CHOOSE i \in pairs : \A j \in pairs : j <= i
<1>1. /\ Len(deps) \in Nat /\ DOMAIN deps = 1 .. Len(deps)
      /\ \A i \in DOMAIN deps : deps[i][1] \in STRING
  BY DepsAre
<1>2. CASE pairs = {}
  <2>1. Upstream(deps, r) = r
    BY <1>2 DEF Upstream
  <2>2. Mentioned(deps, r) => r \in Ups(deps)
    BY <1>2 DEF Mentioned, Ups, Range
  <2> QED
    BY <2>1, <2>2
<1>3. CASE pairs # {}
  <2>1. pairs \subseteq Nat /\ IsFiniteSet(pairs)
    <3>1. IsFiniteSet(1 .. Len(deps))
      BY <1>1, FS_Interval
    <3>2. pairs \in SUBSET (1 .. Len(deps))
      BY <1>1
    <3> HIDE DEF pairs
    <3>3. pairs \subseteq Nat
      <4>1. \A n \in 1 .. Len(deps) : n \in Nat
        BY <1>1
      <4> QED
        BY <3>2, <4>1
    <3> QED
      BY <3>1, <3>2, <3>3, FS_Subset
  <2>2. last \in pairs
    <3> HIDE DEF pairs
    <3>1. \E i \in pairs : \A j \in pairs : j <= i
      BY <1>3, <2>1, GreatestNatural
    <3> QED
      BY <3>1
  <2>3. Upstream(deps, r) = deps[last][1]
    BY <1>3 DEF Upstream
  <2> HIDE DEF last
  <2> QED
    BY <1>1, <2>2, <2>3 DEF Ups
<1> QED
  BY <1>2, <1>3

\* What Walk computes.
Walks(deps, r) ==
  /\ Walk(deps, r) \in [0 .. Len(deps) -> STRING]
  /\ Walk(deps, r)[0] = r
  /\ \A n \in Nat : n < Len(deps) => Walk(deps, r)[n + 1] = Upstream(deps, Walk(deps, r)[n])

LEMMA WalkRuns ==
  ASSUME NEW deps \in Deps, NEW r \in STRING
  PROVE  Walks(deps, r)
<1> DEFINE N == Len(deps)
           D == STRING
           F == [n \in 1 .. N |-> [v \in D |-> Upstream(deps, v)]]
           Rec(h) == h = [n \in 0 .. N |-> IF n = 0 THEN r ELSE Upstream(deps, h[n - 1])]
           f == CHOOSE h : Rec(h)
<1>1. N \in Nat
  BY DepsAre
<1>2. F \in [1 .. N -> [D -> D]] /\ r \in D
  BY UpstreamIs
<1>3. PICK g : Iterates(g, N, D, r, F)
  <2> HIDE DEF D, F, N
  <2> QED
    BY <1>1, <1>2, Recursion
<1>4. Rec(g)
  <2>1. \A n \in 0 .. N : n # 0 => n \in 1 .. N /\ n - 1 \in 0 .. N
    BY <1>1
  <2>2. /\ g \in [0 .. N -> D] /\ g[0] = r
        /\ \A n \in 1 .. N : g[n] = F[n][g[n - 1]]
    <3> HIDE DEF D, F, N
    <3> QED
      BY <1>3 DEF Iterates
  <2>3. \A n \in 1 .. N : n - 1 \in 0 .. N
    BY <1>1
  <2>4. \A n \in 1 .. N : g[n - 1] \in D
    <3> HIDE DEF D, F, N
    <3> QED
      BY <2>2, <2>3
  <2>5. \A n \in 1 .. N : g[n] = Upstream(deps, g[n - 1])
    BY <2>2, <2>4
  <2> HIDE DEF D, F, N
  <2> QED
    BY <2>1, <2>2, <2>5
<1>5. Rec(f)
  BY <1>4
<1>6. Walk(deps, r) = f
  BY DEF Walk
<1> HIDE DEF f, F, D, N
<1>7. f[0] = r /\ \A n \in Nat : n < N => f[n + 1] = Upstream(deps, f[n])
  <2>1. 0 \in 0 .. N /\ \A n \in Nat : n < N => n + 1 \in 0 .. N /\ n + 1 # 0 /\ (n + 1) - 1 = n
    BY <1>1
  <2>2. f[0] = r
    BY <1>5, <2>1
  <2>3. ASSUME NEW n \in Nat, n < N PROVE f[n + 1] = Upstream(deps, f[n])
    <3>1. n + 1 \in 0 .. N /\ n + 1 # 0 /\ (n + 1) - 1 = n
      BY <1>1, <2>3
    <3>2. f[n + 1] = Upstream(deps, f[(n + 1) - 1])
      BY <1>5, <3>1
    <3> QED
      BY <3>1, <3>2
  <2> QED
    BY <2>2, <2>3
<1> DEFINE good == {n \in 0 .. N : f[n] \in STRING}
<1>8. 0 \in good /\ \A k \in Nat : k < N /\ k \in good => k + 1 \in good
  <2>1. \A k \in Nat : k < N => k + 1 \in 0 .. N
    BY <1>1
  <2>2. 0 \in 0 .. N /\ f[0] \in STRING
    <3>1. 0 \in 0 .. N
      BY <1>1
    <3>2. f[0] \in STRING
      BY <1>7
    <3> QED
      BY <3>1, <3>2
  <2>3. ASSUME NEW k \in Nat, k < N, f[k] \in STRING PROVE k + 1 \in 0 .. N /\ f[k + 1] \in STRING
    BY <1>7, <2>1, <2>3, UpstreamIs
  <2> QED
    BY <2>2, <2>3
<1>9. \A k \in 0 .. N : k \in good
  <2> HIDE DEF good
  <2> QED
    BY <1>1, <1>8, UpTo
<1>10. f \in [0 .. N -> STRING]
  BY <1>5, <1>9
<1> QED
  BY <1>6, <1>7, <1>10 DEF Walks, N

\* Where no further upstream is, the walk stays.
LEMMA WalkStays ==
  ASSUME NEW deps \in Deps, NEW u \in STRING, NEW root \in STRING, Upstream(deps, root) = root,
         NEW k \in 0 .. Len(deps), Walk(deps, u)[k] = root
  PROVE  DependencyRoot(deps, u) = root
<1> DEFINE N == Len(deps)
           w == Walk(deps, u)
           good == {n \in 0 .. N : k <= n => w[n] = root}
<1>1. N \in Nat /\ k \in Nat /\ k <= N
  BY DepsAre
<1>2. \A n \in Nat : n < N => w[n + 1] = Upstream(deps, w[n])
  BY WalkRuns DEF Walks
<1>8. w[k] = root
  OBVIOUS
<1> HIDE DEF w, N
<1>3. 0 \in good
  <2>1. (k <= 0 => k = 0) /\ 0 \in 0 .. N
    BY <1>1
  <2>2. k <= 0 => w[0] = root
    BY <1>8, <2>1
  <2> QED
    BY <2>1, <2>2
<1>4. ASSUME NEW n \in Nat, n < N, n \in good PROVE n + 1 \in good
  <2>1. n + 1 \in 0 .. N
    BY <1>1, <1>4
  <2>2. CASE k <= n
    BY <1>2, <1>4, <2>1, <2>2
  <2>3. CASE ~(k <= n)
    <3>1. k <= n + 1 => k = n + 1
      BY <1>1, <1>4, <2>3
    <3>2. k <= n + 1 => w[n + 1] = root
      BY <1>8, <3>1
    <3> QED
      BY <2>1, <3>2
  <2> QED
    BY <2>2, <2>3
<1>5. \A n \in 0 .. N : n \in good
  <2> HIDE DEF good
  <2> QED
    BY <1>1, <1>3, <1>4, UpTo
<1>6. N \in 0 .. N
  BY <1>1
<1>7. w[N] = root
  <2>1. N \in good
    BY <1>5, <1>6
  <2> QED
    BY <1>1, <2>1
<1> QED
  BY <1>7 DEF DependencyRoot, w, N

\* A walk that meets another walk goes on as it does.
LEMMA WalkGoesOn ==
  ASSUME NEW deps \in Deps, NEW r \in STRING, NEW n \in 0 .. Len(deps)
  PROVE  \A k \in 0 .. (Len(deps) - n) : Walk(deps, Walk(deps, r)[n])[k] = Walk(deps, r)[n + k]
<1> DEFINE N == Len(deps)
           u == Walk(deps, r)[n]
           v == Walk(deps, u)
           w == Walk(deps, r)
           good == {k \in 0 .. (N - n) : v[k] = w[n + k]}
<1>1. N \in Nat /\ n \in Nat /\ n <= N /\ N - n \in Nat
  BY DepsAre
<1>2. /\ \A k \in Nat : k < N => w[k + 1] = Upstream(deps, w[k])
      /\ w \in [0 .. N -> STRING]
  BY WalkRuns DEF Walks
<1>3. u \in STRING
  BY <1>2
<1>4. v[0] = u /\ \A k \in Nat : k < N => v[k + 1] = Upstream(deps, v[k])
  BY <1>3, WalkRuns DEF Walks
<1>5. u = w[n]
  OBVIOUS
<1> HIDE DEF u, v, w, N
<1>6. 0 \in good
  BY <1>1, <1>4, <1>5
<1>7. ASSUME NEW k \in Nat, k < N - n, k \in good PROVE k + 1 \in good
  <2>1. k + 1 \in 0 .. (N - n) /\ k < N /\ n + k \in Nat /\ n + k < N /\ (n + k) + 1 = n + (k + 1)
    BY <1>1, <1>7
  <2>2. v[k] = w[n + k]
    BY <1>7
  <2>3. v[k + 1] = Upstream(deps, v[k]) /\ w[(n + k) + 1] = Upstream(deps, w[n + k])
    BY <1>2, <1>4, <1>7, <2>1
  <2> QED
    BY <2>1, <2>2, <2>3
<1>8. \A k \in 0 .. (N - n) : k \in good
  <2> HIDE DEF good
  <2> QED
    BY <1>1, <1>6, <1>7, UpTo
<1>9. \A k \in 0 .. (N - n) : v[k] = w[n + k]
  BY <1>8
<1> QED
  BY <1>9 DEF u, v, w, N

\* Every ref on the way up has the root of the ref the way starts at.
LEMMA RootIsShared ==
  ASSUME NEW deps \in Deps, NEW r \in STRING,
         Upstream(deps, DependencyRoot(deps, r)) = DependencyRoot(deps, r),
         NEW up, ReachesUp(deps, r, up)
  PROVE  DependencyRoot(deps, up) = DependencyRoot(deps, r)
<1> DEFINE N == Len(deps)
           root == DependencyRoot(deps, r)
<1>1. N \in Nat
  BY DepsAre
<1>2. PICK n \in 0 .. N : Walk(deps, r)[n] = up
  BY DEF ReachesUp
<1>3. Walk(deps, r) \in [0 .. N -> STRING]
  BY WalkRuns DEF Walks
<1>4. up \in STRING /\ root \in STRING
  <2>1. N \in 0 .. N
    BY <1>1
  <2>2. up \in STRING
    BY <1>2, <1>3
  <2>3. root \in STRING
    BY <1>3, <2>1 DEF DependencyRoot
  <2> QED
    BY <2>2, <2>3
<1>5. N - n \in 0 .. (N - n) /\ N - n \in 0 .. N /\ n + (N - n) = N
  BY <1>1
<1>6. Walk(deps, up)[N - n] = root
  BY <1>2, <1>5, WalkGoesOn DEF DependencyRoot
<1> HIDE DEF root
<1> QED
  BY <1>4, <1>5, <1>6, WalkStays DEF root

\* A ref that some pair mentions has its root among the upstreams.
LEMMA RootIsUpstream ==
  ASSUME NEW deps \in Deps, NEW r \in STRING, Mentioned(deps, r)
  PROVE  /\ DependencyRoot(deps, r) \in Ups(deps)
         /\ ReachesUp(deps, r, DependencyRoot(deps, r))
<1> DEFINE N == Len(deps)
           w == Walk(deps, r)
           good == {n \in 0 .. N : n # 0 => w[n] \in Ups(deps)}
<1>1. N \in Nat /\ DOMAIN deps = 1 .. N
  BY DepsAre
<1>2. N # 0
  BY <1>1 DEF Mentioned, Range
<1>3. /\ w[0] = r /\ w \in [0 .. N -> STRING]
      /\ \A n \in Nat : n < N => w[n + 1] = Upstream(deps, w[n])
  BY WalkRuns DEF Walks
<1> HIDE DEF w, N
<1>4. 0 \in good
  BY <1>1
<1>5. ASSUME NEW n \in Nat, n < N, n \in good PROVE n + 1 \in good
  <2>1. n + 1 \in 0 .. N /\ n \in 0 .. N /\ w[n + 1] = Upstream(deps, w[n])
    BY <1>1, <1>3, <1>5
  <2>2. w[n] \in STRING
    BY <1>3, <2>1
  <2>3. CASE n = 0
    <3>1. w[n] = r
      BY <1>3, <2>3
    <3>2. w[n + 1] \in Ups(deps)
      BY <2>1, <3>1, UpstreamIs
    <3> QED
      BY <2>1, <3>2
  <2>4. CASE n # 0
    <3>1. w[n] \in Ups(deps)
      BY <1>5, <2>4
    <3>2. w[n + 1] \in Ups(deps)
      BY <2>1, <2>2, <3>1, UpstreamIs
    <3> QED
      BY <2>1, <3>2
  <2> QED
    BY <2>3, <2>4
<1>6. \A n \in 0 .. N : n \in good
  <2> HIDE DEF good
  <2> QED
    BY <1>1, <1>4, <1>5, UpTo
<1>7. N \in 0 .. N
  BY <1>1
<1>8. w[N] \in Ups(deps)
  BY <1>2, <1>6, <1>7
<1> QED
  BY <1>7, <1>8 DEF DependencyRoot, ReachesUp, w, N

\* Where every walk ends, a mentioned ref's walk does.
LEMMA RootsEnd ==
  ASSUME NEW deps \in Deps, WalksEnd(deps), NEW r \in STRING, Mentioned(deps, r)
  PROVE  Upstream(deps, DependencyRoot(deps, r)) = DependencyRoot(deps, r)
<1>1. CASE \E i \in DOMAIN deps : deps[i][2] = r
  BY <1>1 DEF WalksEnd
<1>2. CASE \A i \in DOMAIN deps : deps[i][2] # r
  <2>1. Upstream(deps, r) = r
    BY <1>2 DEF Upstream
  <2>2. r \in STRING
    BY DepsAre DEF Mentioned, Range
  <2>3. 0 \in 0 .. Len(deps)
    <3>1. Len(deps) \in Nat
      BY DepsAre
    <3> QED
      BY <3>1
  <2>4. Walk(deps, r)[0] = r
    BY <2>2, WalkRuns DEF Walks
  <2>5. DependencyRoot(deps, r) = r
    BY <2>1, <2>2, <2>3, <2>4, WalkStays
  <2> QED
    BY <2>1, <2>5
<1> QED
  BY <1>1, <1>2

LEMMA GroupIsRoot ==
  ASSUME NEW deps, NEW r, Mentioned(deps, r)
  PROVE  DependencyGroup(deps, <<r>>) = DependencyRoot(deps, r)
<1> DEFINE refs == <<r>>
           known == {i \in DOMAIN refs : \E d \in Range(deps) : refs[i] \in {d[1], d[2]}}
<1>1. DOMAIN refs = {1} /\ refs[1] = r /\ refs # <<>>
  OBVIOUS
<1> HIDE DEF refs
<1>2. known = {1}
  BY <1>1 DEF Mentioned
<1>3. (CHOOSE i \in known : \A j \in known : i <= j) = 1
  BY <1>2
<1> QED
  BY <1>1, <1>2, <1>3 DEF DependencyGroup, refs

LEMMA CopiesAreGrouped ==
  ASSUME NEW deps \in Deps, WalksEnd(deps), NEW r1, NEW r2
  PROVE  CopiesShareAGroup(deps, r1, r2)
<1> SUFFICES ASSUME Mentioned(deps, r1), Mentioned(deps, r2)
             PROVE  DependencyRoot(deps, r1) = DependencyRoot(deps, r2)
                      <=> \E up \in Ups(deps) : ReachesUp(deps, r1, up) /\ ReachesUp(deps, r2, up)
  BY GroupIsRoot DEF CopiesShareAGroup, Ups
<1>1. r1 \in STRING /\ r2 \in STRING
  BY DepsAre DEF Mentioned, Range
<1>2. \A up : ReachesUp(deps, r1, up) => DependencyRoot(deps, up) = DependencyRoot(deps, r1)
  BY <1>1, RootsEnd, RootIsShared
<1>3. \A up : ReachesUp(deps, r2, up) => DependencyRoot(deps, up) = DependencyRoot(deps, r2)
  BY <1>1, RootsEnd, RootIsShared
<1>4. /\ DependencyRoot(deps, r1) \in Ups(deps)
      /\ ReachesUp(deps, r1, DependencyRoot(deps, r1))
      /\ ReachesUp(deps, r2, DependencyRoot(deps, r2))
  BY <1>1, RootIsUpstream
<1> QED
  BY <1>2, <1>3, <1>4

\* What resolve_candidates relates is related, whatever the anchor, the graph and
\* the bindings, and copies of one source share a group whatever refs are cited.
THEOREM SoundResolver == AlgSpec => []ResolverIsSound
<1>1. ASSUME NEW x \in ResolverInputs
      PROVE  AliasesAgree(x) /\ WeakEdgesNeverPromote(x) /\ NoSelfOrFactoryRelation(x)
  <2>1. x \in ResolverStates
    BY ResolverAssumption DEF ResolverStates
  <2> QED
    BY <2>1, AliasesDecideNothing, WeakEdgesLiftNothing, NoSelfNoFactory
<1>2. ASSUME NEW x \in CitationInputs PROVE CopiesShareAGroup(x.deps, x.r1, x.r2)
  <2>1. x.deps \in Deps /\ WalksEnd(x.deps)
    BY ResolverAssumption DEF Deps
  <2> QED
    BY <2>1, CopiesAreGrouped
<1>3. Given => ResolverIsSound
  BY <1>1, <1>2 DEF Given, ResolverIsSound, ResolverAliasesAgree, ResolverWeakEdges,
                    ResolverNoSelfOrFactory, GroupsFollowCopies
<1> QED
  BY <1>3, AlwaysGiven, PTL

(***************************************************************************)
(* Sums.                                                                   *)
(***************************************************************************)

\* The sums of the first n members.
Sums(t, s) ==
  /\ t \in [0 .. Len(s) -> Int] /\ t[0] = 0
  /\ \A n \in 1 .. Len(s) : t[n] = t[n - 1] + s[n]

LEMMA TotalRuns ==
  ASSUME NEW s \in Seq(Int)
  PROVE  \E t : Sums(t, s) /\ Total(s) = t[Len(s)]
<1> DEFINE N == Len(s)
           F == [n \in 1 .. N |-> [v \in Int |-> v + s[n]]]
           Rec(h) == h = [n \in 0 .. N |-> IF n = 0 THEN 0 ELSE h[n - 1] + s[n]]
           f == CHOOSE h : Rec(h)
<1>1. N \in Nat /\ \A n \in 1 .. N : s[n] \in Int
  OBVIOUS
<1>2. F \in [1 .. N -> [Int -> Int]] /\ 0 \in Int
  BY <1>1
<1>3. PICK g : Iterates(g, N, Int, 0, F)
  <2> HIDE DEF F, N
  <2> QED
    BY <1>1, <1>2, Recursion
<1>4. \A n \in 1 .. N : g[n] = g[n - 1] + s[n]
  <2>1. \A n \in 1 .. N : g[n] = F[n][g[n - 1]]
    BY <1>3 DEF Iterates
  <2>2. \A n \in 1 .. N : n - 1 \in 0 .. N
    BY <1>1
  <2>3. \A n \in 1 .. N : g[n - 1] \in Int
    BY <1>3, <2>2 DEF Iterates
  <2> QED
    BY <2>1, <2>3
<1>5. Rec(g)
  <2>1. \A n \in 0 .. N : n # 0 => n \in 1 .. N
    BY <1>1
  <2>2. g \in [0 .. N -> Int] /\ g[0] = 0
    BY <1>3 DEF Iterates
  <2> HIDE DEF F, N
  <2> QED
    BY <1>4, <2>1, <2>2
<1>6. Rec(f)
  BY <1>5
<1>7. Total(s) = f[N]
  BY DEF Total
<1> HIDE DEF f, F, N
<1>8. \A n \in 1 .. N : f[n] = f[n - 1] + s[n]
  <2>1. \A n \in 1 .. N : n \in 0 .. N /\ n # 0
    BY <1>1
  <2> QED
    BY <1>6, <2>1
<1>9. f[0] = 0
  <2>1. 0 \in 0 .. N
    BY <1>1
  <2> QED
    BY <1>6, <2>1
<1> DEFINE good == {n \in 0 .. N : f[n] \in Int}
<1>10. \A n \in 0 .. N : n \in good
  <2>1. 0 \in good
    BY <1>1, <1>9
  <2>2. ASSUME NEW n \in Nat, n < N, n \in good PROVE n + 1 \in good
    <3>1. n + 1 \in 1 .. N /\ n + 1 \in 0 .. N /\ (n + 1) - 1 = n
      BY <1>1, <2>2
    <3>2. f[n + 1] = f[n] + s[n + 1]
      BY <1>8, <3>1
    <3> QED
      BY <1>1, <2>2, <3>1, <3>2
  <2> HIDE DEF good
  <2> QED
    BY <1>1, <2>1, <2>2, UpTo
<1>11. f \in [0 .. N -> Int]
  BY <1>6, <1>10
<1> QED
  BY <1>7, <1>8, <1>9, <1>11 DEF Sums, N

\* Whatever sums up the members gives the total, prefix by prefix.
LEMMA SumsAgree ==
  ASSUME NEW s \in Seq(Int), NEW r \in Seq(Int), NEW t, NEW u, Sums(t, s), Sums(u, r),
         NEW m \in Nat, m <= Len(s), m <= Len(r), \A n \in 1 .. m : s[n] = r[n]
  PROVE  t[m] = u[m]
<1> DEFINE good == {n \in 0 .. m : t[n] = u[n]}
<1>1. Len(s) \in Nat /\ Len(r) \in Nat
  OBVIOUS
<1>2. /\ t[0] = 0 /\ u[0] = 0
      /\ \A n \in 1 .. Len(s) : t[n] = t[n - 1] + s[n]
      /\ \A n \in 1 .. Len(r) : u[n] = u[n - 1] + r[n]
  BY DEF Sums
<1>3. 0 \in good
  BY <1>2
<1>4. ASSUME NEW n \in Nat, n < m, n \in good PROVE n + 1 \in good
  <2>1. n + 1 \in 1 .. m /\ n + 1 \in 1 .. Len(s) /\ n + 1 \in 1 .. Len(r) /\ (n + 1) - 1 = n
    BY <1>1, <1>4
  <2>2. t[n + 1] = t[n] + s[n + 1] /\ u[n + 1] = u[n] + r[n + 1]
    BY <1>2, <2>1
  <2> QED
    BY <1>4, <2>1, <2>2
<1>5. \A n \in 0 .. m : n \in good
  <2> HIDE DEF good
  <2> QED
    BY <1>3, <1>4, UpTo
<1>6. m \in good
  BY <1>5
<1> QED
  BY <1>6

LEMMA TotalIs ==
  ASSUME NEW s \in Seq(Int), NEW t, Sums(t, s)
  PROVE  Total(s) = t[Len(s)] /\ Total(s) \in Int
<1>1. PICK u : Sums(u, s) /\ Total(s) = u[Len(s)]
  BY TotalRuns
<1>2. t[Len(s)] = u[Len(s)]
  BY <1>1, SumsAgree
<1>3. u[Len(s)] \in Int
  BY <1>1 DEF Sums
<1> QED
  BY <1>1, <1>2, <1>3

LEMMA TotalAppend ==
  ASSUME NEW s \in Seq(Int), NEW v \in Int
  PROVE  Total(Append(s, v)) = Total(s) + v /\ Total(s) \in Int
<1> DEFINE r == Append(s, v)
           N == Len(s)
<1>1. N \in Nat /\ r \in Seq(Int) /\ Len(r) = N + 1 /\ r[N + 1] = v /\ \A n \in 1 .. N : s[n] = r[n]
  OBVIOUS
<1>2. PICK t : Sums(t, s) /\ Total(s) = t[N]
  BY TotalRuns
<1>3. PICK u : Sums(u, r) /\ Total(r) = u[Len(r)]
  BY <1>1, TotalRuns
<1> HIDE DEF r
<1>4. t[N] = u[N]
  BY <1>1, <1>2, <1>3, SumsAgree
<1>5. N + 1 \in 1 .. Len(r) /\ (N + 1) - 1 = N /\ N \in 0 .. N
  BY <1>1
<1>6. u[N + 1] = u[N] + v
  BY <1>1, <1>3, <1>5 DEF Sums
<1>7. t[N] \in Int
  BY <1>2, <1>5 DEF Sums
<1> QED
  BY <1>1, <1>2, <1>3, <1>4, <1>6, <1>7 DEF r

LEMMA TotalOfNone == Total(<<>>) = 0
<1>1. <<>> \in Seq(Int) /\ Len(<<>>) = 0
  OBVIOUS
<1>2. PICK t : Sums(t, <<>>) /\ Total(<<>>) = t[Len(<<>>)]
  BY <1>1, TotalRuns
<1> QED
  BY <1>1, <1>2 DEF Sums

LEMMA TotalOfZeros ==
  ASSUME NEW s \in Seq(Int), \A n \in 1 .. Len(s) : s[n] = 0
  PROVE  Total(s) = 0
<1> DEFINE t == [n \in 0 .. Len(s) |-> 0]
<1>1. Len(s) \in Nat
  OBVIOUS
<1>2. \A n \in 1 .. Len(s) : n \in 0 .. Len(s) /\ n - 1 \in 0 .. Len(s)
  BY <1>1
<1>3. Sums(t, s)
  <2>1. t \in [0 .. Len(s) -> Int] /\ t[0] = 0
    BY <1>1
  <2>2. \A n \in 1 .. Len(s) : t[n] = t[n - 1] + s[n]
    BY <1>2
  <2> QED
    BY <2>1, <2>2 DEF Sums
<1>4. t[Len(s)] = 0
  BY <1>1
<1> HIDE DEF t
<1> QED
  BY <1>3, <1>4, TotalIs

LEMMA TotalWithout ==
  ASSUME NEW s \in Seq(Int), NEW j \in 1 .. Len(s)
  PROVE  Total(s) = Total([s EXCEPT ![j] = 0]) + s[j]
<1> DEFINE N == Len(s)
           r == [s EXCEPT ![j] = 0]
<1>1. /\ N \in Nat /\ r \in Seq(Int) /\ Len(r) = N /\ r[j] = 0 /\ j \in Nat
      /\ \A n \in 1 .. N : s[n] \in Int /\ (n # j => r[n] = s[n])
  OBVIOUS
<1>2. PICK t : Sums(t, s) /\ Total(s) = t[N]
  BY TotalRuns
<1>3. PICK u : Sums(u, r) /\ Total(r) = u[N]
  BY <1>1, TotalRuns
<1> HIDE DEF r, N
<1> DEFINE good == {n \in 0 .. N : t[n] = u[n] + (IF n >= j THEN s[j] ELSE 0)}
<1>4. /\ t[0] = 0 /\ u[0] = 0 /\ t \in [0 .. N -> Int] /\ u \in [0 .. N -> Int]
      /\ \A n \in 1 .. N : t[n] = t[n - 1] + s[n] /\ u[n] = u[n - 1] + r[n]
  BY <1>1, <1>2, <1>3 DEF Sums, N
<1>5. 0 \in good
  BY <1>1, <1>4
<1>6. ASSUME NEW n \in Nat, n < N, n \in good PROVE n + 1 \in good
  <2>1. n + 1 \in 1 .. N /\ n + 1 \in 0 .. N /\ n \in 0 .. N /\ (n + 1) - 1 = n
    BY <1>1, <1>6
  <2>2. t[n + 1] = t[n] + s[n + 1] /\ u[n + 1] = u[n] + r[n + 1]
    BY <1>4, <2>1
  <2>3. t[n] \in Int /\ u[n] \in Int /\ t[n + 1] \in Int /\ u[n + 1] \in Int /\ s[n + 1] \in Int
    BY <1>1, <1>4, <2>1
  <2>4. s[j] \in Int
    BY <1>1 DEF N
  <2>5. CASE n + 1 = j
    BY <1>1, <1>6, <2>1, <2>2, <2>3, <2>4, <2>5
  <2>6. CASE n + 1 # j
    <3>1. r[n + 1] = s[n + 1] /\ (n + 1 >= j <=> n >= j)
      BY <1>1, <2>1, <2>6
    <3> QED
      BY <1>6, <2>1, <2>2, <2>3, <2>4, <3>1
  <2> QED
    BY <2>5, <2>6
<1>7. \A n \in 0 .. N : n \in good
  <2> HIDE DEF good
  <2> QED
    BY <1>1, <1>5, <1>6, UpTo
<1>8. N \in 0 .. N /\ N >= j
  BY <1>1 DEF N
<1>9. t[N] = u[N] + s[j]
  <2>1. N \in good
    BY <1>7, <1>8
  <2> QED
    BY <1>8, <2>1
<1> QED
  BY <1>2, <1>3, <1>9 DEF r

\* m picks members of s, each at most once, and all that are not zero.
Picks(s, m, M) ==
  /\ m \in [1 .. M -> 1 .. Len(s)]
  /\ \A j, k \in 1 .. M : m[j] = m[k] => j = k
  /\ \A i \in 1 .. Len(s) : s[i] # 0 => \E j \in 1 .. M : m[j] = i

\* The order in which members are added up does not matter.
LEMMA TotalIsOrderFree ==
  ASSUME NEW s \in Seq(Int), NEW M \in Nat, NEW m, Picks(s, m, M)
  PROVE  Total([n \in 1 .. M |-> s[m[n]]]) = Total(s)
<1> DEFINE Right(r, f, k) == Total([n \in 1 .. k |-> r[f[n]]]) = Total(r)
           good == {k \in 0 .. M : \A r \in Seq(Int) : \A f : Picks(r, f, k) => Right(r, f, k)}
<1>1. 0 \in good
  <2> SUFFICES ASSUME NEW r \in Seq(Int), NEW f, Picks(r, f, 0) PROVE Right(r, f, 0)
    OBVIOUS
  <2>1. \A n \in 1 .. Len(r) : r[n] = 0
    BY DEF Picks
  <2>2. Total(r) = 0
    BY <2>1, TotalOfZeros
  <2>3. [n \in 1 .. 0 |-> r[f[n]]] = <<>>
    OBVIOUS
  <2> QED
    BY <2>2, <2>3, TotalOfNone
<1>2. ASSUME NEW k \in Nat, k < M, k \in good PROVE k + 1 \in good
  <2>1. k + 1 \in 0 .. M
    BY <1>2
  <2> SUFFICES ASSUME NEW r \in Seq(Int), NEW f, Picks(r, f, k + 1) PROVE Right(r, f, k + 1)
    BY <2>1
  <2> DEFINE j == f[k + 1]
             q == [r EXCEPT ![j] = 0]
             g == [n \in 1 .. k |-> f[n]]
             picked == [n \in 1 .. (k + 1) |-> r[f[n]]]
             before == [n \in 1 .. k |-> q[g[n]]]
  <2>2. k + 1 \in 1 .. (k + 1) /\ \A n \in 1 .. k : n \in 1 .. (k + 1) /\ n # k + 1
    BY <1>2
  <2>3. /\ f \in [1 .. (k + 1) -> 1 .. Len(r)]
        /\ \A a, b \in 1 .. (k + 1) : f[a] = f[b] => a = b
        /\ \A i \in 1 .. Len(r) : r[i] # 0 => \E a \in 1 .. (k + 1) : f[a] = i
    BY DEF Picks
  <2>4. j \in 1 .. Len(r)
    BY <2>2, <2>3
  <2>5. /\ q \in Seq(Int) /\ Len(q) = Len(r) /\ q[j] = 0
        /\ \A i \in 1 .. Len(r) : r[i] \in Int /\ (i # j => q[i] = r[i])
    BY <2>4
  <2>6. \A n \in 1 .. k : f[n] \in 1 .. Len(r) /\ f[n] # j
    BY <2>2, <2>3
  <2>7. g \in [1 .. k -> 1 .. Len(q)] /\ \A n \in 1 .. k : g[n] = f[n]
    BY <2>5, <2>6
  <2> HIDE DEF j, q, g
  <2>8. Picks(q, g, k)
    <3>1. \A a, b \in 1 .. k : g[a] = g[b] => a = b
      BY <2>2, <2>3, <2>7
    <3>2. ASSUME NEW i \in 1 .. Len(q), q[i] # 0 PROVE \E a \in 1 .. k : g[a] = i
      <4>1. i # j /\ r[i] # 0 /\ i \in 1 .. Len(r)
        BY <2>5, <3>2
      <4>2. PICK a \in 1 .. (k + 1) : f[a] = i
        BY <2>3, <4>1
      <4>3. a # k + 1
        BY <4>1, <4>2 DEF j
      <4>4. a \in 1 .. k
        BY <1>2, <4>3
      <4> QED
        BY <2>7, <4>2, <4>4
    <3> QED
      BY <2>7, <3>1, <3>2 DEF Picks
  <2>9. Total(before) = Total(q)
    BY <1>2, <2>5, <2>8
  <2>10. before \in Seq(Int) /\ r[j] \in Int
    <3>1. \A n \in 1 .. k : q[g[n]] \in Int
      BY <2>5, <2>7
    <3>2. before \in [1 .. k -> Int]
      BY <3>1
    <3>3. before \in Seq(Int)
      BY <3>2
    <3> QED
      BY <2>4, <2>5, <3>3
  <2>11. picked = Append(before, r[j])
    <3>1. \A n \in 1 .. k : q[g[n]] = r[f[n]]
      BY <2>5, <2>6, <2>7
    <3>2. Len(before) = k /\ DOMAIN before = 1 .. k
      BY <1>2
    <3>3. Append(before, r[j]) = [n \in 1 .. (k + 1) |-> IF n = k + 1 THEN r[j] ELSE before[n]]
      BY <2>10, <3>2
    <3>4. \A n \in 1 .. (k + 1) : n # k + 1 => n \in 1 .. k
      BY <1>2
    <3>5. \A n \in 1 .. (k + 1) : r[f[n]] = IF n = k + 1 THEN r[j] ELSE before[n]
      BY <3>1, <3>4 DEF j
    <3> HIDE DEF before
    <3> QED
      BY <3>3, <3>5
  <2>12. Total(picked) = Total(before) + r[j]
    <3> HIDE DEF before, picked
    <3> QED
      BY <2>10, <2>11, TotalAppend
  <2>13. Total(r) = Total(q) + r[j]
    BY <2>4, TotalWithout DEF q
  <2> HIDE DEF before
  <2>14. Total(picked) = Total(r)
    BY <2>9, <2>12, <2>13
  <2> QED
    BY <2>14
<1>3. \A k \in 0 .. M : k \in good
  <2> HIDE DEF good
  <2> QED
    BY <1>1, <1>2, UpTo
<1>4. M \in good
  <2> HIDE DEF good
  <2>1. M \in 0 .. M
    OBVIOUS
  <2> QED
    BY <1>3, <2>1
<1> QED
  BY <1>4

(***************************************************************************)
(* The order of swaps in cost_basis.rs.                                    *)
(***************************************************************************)

AreSwaps(x) == x \in Seq(Range(x)) /\ \A i \in DOMAIN x : IsSwap(x[i])

LEMMA SwapsAre ==
  ASSUME NEW x, AreSwaps(x)
  PROVE  /\ Len(x) \in Nat /\ DOMAIN x = 1 .. Len(x)
         /\ \A i \in DOMAIN x : SortTime(x[i]) \in Int /\ i \in Nat
<1>1. Len(x) \in Nat /\ DOMAIN x = 1 .. Len(x)
  BY DEF AreSwaps
<1>2. \A i \in DOMAIN x : SortTime(x[i]) \in Int
  BY DEF AreSwaps, IsSwap, SortTime
<1> QED
  BY <1>1, <1>2

LEMMA SoonerOrders ==
  ASSUME NEW x, AreSwaps(x), NEW h \in DOMAIN x, NEW i \in DOMAIN x, NEW j \in DOMAIN x
  PROVE  /\ ~Sooner(x, i, i)
         /\ i # j => Sooner(x, i, j) \/ Sooner(x, j, i)
         /\ Sooner(x, h, i) /\ Sooner(x, i, j) => Sooner(x, h, j)
<1> DEFINE a == SortTime(x[h])
           b == SortTime(x[i])
           c == SortTime(x[j])
<1>1. a \in Int /\ b \in Int /\ c \in Int /\ h \in Nat /\ i \in Nat /\ j \in Nat
  BY SwapsAre
<1>2. /\ Sooner(x, i, i) <=> (b < b \/ (b = b /\ i < i))
      /\ Sooner(x, i, j) <=> (b < c \/ (b = c /\ i < j))
      /\ Sooner(x, j, i) <=> (c < b \/ (c = b /\ j < i))
      /\ Sooner(x, h, i) <=> (a < b \/ (a = b /\ h < i))
      /\ Sooner(x, h, j) <=> (a < c \/ (a = c /\ h < j))
  BY DEF Sooner
<1> HIDE DEF a, b, c
<1>3. ~Sooner(x, i, i) /\ (i # j => Sooner(x, i, j) \/ Sooner(x, j, i))
  BY <1>1, <1>2
<1>4. Sooner(x, h, i) /\ Sooner(x, i, j) => Sooner(x, h, j)
  BY <1>1, <1>2
<1> QED
  BY <1>3, <1>4

LEMMA GroupIsFinite ==
  ASSUME NEW x, AreSwaps(x), NEW k
  PROVE  /\ GroupOf(x, k) \subseteq DOMAIN x /\ IsFiniteSet(GroupOf(x, k))
         /\ Cardinality(GroupOf(x, k)) \in Nat
<1> DEFINE G == GroupOf(x, k)
<1>1. G \in SUBSET (1 .. Len(x)) /\ G \subseteq DOMAIN x /\ Len(x) \in Nat
  BY SwapsAre DEF GroupOf
<1> HIDE DEF G
<1>2. IsFiniteSet(1 .. Len(x))
  BY <1>1, FS_Interval
<1>3. IsFiniteSet(G)
  BY <1>1, <1>2, FS_Subset
<1>4. Cardinality(G) \in Nat
  BY <1>3, FS_CardinalityType
<1> QED
  BY <1>1, <1>3, <1>4 DEF G

\* m gives the swap of each place.
Ordered(x, k, m) ==
  LET G == GroupOf(x, k)
      M == Cardinality(G)
  IN /\ m \in [1 .. M -> G]
     /\ \A a, b \in 1 .. M : m[a] = m[b] => a = b
     /\ \A i \in G : \E n \in 1 .. M : m[n] = i
     /\ \A n \in 1 .. M : SoonerCount(x, k, m[n]) = n - 1 /\ InOrder(x, k)[n] = x[m[n]]
     /\ \A i, j \in G : SoonerCount(x, k, i) = SoonerCount(x, k, j) => i = j

LEMMA OrderIs ==
  ASSUME NEW x, AreSwaps(x), NEW k
  PROVE  \E m : Ordered(x, k, m)
<1> DEFINE G == GroupOf(x, k)
           M == Cardinality(G)
           Before(i) == {j \in G : Sooner(x, j, i)}
           r == [i \in G |-> SoonerCount(x, k, i) + 1]
<1>1. G \subseteq DOMAIN x /\ IsFiniteSet(G) /\ M \in Nat
  BY GroupIsFinite
<1>2. \A i \in G : SoonerCount(x, k, i) = Cardinality(Before(i))
  BY DEF SoonerCount
<1> HIDE DEF G, M
<1>3. ASSUME NEW i \in G PROVE Cardinality(Before(i)) \in Nat /\ Cardinality(Before(i)) < M
  <2>1. Before(i) \in SUBSET G /\ i \notin Before(i)
    BY <1>1, SoonerOrders
  <2>2. Before(i) # G
    BY <2>1
  <2>3. IsFiniteSet(Before(i)) /\ Cardinality(Before(i)) <= M /\ Cardinality(Before(i)) # M
    <3> HIDE DEF Before
    <3> QED
      BY <1>1, <2>1, <2>2, FS_Subset DEF M
  <2>4. Cardinality(Before(i)) \in Nat
    <3> HIDE DEF Before
    <3> QED
      BY <2>3, FS_CardinalityType
  <2> HIDE DEF Before
  <2> QED
    BY <1>1, <2>3, <2>4
<1>4. ASSUME NEW i \in G, NEW j \in G, Sooner(x, i, j)
      PROVE  Cardinality(Before(i)) # Cardinality(Before(j))
  <2>1. Before(i) \in SUBSET Before(j) /\ i \in Before(j) /\ i \notin Before(i)
    <3>1. ASSUME NEW h \in Before(i) PROVE h \in Before(j)
      BY <1>1, <1>4, SoonerOrders
    <3>2. i \notin Before(i)
      BY <1>1, SoonerOrders
    <3> QED
      BY <1>4, <3>1, <3>2
  <2>2. Before(j) \in SUBSET G /\ Before(i) # Before(j)
    BY <2>1
  <2> HIDE DEF Before
  <2>3. IsFiniteSet(Before(j))
    BY <1>1, <2>2, FS_Subset
  <2> QED
    BY <2>1, <2>2, <2>3, FS_Subset
<1>5. ASSUME NEW i \in G, NEW j \in G, SoonerCount(x, k, i) = SoonerCount(x, k, j) PROVE i = j
  <2>1. Cardinality(Before(i)) = Cardinality(Before(j))
    BY <1>2, <1>5
  <2> HIDE DEF Before
  <2>2. i # j => Sooner(x, i, j) \/ Sooner(x, j, i)
    BY <1>1, SoonerOrders
  <2> QED
    BY <1>4, <2>1, <2>2
<1> HIDE DEF Before
<1>6. \A i \in G : SoonerCount(x, k, i) \in Nat /\ SoonerCount(x, k, i) + 1 \in 1 .. M
  BY <1>1, <1>2, <1>3
<1>7. r \in [G -> 1 .. M]
  BY <1>6
<1>8. \A i, j \in G : r[i] = r[j] => i = j
  BY <1>5, <1>6
<1>9. r \in Surjection(G, 1 .. M)
  <2>1. r \in Injection(G, 1 .. M)
    <3> HIDE DEF r
    <3> QED
      BY <1>7, <1>8 DEF Injection, IsInjective
  <2>2. IsFiniteSet(1 .. M) /\ Cardinality(1 .. M) = Cardinality(G)
    BY <1>1, FS_Interval DEF M
  <2> HIDE DEF r
  <2> QED
    BY <2>1, <2>2, FS_Injection
<1> DEFINE m == [n \in 1 .. M |-> CHOOSE i \in G : SoonerCount(x, k, i) = n - 1]
<1>10. ASSUME NEW n \in 1 .. M PROVE m[n] \in G /\ SoonerCount(x, k, m[n]) = n - 1
  <2>1. PICK i \in G : r[i] = n
    BY <1>9 DEF Surjection
  <2>2. SoonerCount(x, k, i) = n - 1
    BY <1>6, <2>1
  <2> QED
    BY <2>2
<1>11. m \in [1 .. M -> G]
  BY <1>10
<1>12. \A a, b \in 1 .. M : m[a] = m[b] => a = b
  <2> SUFFICES ASSUME NEW a \in 1 .. M, NEW b \in 1 .. M, m[a] = m[b] PROVE a = b
    OBVIOUS
  <2>1. a - 1 = b - 1
    BY <1>10
  <2> QED
    BY <2>1
<1>13. ASSUME NEW i \in G PROVE \E n \in 1 .. M : m[n] = i
  <2> DEFINE n == SoonerCount(x, k, i) + 1
  <2>1. n \in 1 .. M /\ n - 1 = SoonerCount(x, k, i)
    BY <1>6
  <2>2. m[n] \in G /\ SoonerCount(x, k, m[n]) = SoonerCount(x, k, i)
    BY <1>10, <2>1
  <2> QED
    BY <1>5, <2>1, <2>2
<1>14. \A n \in 1 .. M : InOrder(x, k)[n] = x[m[n]]
  BY DEF InOrder, G, M
<1> HIDE DEF m, r
<1>15. Ordered(x, k, m)
  BY <1>5, <1>10, <1>11, <1>12, <1>13, <1>14 DEF Ordered, G, M
<1> QED
  BY <1>15

\* The swaps of k are the same in x and in y, and so is their order.
SameGroup(x, y, k, f) ==
  /\ f \in [GroupOf(x, k) -> GroupOf(y, k)]
  /\ \A i, j \in GroupOf(x, k) : f[i] = f[j] => i = j
  /\ \A j \in GroupOf(y, k) : \E i \in GroupOf(x, k) : f[i] = j
  /\ \A i \in GroupOf(x, k) : y[f[i]] = x[i]
  /\ \A i, j \in GroupOf(x, k) : Sooner(x, i, j) <=> Sooner(y, f[i], f[j])

LEMMA SameBijection ==
  ASSUME NEW S, NEW T, NEW g \in [S -> T], \A a, b \in S : g[a] = g[b] => a = b,
         \A t \in T : \E a \in S : g[a] = t, IsFiniteSet(S)
  PROVE  Cardinality(T) = Cardinality(S)
<1>1. g \in Bijection(S, T)
  BY DEF Bijection, Injection, Surjection, IsInjective
<1> QED
  BY <1>1, FS_Bijection DEF ExistsBijection

LEMMA SameInOrder ==
  ASSUME NEW x, AreSwaps(x), NEW y, AreSwaps(y), NEW k, NEW f, SameGroup(x, y, k, f)
  PROVE  InOrder(y, k) = InOrder(x, k)
<1> DEFINE G == GroupOf(x, k)
           H == GroupOf(y, k)
<1>1. /\ f \in [G -> H]
      /\ \A i, j \in G : f[i] = f[j] => i = j
      /\ \A j \in H : \E i \in G : f[i] = j
      /\ \A i \in G : y[f[i]] = x[i]
      /\ \A i, j \in G : Sooner(x, i, j) <=> Sooner(y, f[i], f[j])
  BY DEF SameGroup
<1>2. IsFiniteSet(G) /\ Cardinality(G) \in Nat
  BY GroupIsFinite
<1>3. Cardinality(H) = Cardinality(G)
  <2> HIDE DEF G, H
  <2> QED
    BY <1>1, <1>2, SameBijection
<1>4. ASSUME NEW i \in G PROVE SoonerCount(y, k, f[i]) = SoonerCount(x, k, i)
  <2> DEFINE S == {j \in G : Sooner(x, j, i)}
             T == {j \in H : Sooner(y, j, f[i])}
             g == [j \in S |-> f[j]]
  <2> HIDE DEF G, H
  <2>1. g \in [S -> T]
    BY <1>1
  <2>2. \A a, b \in S : g[a] = g[b] => a = b
    BY <1>1
  <2>3. ASSUME NEW t \in T PROVE \E a \in S : g[a] = t
    <3>1. PICK a \in G : f[a] = t
      BY <1>1
    <3>2. a \in S
      BY <1>1, <3>1
    <3> QED
      BY <3>1, <3>2
  <2>4. IsFiniteSet(S)
    <3>1. S \in SUBSET G
      OBVIOUS
    <3> HIDE DEF S
    <3> QED
      BY <1>2, <3>1, FS_Subset
  <2>5. Cardinality(T) = Cardinality(S)
    <3> HIDE DEF S, T, g
    <3> QED
      BY <2>1, <2>2, <2>3, <2>4, SameBijection
  <2> QED
    BY <2>5 DEF SoonerCount, G, H
<1>5. PICK m : Ordered(x, k, m)
  BY OrderIs
<1>6. PICK l : Ordered(y, k, l)
  BY OrderIs
<1> DEFINE M == Cardinality(G)
<1>7. ASSUME NEW n \in 1 .. M PROVE InOrder(y, k)[n] = InOrder(x, k)[n]
  <2>1. m[n] \in G /\ SoonerCount(x, k, m[n]) = n - 1 /\ InOrder(x, k)[n] = x[m[n]]
    BY <1>5 DEF Ordered
  <2>2. l[n] \in H /\ SoonerCount(y, k, l[n]) = n - 1 /\ InOrder(y, k)[n] = y[l[n]]
    BY <1>3, <1>6 DEF Ordered
  <2>3. f[m[n]] \in H /\ SoonerCount(y, k, f[m[n]]) = n - 1 /\ y[f[m[n]]] = x[m[n]]
    BY <1>1, <1>4, <2>1
  <2>4. f[m[n]] = l[n]
    BY <1>6, <2>2, <2>3 DEF Ordered
  <2> QED
    BY <2>1, <2>2, <2>3, <2>4
<1>8. /\ InOrder(x, k) = [n \in 1 .. M |-> InOrder(x, k)[n]]
      /\ InOrder(y, k) = [n \in 1 .. M |-> InOrder(y, k)[n]]
  BY <1>3 DEF InOrder
<1> HIDE DEF M
<1> QED
  BY <1>7, <1>8

\* Delivered in the opposite order, with times that differ.
LEMMA DeliveryIsIrrelevant ==
  ASSUME NEW x, AreSwaps(x)
  PROVE  DeliveryOrderIsIrrelevant(x)
<1> SUFFICES ASSUME NEW k, \A i, j \in GroupOf(x, k) : i # j => SortTime(x[i]) # SortTime(x[j])
             PROVE  BasisOf(x, k) = BasisOf(Reverse(x), k)
  BY DEF DeliveryOrderIsIrrelevant
<1> DEFINE N == Len(x)
           y == Reverse(x)
           f == [i \in GroupOf(x, k) |-> (N - i) + 1]
<1>1. /\ N \in Nat /\ DOMAIN x = 1 .. N
      /\ \A i \in 1 .. N : SortTime(x[i]) \in Int /\ IsSwap(x[i]) /\ x[i] \in Range(x)
  BY SwapsAre DEF AreSwaps, Range
<1>2. y = [i \in 1 .. N |-> x[(N - i) + 1]]
  BY DEF Reverse
<1>3. \A i \in 1 .. N : (N - i) + 1 \in 1 .. N /\ (N - ((N - i) + 1)) + 1 = i
  BY <1>1
<1>4. DOMAIN y = 1 .. N /\ \A i \in 1 .. N : y[i] = x[(N - i) + 1] /\ y[(N - i) + 1] = x[i]
  BY <1>2, <1>3
<1> HIDE DEF y, N
<1>5. AreSwaps(y)
  <2>1. y \in [1 .. N -> Range(y)]
    BY <1>2, <1>4 DEF Range
  <2>2. y \in Seq(Range(y))
    BY <1>1, <2>1
  <2>3. \A i \in DOMAIN y : IsSwap(y[i])
    BY <1>1, <1>3, <1>4
  <2> QED
    BY <2>2, <2>3 DEF AreSwaps
<1>6. SameGroup(x, y, k, f)
  <2>1. f \in [GroupOf(x, k) -> GroupOf(y, k)]
    BY <1>1, <1>3, <1>4 DEF GroupOf
  <2>2. \A i \in GroupOf(x, k) : i \in 1 .. N /\ f[i] = (N - i) + 1
    BY <1>1 DEF GroupOf
  <2> HIDE DEF f
  <2>3. \A i, j \in GroupOf(x, k) : f[i] = f[j] => i = j
    BY <1>3, <2>2
  <2>4. ASSUME NEW j \in GroupOf(y, k) PROVE \E i \in GroupOf(x, k) : f[i] = j
    <3>1. j \in 1 .. N /\ y[j].key = k
      BY <1>4 DEF GroupOf
    <3>2. (N - j) + 1 \in GroupOf(x, k)
      BY <1>1, <1>3, <1>4, <3>1 DEF GroupOf
    <3>3. f[(N - j) + 1] = j
      BY <1>3, <2>2, <3>1, <3>2
    <3> QED
      BY <3>2, <3>3
  <2>5. \A i \in GroupOf(x, k) : y[f[i]] = x[i]
    BY <1>4, <2>2
  <2>6. ASSUME NEW i \in GroupOf(x, k), NEW j \in GroupOf(x, k)
        PROVE  Sooner(x, i, j) <=> Sooner(y, f[i], f[j])
    <3>1. SortTime(y[f[i]]) = SortTime(x[i]) /\ SortTime(y[f[j]]) = SortTime(x[j])
      BY <2>5
    <3>2. CASE i = j
      <4>1. i \in DOMAIN x /\ f[i] \in DOMAIN y
        BY <1>1, <1>3, <1>4, <2>2
      <4> QED
        BY <1>5, <3>2, <4>1, SoonerOrders
    <3>3. CASE i # j
      <4>1. SortTime(x[i]) # SortTime(x[j])
        BY <3>3
      <4> QED
        BY <3>1, <4>1 DEF Sooner
    <3> QED
      BY <3>2, <3>3
  <2> QED
    BY <2>1, <2>3, <2>4, <2>5, <2>6 DEF SameGroup
<1> HIDE DEF f
<1>7. InOrder(y, k) = InOrder(x, k)
  BY <1>5, <1>6, SameInOrder
<1> QED
  BY <1>7 DEF BasisOf, y

\* Without a swap of another wallet.
LEMMA WalletsAreApart ==
  ASSUME NEW x, AreSwaps(x)
  PROVE  WalletsDoNotMix(x)
<1> SUFFICES ASSUME NEW d \in DOMAIN x, NEW k, x[d].key # k
             PROVE  BasisOf(x, k) = BasisOf(RemoveAt(x, d), k)
  BY DEF WalletsDoNotMix
<1> DEFINE N == Len(x)
           y == RemoveAt(x, d)
           f == [i \in GroupOf(x, k) |-> IF i < d THEN i ELSE i - 1]
<1>1. /\ N \in Nat /\ DOMAIN x = 1 .. N /\ x \in Seq(Range(x)) /\ d \in 1 .. N
      /\ \A i \in 1 .. N : IsSwap(x[i])
  BY SwapsAre DEF AreSwaps
<1>2. /\ y \in Seq(Range(x)) /\ Len(y) = N - 1
      /\ \A j \in 1 .. (N - 1) : y[j] = x[IF j < d THEN j ELSE j + 1]
  <2> DEFINE S == Range(x)
  <2>1. x \in Seq(S)
    BY <1>1
  <2> HIDE DEF S
  <2> QED
    BY <1>1, <2>1, RemovedAt DEF S
<1> HIDE DEF y, N
<1>3. DOMAIN y = 1 .. (N - 1)
  BY <1>1, <1>2
<1>4. \A j \in 1 .. (N - 1) : (IF j < d THEN j ELSE j + 1) \in 1 .. N
  BY <1>1
<1>5. AreSwaps(y)
  <2>1. y \in [1 .. (N - 1) -> Range(y)]
    <3>1. y \in [1 .. (N - 1) -> Range(x)]
      BY <1>1, <1>2
    <3> QED
      BY <1>3, <3>1 DEF Range
  <2>2. y \in Seq(Range(y))
    <3>1. N - 1 \in Nat
      BY <1>1
    <3> QED
      BY <2>1, <3>1
  <2>3. \A i \in DOMAIN y : IsSwap(y[i])
    BY <1>1, <1>2, <1>3, <1>4
  <2> QED
    BY <2>2, <2>3 DEF AreSwaps
<1>6. \A i \in GroupOf(x, k) : /\ i \in 1 .. N /\ i # d /\ x[i].key = k
                               /\ f[i] = IF i < d THEN i ELSE i - 1
  BY <1>1 DEF GroupOf
<1> HIDE DEF f
<1>7. ASSUME NEW i \in GroupOf(x, k) PROVE f[i] \in GroupOf(y, k) /\ y[f[i]] = x[i]
  <2>1. i \in 1 .. N /\ d \in 1 .. N /\ i # d
    BY <1>1, <1>6
  <2>2. f[i] \in 1 .. (N - 1) /\ (IF f[i] < d THEN f[i] ELSE f[i] + 1) = i
    <3>1. CASE i < d
      BY <1>1, <1>6, <2>1, <3>1
    <3>2. CASE ~(i < d)
      BY <1>1, <1>6, <2>1, <3>2
    <3> QED
      BY <3>1, <3>2
  <2>3. y[f[i]] = x[i]
    BY <1>2, <2>2
  <2> QED
    BY <1>3, <1>6, <2>2, <2>3 DEF GroupOf
<1>8. SameGroup(x, y, k, f)
  <2>1. f \in [GroupOf(x, k) -> GroupOf(y, k)]
    BY <1>7 DEF f
  <2>2. ASSUME NEW i \in GroupOf(x, k), NEW j \in GroupOf(x, k)
        PROVE  /\ f[i] = f[j] => i = j
               /\ f[i] < f[j] <=> i < j
    <3>1. i \in 1 .. N /\ j \in 1 .. N /\ d \in 1 .. N /\ i # d /\ j # d
      BY <1>1, <1>6
    <3>2. CASE i < d /\ j < d
      BY <1>1, <1>6, <3>1, <3>2
    <3>3. CASE i < d /\ ~(j < d)
      BY <1>1, <1>6, <3>1, <3>3
    <3>4. CASE ~(i < d) /\ j < d
      BY <1>1, <1>6, <3>1, <3>4
    <3>5. CASE ~(i < d) /\ ~(j < d)
      BY <1>1, <1>6, <3>1, <3>5
    <3> QED
      BY <3>2, <3>3, <3>4, <3>5
  <2>3. ASSUME NEW j \in GroupOf(y, k) PROVE \E i \in GroupOf(x, k) : f[i] = j
    <3>1. j \in 1 .. (N - 1) /\ y[j].key = k
      BY <1>3 DEF GroupOf
    <3> DEFINE i == IF j < d THEN j ELSE j + 1
    <3>2. i \in 1 .. N /\ x[i] = y[j]
      BY <1>2, <1>4, <3>1
    <3>3. i \in GroupOf(x, k)
      BY <1>1, <3>1, <3>2 DEF GroupOf
    <3>4. f[i] = j
      <4>1. f[i] = IF i < d THEN i ELSE i - 1
        BY <1>6, <3>3
      <4>2. j \in Nat /\ d \in Nat
        BY <1>1, <3>1
      <4> QED
        BY <4>1, <4>2
    <3> QED
      BY <3>3, <3>4
  <2>4. ASSUME NEW i \in GroupOf(x, k), NEW j \in GroupOf(x, k)
        PROVE  Sooner(x, i, j) <=> Sooner(y, f[i], f[j])
    <3>1. y[f[i]] = x[i] /\ y[f[j]] = x[j]
      BY <1>7
    <3> QED
      BY <2>2, <3>1 DEF Sooner
  <2> QED
    BY <1>7, <2>1, <2>2, <2>3, <2>4 DEF SameGroup
<1>9. InOrder(y, k) = InOrder(x, k)
  BY <1>5, <1>8, SameInOrder
<1> QED
  BY <1>9 DEF BasisOf, y

(***************************************************************************)
(* cost_basis.rs conserves cost.                                           *)
(***************************************************************************)

\* Only a lot of no tokens can lose its dollars, and these are not negative.
OpenLots == {l \in [amount : Nat, usd : Int, time : Int] : l.amount = 0 => l.usd >= 0}
LotStates == [remaining : Nat, cost : Int, opened : Int, lots : Seq(OpenLots)]
AllHold(lots) == \A i \in DOMAIN lots : lots[i].amount # 0
Held(acc) == acc.cost + Total(Dollars(acc.lots))

LEMMA DollarsOfMore ==
  ASSUME NEW lots \in Seq(OpenLots), NEW l \in OpenLots
  PROVE  /\ Total(Dollars(Append(lots, l))) = Total(Dollars(lots)) + l.usd
         /\ Total(Dollars(lots)) \in Int
         /\ AllHold(lots) /\ l.amount # 0 => AllHold(Append(lots, l))
<1> DEFINE S == OpenLots
<1>1. /\ Len(lots) \in Nat /\ DOMAIN lots = 1 .. Len(lots) /\ lots \in Seq(S) /\ l \in S
      /\ \A i \in 1 .. Len(lots) : lots[i] \in S
  OBVIOUS
<1>2. \A o \in S : o.usd \in Int
  BY DEF OpenLots
<1> HIDE DEF S
<1> DEFINE more == Append(lots, l)
<1>3. /\ more \in Seq(S) /\ Len(more) = Len(lots) + 1 /\ DOMAIN more = 1 .. (Len(lots) + 1)
      /\ \A i \in 1 .. (Len(lots) + 1) : more[i] = IF i = Len(lots) + 1 THEN l ELSE lots[i]
  BY <1>1
<1> HIDE DEF more
<1>4. Dollars(lots) \in Seq(Int) /\ Len(Dollars(lots)) = Len(lots)
  <2>1. Dollars(lots) \in [1 .. Len(lots) -> Int]
    BY <1>1, <1>2 DEF Dollars
  <2> HIDE DEF Dollars
  <2> QED
    BY <1>1, <2>1
<1>5. Dollars(more) = Append(Dollars(lots), l.usd)
  <2>1. Append(Dollars(lots), l.usd)
          = [i \in 1 .. (Len(lots) + 1) |-> IF i = Len(lots) + 1 THEN l.usd ELSE Dollars(lots)[i]]
    BY <1>1, <1>4
  <2>2. \A i \in 1 .. (Len(lots) + 1) : i # Len(lots) + 1 => i \in 1 .. Len(lots)
    BY <1>1
  <2>3. \A i \in 1 .. Len(lots) : Dollars(lots)[i] = lots[i].usd
    BY <1>1 DEF Dollars
  <2>4. Dollars(more) = [i \in 1 .. (Len(lots) + 1) |-> more[i].usd]
    BY <1>3 DEF Dollars
  <2>5. \A i \in 1 .. (Len(lots) + 1) :
          more[i].usd = IF i = Len(lots) + 1 THEN l.usd ELSE Dollars(lots)[i]
    BY <1>3, <2>2, <2>3
  <2> QED
    BY <2>1, <2>4, <2>5
<1>6. Total(Dollars(more)) = Total(Dollars(lots)) + l.usd /\ Total(Dollars(lots)) \in Int
  BY <1>1, <1>2, <1>4, <1>5, TotalAppend
<1>7. AllHold(lots) /\ l.amount # 0 => AllHold(more)
  BY <1>1, <1>3 DEF AllHold
<1> QED
  BY <1>6, <1>7 DEF more

LEMMA WholeShare ==
  ASSUME NEW u \in Int, NEW a \in Nat, a # 0
  PROVE  (u * a) \div a = u
OBVIOUS

LEMMA ShareIsInt ==
  ASSUME NEW u \in Int, NEW t \in Nat, NEW a \in Nat, a # 0
  PROVE  (u * t) \div a \in Int
OBVIOUS

\* What taking from a lot leaves and costs.
LEMMA TakenIs ==
  ASSUME NEW lot \in OpenLots, NEW take \in Nat, take <= lot.amount
  PROVE  LET rest == LotLeft("cost_basis", lot, take)
             paid == IF lot.amount = 0 THEN 0 ELSE (lot.usd * take) \div lot.amount
         IN /\ paid \in Int
            /\ lot.amount = 0 => paid = 0 /\ rest.amount = 0 /\ lot.usd >= 0
            /\ lot.amount # 0 /\ rest.amount = 0 => paid = lot.usd
            /\ rest.amount # 0 => rest \in OpenLots /\ rest.usd + paid = lot.usd
<1> DEFINE paid == IF lot.amount = 0 THEN 0 ELSE (lot.usd * take) \div lot.amount
           rest == LotLeft("cost_basis", lot, take)
<1>1. /\ lot.amount \in Nat /\ lot.usd \in Int /\ lot.time \in Int
      /\ lot.amount = 0 => lot.usd >= 0
  BY DEF OpenLots
<1>2. paid \in Int
  BY <1>1, ShareIsInt
<1>3. rest = [amount |-> lot.amount - take,
              usd |-> IF lot.amount = 0 THEN lot.usd ELSE lot.usd - paid, time |-> lot.time]
  BY DEF LotLeft, TakenLot, Lot
<1>4. lot.amount # 0 /\ take = lot.amount => paid = lot.usd
  BY <1>1, WholeShare
<1> HIDE DEF paid, rest
<1>5. rest.amount = lot.amount - take /\ rest.amount \in Nat
  BY <1>1, <1>3
<1>6. ASSUME rest.amount # 0 PROVE rest \in OpenLots /\ rest.usd + paid = lot.usd
  <2>1. lot.amount # 0
    BY <1>1, <1>5, <1>6
  <2>2. rest = [amount |-> lot.amount - take, usd |-> lot.usd - paid, time |-> lot.time]
    BY <1>3, <2>1
  <2>3. lot.usd - paid \in Int /\ (lot.usd - paid) + paid = lot.usd
    BY <1>1, <1>2
  <2> QED
    BY <1>1, <1>5, <1>6, <2>2, <2>3 DEF OpenLots
<1>7. /\ lot.amount = 0 => rest.amount = 0
      /\ lot.amount # 0 /\ rest.amount = 0 => paid = lot.usd
  BY <1>1, <1>4, <1>5
<1>8. lot.amount = 0 => paid = 0
  BY DEF paid
<1> QED
  BY <1>1, <1>2, <1>6, <1>7, <1>8 DEF paid, rest

\* One lot against a sell: held and paid for before and after.
LEMMA ConsumeLotIs ==
  ASSUME NEW acc \in LotStates, NEW lot \in OpenLots
  PROVE  LET next == ConsumeLot(acc, lot, "cost_basis")
         IN /\ next \in LotStates
            /\ Held(acc) \in Int
            /\ Held(next) <= Held(acc) + lot.usd
            /\ lot.amount # 0 => Held(next) = Held(acc) + lot.usd
            /\ AllHold(acc.lots) /\ lot.amount # 0 => AllHold(next.lots)
<1> DEFINE next == ConsumeLot(acc, lot, "cost_basis")
<1>1. /\ acc.remaining \in Nat /\ acc.cost \in Int /\ acc.opened \in Int
      /\ acc.lots \in Seq(OpenLots)
      /\ acc = [remaining |-> acc.remaining, cost |-> acc.cost, opened |-> acc.opened,
                lots |-> acc.lots]
  BY DEF LotStates
<1>2. lot.amount \in Nat /\ lot.usd \in Int /\ lot.time \in Int
  BY DEF OpenLots
<1>3. Total(Dollars(acc.lots)) \in Int /\ Held(acc) \in Int
  BY <1>1, DollarsOfMore DEF Held
<1>4. \A l \in OpenLots : Append(acc.lots, l) \in Seq(OpenLots)
  BY <1>1
<1>5. CASE acc.remaining = 0
  <2>1. next = [remaining |-> acc.remaining, cost |-> acc.cost, opened |-> acc.opened,
                lots |-> Append(acc.lots, lot)]
    BY <1>1, <1>5 DEF ConsumeLot
  <2> HIDE DEF next
  <2>2. next \in LotStates
    BY <1>1, <1>4, <2>1 DEF LotStates
  <2>3. next.cost = acc.cost /\ next.lots = Append(acc.lots, lot)
    BY <2>1
  <2>4. Total(Dollars(next.lots)) = Total(Dollars(acc.lots)) + lot.usd
    BY <1>1, <2>3, DollarsOfMore
  <2>5. AllHold(acc.lots) /\ lot.amount # 0 => AllHold(next.lots)
    BY <1>1, <2>3, DollarsOfMore
  <2>6. Held(next) = Held(acc) + lot.usd
    BY <1>1, <1>2, <1>3, <2>3, <2>4 DEF Held
  <2> QED
    BY <1>2, <1>3, <2>2, <2>5, <2>6 DEF next
<1>6. CASE acc.remaining # 0
  <2> DEFINE take == AtMost(acc.remaining, lot.amount)
             rest == LotLeft("cost_basis", lot, take)
             paid == IF lot.amount = 0 THEN 0 ELSE (lot.usd * take) \div lot.amount
             opened == IF acc.opened = NoTime THEN lot.time ELSE acc.opened
             kept == IF rest.amount = 0 THEN acc.lots ELSE Append(acc.lots, rest)
  <2>1. take \in Nat /\ take <= lot.amount /\ acc.remaining - take \in Nat
    BY <1>1, <1>2 DEF AtMost
  <2>2. next = [remaining |-> acc.remaining - take, cost |-> acc.cost + paid,
                opened |-> opened, lots |-> kept]
    BY <1>6 DEF ConsumeLot
  <2> HIDE DEF take
  <2>3. /\ paid \in Int
        /\ lot.amount = 0 => paid = 0 /\ rest.amount = 0 /\ lot.usd >= 0
        /\ lot.amount # 0 /\ rest.amount = 0 => paid = lot.usd
        /\ rest.amount # 0 => rest \in OpenLots /\ rest.usd + paid = lot.usd
    BY <2>1, TakenIs
  <2>4. opened \in Int
    BY <1>1, <1>2
  <2> HIDE DEF paid, rest, opened, next
  <2>5. kept \in Seq(OpenLots)
    BY <1>1, <1>4, <2>3
  <2>6. next \in LotStates /\ next.cost = acc.cost + paid /\ next.lots = kept
    <3> HIDE DEF kept
    <3>1. acc.cost + paid \in Int
      BY <1>1, <2>3
    <3> QED
      BY <2>1, <2>2, <2>4, <2>5, <3>1 DEF LotStates
  <2>7. CASE rest.amount = 0
    <3>1. kept = acc.lots
      BY <2>7
    <3> HIDE DEF kept
    <3>2. Held(next) = Held(acc) + paid
      BY <1>1, <1>3, <2>3, <2>6, <3>1 DEF Held
    <3>3. Held(next) <= Held(acc) + lot.usd /\ (lot.amount # 0 => Held(next) = Held(acc) + lot.usd)
      BY <1>2, <1>3, <2>3, <2>7, <3>2
    <3> QED
      BY <1>3, <2>6, <3>1, <3>3 DEF next
  <2>8. CASE rest.amount # 0
    <3>1. kept = Append(acc.lots, rest) /\ rest \in OpenLots /\ rest.usd + paid = lot.usd
      BY <2>3, <2>8
    <3> HIDE DEF kept
    <3>2. Total(Dollars(kept)) = Total(Dollars(acc.lots)) + rest.usd
      BY <1>1, <3>1, DollarsOfMore
    <3>3. AllHold(acc.lots) => AllHold(kept)
      BY <1>1, <2>8, <3>1, DollarsOfMore
    <3>4. rest.usd \in Int
      BY <3>1 DEF OpenLots
    <3>5. Held(next) = Held(acc) + lot.usd
      BY <1>1, <1>2, <1>3, <2>3, <2>6, <3>1, <3>2, <3>4 DEF Held
    <3> QED
      BY <1>2, <1>3, <2>6, <3>3, <3>5 DEF next
  <2> QED
    BY <2>7, <2>8
<1> QED
  BY <1>5, <1>6

\* What ConsumeLots computes on the way.
LotSeries(g, lots, amount) ==
  /\ g \in [0 .. Len(lots) -> LotStates]
  /\ g[0] = [remaining |-> amount, cost |-> 0, opened |-> NoTime, lots |-> <<>>]
  /\ \A n \in 1 .. Len(lots) : g[n] = ConsumeLot(g[n - 1], lots[n], "cost_basis")
  /\ ConsumeLots(lots, amount, "cost_basis") = g[Len(lots)]

LEMMA LotsRun ==
  ASSUME NEW lots \in Seq(OpenLots), NEW amount \in Nat
  PROVE  \E g : LotSeries(g, lots, amount)
<1> DEFINE N == Len(lots)
           S == LotStates
           a == [remaining |-> amount, cost |-> 0, opened |-> NoTime, lots |-> <<>>]
           F == [n \in 1 .. N |-> [v \in S |-> ConsumeLot(v, lots[n], "cost_basis")]]
           Rec(h) == h = [n \in 0 .. N |-> IF n = 0 THEN a ELSE ConsumeLot(h[n - 1], lots[n], "cost_basis")]
           f == CHOOSE h : Rec(h)
<1>1. N \in Nat /\ \A n \in 1 .. N : lots[n] \in OpenLots
  OBVIOUS
<1>2. a \in S
  <2>1. <<>> \in Seq(OpenLots) /\ NoTime \in Int
    BY DEF NoTime
  <2> QED
    BY <2>1 DEF LotStates
<1>3. F \in [1 .. N -> [S -> S]]
  <2>1. \A n \in 1 .. N : \A v \in S : ConsumeLot(v, lots[n], "cost_basis") \in S
    BY <1>1, ConsumeLotIs
  <2> QED
    BY <2>1
<1> HIDE DEF S, a
<1>4. PICK g : Iterates(g, N, S, a, F)
  <2> HIDE DEF F, N
  <2> QED
    BY <1>1, <1>2, <1>3, Recursion
<1>5. \A n \in 1 .. N : n - 1 \in 0 .. N /\ n \in 0 .. N /\ n # 0
  BY <1>1
<1>6. \A n \in 1 .. N : g[n] = ConsumeLot(g[n - 1], lots[n], "cost_basis")
  <2>1. \A n \in 1 .. N : g[n] = F[n][g[n - 1]]
    BY <1>4 DEF Iterates
  <2>2. \A n \in 1 .. N : g[n - 1] \in S
    BY <1>4, <1>5 DEF Iterates
  <2> QED
    BY <2>1, <2>2
<1>7. Rec(g)
  <2>1. \A n \in 0 .. N : n # 0 => n \in 1 .. N
    BY <1>1
  <2>2. g \in [0 .. N -> S] /\ g[0] = a
    BY <1>4 DEF Iterates
  <2> HIDE DEF F, N
  <2> QED
    BY <1>6, <2>1, <2>2
<1>8. Rec(f)
  BY <1>7
<1>9. ConsumeLots(lots, amount, "cost_basis") = f[N]
  BY DEF ConsumeLots, a
<1> HIDE DEF f, F, N
<1>10. /\ f[0] = a
       /\ \A n \in 1 .. N : f[n] = ConsumeLot(f[n - 1], lots[n], "cost_basis")
  <2>1. 0 \in 0 .. N
    BY <1>1
  <2>2. f[0] = a
    BY <1>8, <2>1
  <2>3. \A n \in 1 .. N : f[n] = ConsumeLot(f[n - 1], lots[n], "cost_basis")
    BY <1>5, <1>8
  <2> QED
    BY <2>2, <2>3
<1> DEFINE good == {n \in 0 .. N : f[n] \in S}
<1>11. \A n \in 0 .. N : n \in good
  <2>1. 0 \in good
    BY <1>1, <1>2, <1>10
  <2>2. ASSUME NEW n \in Nat, n < N, n \in good PROVE n + 1 \in good
    <3>1. n + 1 \in 1 .. N /\ n + 1 \in 0 .. N /\ (n + 1) - 1 = n
      BY <1>1, <2>2
    <3>2. f[n + 1] = ConsumeLot(f[n], lots[n + 1], "cost_basis") /\ f[n] \in S
      BY <1>10, <2>2, <3>1
    <3>3. f[n + 1] \in S
      BY <1>1, <3>1, <3>2, ConsumeLotIs DEF S
    <3> QED
      BY <3>1, <3>3
  <2> HIDE DEF good
  <2> QED
    BY <1>1, <2>1, <2>2, UpTo
<1>12. f \in [0 .. N -> S]
  BY <1>8, <1>11
<1> QED
  BY <1>9, <1>10, <1>12 DEF LotSeries, N, S, a

LEMMA DollarsAre ==
  ASSUME NEW lots \in Seq(OpenLots)
  PROVE  /\ Dollars(lots) \in Seq(Int) /\ Len(Dollars(lots)) = Len(lots)
         /\ \A n \in 1 .. Len(lots) : Dollars(lots)[n] = lots[n].usd /\ lots[n] \in OpenLots
<1>1. /\ Len(lots) \in Nat /\ DOMAIN lots = 1 .. Len(lots)
      /\ \A i \in 1 .. Len(lots) : lots[i] \in OpenLots
  OBVIOUS
<1>2. \A i \in 1 .. Len(lots) : lots[i].usd \in Int
  BY <1>1 DEF OpenLots
<1>3. \A n \in 1 .. Len(lots) : Dollars(lots)[n] = lots[n].usd
  BY <1>1 DEF Dollars
<1>4. Dollars(lots) \in [1 .. Len(lots) -> Int]
  BY <1>1, <1>2 DEF Dollars
<1> HIDE DEF Dollars
<1> QED
  BY <1>1, <1>3, <1>4

\* What a sell takes from the lots and what it leaves are what the lots held.
LEMMA ConsumeLotsIs ==
  ASSUME NEW lots \in Seq(OpenLots), NEW amount \in Nat
  PROVE  LET c == ConsumeLots(lots, amount, "cost_basis")
         IN /\ c \in LotStates
            /\ Held(c) \in Int /\ Total(Dollars(lots)) \in Int
            /\ Held(c) <= Total(Dollars(lots))
            /\ AllHold(lots) => Held(c) = Total(Dollars(lots)) /\ AllHold(c.lots)
<1> DEFINE N == Len(lots)
<1>1. N \in Nat /\ DOMAIN lots = 1 .. N
  OBVIOUS
<1>2. PICK g : LotSeries(g, lots, amount)
  BY LotsRun
<1>3. PICK t : Sums(t, Dollars(lots)) /\ Total(Dollars(lots)) = t[Len(Dollars(lots))]
  BY DollarsAre, TotalRuns
<1>4. /\ t \in [0 .. N -> Int] /\ t[0] = 0
      /\ \A n \in 1 .. N : t[n] = t[n - 1] + lots[n].usd /\ lots[n] \in OpenLots
      /\ Total(Dollars(lots)) = t[N]
  BY <1>3, DollarsAre DEF Sums
<1>5. /\ g \in [0 .. N -> LotStates] /\ g[0].cost = 0 /\ g[0].lots = <<>>
      /\ \A n \in 1 .. N : g[n] = ConsumeLot(g[n - 1], lots[n], "cost_basis")
      /\ ConsumeLots(lots, amount, "cost_basis") = g[N]
  BY <1>2 DEF LotSeries
<1> HIDE DEF N
<1> DEFINE Fair(n) == /\ Held(g[n]) \in Int /\ Held(g[n]) <= t[n]
                      /\ AllHold(lots) => Held(g[n]) = t[n] /\ AllHold(g[n].lots)
           good == {n \in 0 .. N : Fair(n)}
<1>6. 0 \in good
  <2>1. Dollars(<<>>) = <<>>
    BY DEF Dollars
  <2>2. Held(g[0]) = 0
    BY <1>5, <2>1, TotalOfNone DEF Held
  <2>3. AllHold(g[0].lots)
    BY <1>5 DEF AllHold
  <2> QED
    BY <1>1, <1>4, <2>2, <2>3
<1>7. ASSUME NEW n \in Nat, n < N, n \in good PROVE n + 1 \in good
  <2>1. n + 1 \in 1 .. N /\ n + 1 \in 0 .. N /\ n \in 0 .. N /\ (n + 1) - 1 = n
    BY <1>1, <1>7
  <2> DEFINE lot == lots[n + 1]
             acc == g[n]
             next == g[n + 1]
  <2>2. /\ lot \in OpenLots /\ acc \in LotStates /\ next = ConsumeLot(acc, lot, "cost_basis")
        /\ t[n + 1] = t[n] + lot.usd /\ t[n] \in Int
    BY <1>4, <1>5, <2>1
  <2>3. /\ Held(acc) <= t[n] /\ Held(acc) \in Int
        /\ AllHold(lots) => Held(acc) = t[n] /\ AllHold(acc.lots)
    BY <1>7
  <2>4. AllHold(lots) => lot.amount # 0
    BY <1>1, <2>1 DEF AllHold
  <2> HIDE DEF lot, acc, next
  <2>5. /\ next \in LotStates
        /\ Held(next) <= Held(acc) + lot.usd
        /\ lot.amount # 0 => Held(next) = Held(acc) + lot.usd
        /\ AllHold(acc.lots) /\ lot.amount # 0 => AllHold(next.lots)
    BY <2>2, ConsumeLotIs
  <2>6. Held(next) \in Int /\ lot.usd \in Int
    <3>1. next.lots \in Seq(OpenLots) /\ next.cost \in Int
      BY <2>5 DEF LotStates
    <3>2. Total(Dollars(next.lots)) \in Int
      BY <3>1, DollarsAre, TotalRuns, TotalIs
    <3> QED
      BY <2>2, <3>1, <3>2 DEF Held, OpenLots
  <2>7. Held(next) <= t[n + 1]
    BY <2>2, <2>3, <2>5, <2>6
  <2>8. AllHold(lots) => Held(next) = t[n + 1] /\ AllHold(next.lots)
    BY <2>2, <2>3, <2>4, <2>5
  <2>9. Fair(n + 1)
    BY <2>6, <2>7, <2>8 DEF next
  <2> QED
    BY <2>1, <2>9
<1>8. \A n \in 0 .. N : n \in good
  <2> HIDE DEF good
  <2> QED
    BY <1>1, <1>6, <1>7, UpTo
<1>9. Fair(N)
  <2>1. N \in 0 .. N
    BY <1>1
  <2>2. N \in good
    BY <1>8, <2>1
  <2> QED
    BY <2>2
<1>10. g[N] \in LotStates /\ t[N] \in Int
  <2>1. N \in 0 .. N
    BY <1>1
  <2> QED
    BY <1>4, <1>5, <2>1
<1> QED
  BY <1>4, <1>5, <1>9, <1>10

Positions(K) == [key : K, cost : Int, pnl : Int, hold : Int, unmatched : Nat]
BasisStates(K) == [open : Seq(OpenLots), matched : Seq(Positions(K))]
Worth(acc) == Total(Costs(acc.matched)) + Total(Dollars(acc.open))

LEMMA CostsOfMore ==
  ASSUME NEW K, NEW q \in Seq(Positions(K)), NEW p \in Positions(K)
  PROVE  /\ Total(Costs(Append(q, p))) = Total(Costs(q)) + p.cost
         /\ Total(Costs(q)) \in Int
<1> DEFINE S == Positions(K)
<1>1. /\ Len(q) \in Nat /\ DOMAIN q = 1 .. Len(q) /\ q \in Seq(S) /\ p \in S
      /\ \A i \in 1 .. Len(q) : q[i] \in S
  OBVIOUS
<1>2. \A o \in S : o.cost \in Int
  BY DEF Positions
<1> HIDE DEF S
<1> DEFINE more == Append(q, p)
<1>3. /\ more \in Seq(S) /\ DOMAIN more = 1 .. (Len(q) + 1)
      /\ \A i \in 1 .. (Len(q) + 1) : more[i] = IF i = Len(q) + 1 THEN p ELSE q[i]
  BY <1>1
<1> HIDE DEF more
<1>4. Costs(q) \in Seq(Int) /\ Len(Costs(q)) = Len(q)
  <2>1. Costs(q) \in [1 .. Len(q) -> Int]
    BY <1>1, <1>2 DEF Costs
  <2> HIDE DEF Costs
  <2> QED
    BY <1>1, <2>1
<1>5. Costs(more) = Append(Costs(q), p.cost)
  <2>1. Append(Costs(q), p.cost)
          = [i \in 1 .. (Len(q) + 1) |-> IF i = Len(q) + 1 THEN p.cost ELSE Costs(q)[i]]
    BY <1>1, <1>4
  <2>2. \A i \in 1 .. (Len(q) + 1) : i # Len(q) + 1 => i \in 1 .. Len(q)
    BY <1>1
  <2>3. \A i \in 1 .. Len(q) : Costs(q)[i] = q[i].cost
    BY <1>1 DEF Costs
  <2>4. Costs(more) = [i \in 1 .. (Len(q) + 1) |-> more[i].cost]
    BY <1>3 DEF Costs
  <2>5. \A i \in 1 .. (Len(q) + 1) : more[i].cost = IF i = Len(q) + 1 THEN p.cost ELSE Costs(q)[i]
    BY <1>3, <2>2, <2>3
  <2> QED
    BY <2>1, <2>4, <2>5
<1> QED
  BY <1>1, <1>2, <1>4, <1>5, TotalAppend DEF more

LEMMA HoldIsInt ==
  ASSUME NEW a \in Int, NEW b \in Int
  PROVE  HoldSeconds(a, b) \in Int
BY DEF HoldSeconds, NoTime

\* One swap of the group: a buy adds its dollars, a sell moves what its lots cost.
LEMMA BasisStepIs ==
  ASSUME NEW K, NEW acc \in BasisStates(K), NEW t, IsSwap(t), t.key \in K
  PROVE  LET next == BasisStep(acc, t)
             gain == IF t.side = "buy" THEN t.usd ELSE 0
         IN /\ next \in BasisStates(K)
            /\ Worth(acc) \in Int /\ Worth(next) \in Int
            /\ Worth(next) <= Worth(acc) + gain
            /\ AllHold(acc.open) /\ (t.side = "buy" => t.amount # 0) =>
                 Worth(next) = Worth(acc) + gain /\ AllHold(next.open)
<1> DEFINE next == BasisStep(acc, t)
<1>1. /\ acc.open \in Seq(OpenLots) /\ acc.matched \in Seq(Positions(K))
      /\ acc = [open |-> acc.open, matched |-> acc.matched]
  BY DEF BasisStates
<1>2. t.side \in {"buy", "sell"} /\ t.amount \in Nat /\ t.usd \in Nat /\ t.time \in Int
  BY DEF IsSwap
<1>3. Total(Dollars(acc.open)) \in Int
  BY <1>1, DollarsAre, TotalRuns, TotalIs
<1>4. Total(Costs(acc.matched)) \in Int
  <2>1. \A q \in Seq(Positions(K)) : Costs(q) \in Seq(Int)
    <3> SUFFICES ASSUME NEW q \in Seq(Positions(K)) PROVE Costs(q) \in Seq(Int)
      OBVIOUS
    <3>1. Len(q) \in Nat /\ DOMAIN q = 1 .. Len(q) /\ \A i \in 1 .. Len(q) : q[i] \in Positions(K)
      OBVIOUS
    <3>2. \A i \in 1 .. Len(q) : q[i].cost \in Int
      BY <3>1 DEF Positions
    <3>3. Costs(q) \in [1 .. Len(q) -> Int]
      BY <3>1, <3>2 DEF Costs
    <3> QED
      BY <3>1, <3>3
  <2> QED
    BY <1>1, <2>1, TotalRuns, TotalIs
<1>5. CASE t.side = "buy"
  <2> DEFINE lot == Lot(t.amount, t.usd, t.time)
  <2>1. lot \in OpenLots /\ lot.usd = t.usd /\ lot.amount = t.amount
    BY <1>2 DEF Lot, OpenLots
  <2> HIDE DEF lot
  <2>2. next = [open |-> Append(acc.open, lot), matched |-> acc.matched]
    BY <1>1, <1>5 DEF BasisStep, lot
  <2> HIDE DEF next
  <2>3. next \in BasisStates(K)
    <3>1. Append(acc.open, lot) \in Seq(OpenLots)
      BY <1>1, <2>1
    <3> QED
      BY <1>1, <2>2, <3>1 DEF BasisStates
  <2>4. /\ Total(Dollars(next.open)) = Total(Dollars(acc.open)) + t.usd
        /\ next.matched = acc.matched
        /\ AllHold(acc.open) /\ t.amount # 0 => AllHold(next.open)
    BY <1>1, <2>1, <2>2, DollarsOfMore
  <2>5. Worth(next) = Worth(acc) + t.usd /\ Worth(acc) \in Int /\ Worth(next) \in Int
    BY <1>2, <1>3, <1>4, <2>4 DEF Worth
  <2> QED
    BY <1>2, <1>5, <2>3, <2>4, <2>5 DEF next
<1>6. CASE t.side # "buy"
  <2> DEFINE c == ConsumeLots(acc.open, t.amount, "cost_basis")
             matched == t.amount - c.remaining
             proceeds == IF t.amount = 0 THEN 0 ELSE (t.usd * matched) \div t.amount
             p == [key |-> t.key, cost |-> c.cost, pnl |-> proceeds - c.cost,
                   hold |-> HoldSeconds(c.opened, t.time), unmatched |-> c.remaining]
  <2>1. next = [open |-> c.lots, matched |-> Append(acc.matched, p)]
    BY <1>6 DEF BasisStep, BasisSell
  <2>2. /\ c \in LotStates
        /\ Held(c) \in Int /\ Held(c) <= Total(Dollars(acc.open))
        /\ AllHold(acc.open) => Held(c) = Total(Dollars(acc.open)) /\ AllHold(c.lots)
    BY <1>1, <1>2, ConsumeLotsIs
  <2> HIDE DEF c
  <2>3. c.remaining \in Nat /\ c.cost \in Int /\ c.opened \in Int /\ c.lots \in Seq(OpenLots)
    BY <2>2 DEF LotStates
  <2>4. matched \in Int
    BY <1>2, <2>3
  <2> HIDE DEF matched
  <2>5. proceeds \in Int
    BY <1>2, <2>4
  <2> HIDE DEF proceeds
  <2>6. p \in Positions(K) /\ p.cost = c.cost
    <3>1. proceeds - c.cost \in Int
      BY <2>3, <2>5
    <3>2. HoldSeconds(c.opened, t.time) \in Int
      BY <1>2, <2>3, HoldIsInt
    <3> QED
      BY <2>3, <3>1, <3>2 DEF Positions
  <2> HIDE DEF p, next
  <2>7. next \in BasisStates(K)
    <3>1. Append(acc.matched, p) \in Seq(Positions(K))
      BY <1>1, <2>6
    <3> QED
      BY <2>1, <2>3, <3>1 DEF BasisStates
  <2>8. Total(Costs(next.matched)) = Total(Costs(acc.matched)) + c.cost /\ next.open = c.lots
    BY <1>1, <2>1, <2>6, CostsOfMore
  <2>9. Total(Dollars(c.lots)) \in Int
    BY <2>3, DollarsAre, TotalRuns, TotalIs
  <2>10. Worth(next) = Total(Costs(acc.matched)) + Held(c) /\ Worth(next) \in Int /\ Worth(acc) \in Int
    BY <1>3, <1>4, <2>3, <2>8, <2>9 DEF Worth, Held
  <2>11. Worth(next) <= Worth(acc)
    BY <1>3, <1>4, <2>2, <2>10 DEF Worth
  <2>12. AllHold(acc.open) => Worth(next) = Worth(acc) /\ AllHold(next.open)
    BY <1>3, <1>4, <2>2, <2>8, <2>10 DEF Worth
  <2> QED
    BY <1>6, <2>7, <2>10, <2>11, <2>12 DEF next
<1> QED
  BY <1>5, <1>6

\* The swaps of one group in their order.
IsRun(s, K) == /\ Len(s) \in Nat /\ s \in [1 .. Len(s) -> Range(s)]
               /\ \A n \in 1 .. Len(s) : IsSwap(s[n]) /\ s[n].key \in K
Gains(s) == [n \in 1 .. Len(s) |-> IF s[n].side = "buy" THEN s[n].usd ELSE 0]

\* What BasisRun computes on the way.
BasisSeries(g, s, K) ==
  /\ g \in [0 .. Len(s) -> BasisStates(K)]
  /\ g[0] = [open |-> <<>>, matched |-> <<>>]
  /\ \A n \in 1 .. Len(s) : g[n] = BasisStep(g[n - 1], s[n])
  /\ BasisRun(s) = g[Len(s)]

LEMMA BasisRuns ==
  ASSUME NEW K, NEW s, IsRun(s, K)
  PROVE  \E g : BasisSeries(g, s, K)
<1> DEFINE N == Len(s)
           S == BasisStates(K)
           a == [open |-> <<>>, matched |-> <<>>]
           F == [n \in 1 .. N |-> [v \in S |-> BasisStep(v, s[n])]]
           Rec(h) == h = [n \in 0 .. N |-> IF n = 0 THEN a ELSE BasisStep(h[n - 1], s[n])]
           f == CHOOSE h : Rec(h)
<1>1. N \in Nat /\ \A n \in 1 .. N : IsSwap(s[n]) /\ s[n].key \in K
  BY DEF IsRun
<1>2. a \in S
  <2>1. <<>> \in Seq(OpenLots) /\ <<>> \in Seq(Positions(K))
    OBVIOUS
  <2> QED
    BY <2>1 DEF BasisStates
<1>3. F \in [1 .. N -> [S -> S]]
  <2>1. \A n \in 1 .. N : \A v \in S : BasisStep(v, s[n]) \in S
    BY <1>1, BasisStepIs
  <2> QED
    BY <2>1
<1> HIDE DEF S, a
<1>4. PICK g : Iterates(g, N, S, a, F)
  <2> HIDE DEF F, N
  <2> QED
    BY <1>1, <1>2, <1>3, Recursion
<1>5. \A n \in 1 .. N : n - 1 \in 0 .. N /\ n \in 0 .. N /\ n # 0
  BY <1>1
<1>6. \A n \in 1 .. N : g[n] = BasisStep(g[n - 1], s[n])
  <2>1. \A n \in 1 .. N : g[n] = F[n][g[n - 1]]
    BY <1>4 DEF Iterates
  <2>2. \A n \in 1 .. N : g[n - 1] \in S
    BY <1>4, <1>5 DEF Iterates
  <2> QED
    BY <2>1, <2>2
<1>7. Rec(g)
  <2>1. \A n \in 0 .. N : n # 0 => n \in 1 .. N
    BY <1>1
  <2>2. g \in [0 .. N -> S] /\ g[0] = a
    BY <1>4 DEF Iterates
  <2> HIDE DEF F, N
  <2> QED
    BY <1>6, <2>1, <2>2
<1>8. Rec(f)
  BY <1>7
<1>9. BasisRun(s) = f[N]
  BY DEF BasisRun, a
<1> HIDE DEF f, F, N
<1>10. f[0] = a /\ \A n \in 1 .. N : f[n] = BasisStep(f[n - 1], s[n])
  <2>1. 0 \in 0 .. N
    BY <1>1
  <2>2. f[0] = a
    BY <1>8, <2>1
  <2>3. \A n \in 1 .. N : f[n] = BasisStep(f[n - 1], s[n])
    BY <1>5, <1>8
  <2> QED
    BY <2>2, <2>3
<1> DEFINE good == {n \in 0 .. N : f[n] \in S}
<1>11. \A n \in 0 .. N : n \in good
  <2>1. 0 \in good
    BY <1>1, <1>2, <1>10
  <2>2. ASSUME NEW n \in Nat, n < N, n \in good PROVE n + 1 \in good
    <3>1. n + 1 \in 1 .. N /\ n + 1 \in 0 .. N /\ (n + 1) - 1 = n
      BY <1>1, <2>2
    <3>2. f[n + 1] = BasisStep(f[n], s[n + 1]) /\ f[n] \in S
      BY <1>10, <2>2, <3>1
    <3>3. f[n + 1] \in S
      BY <1>1, <3>1, <3>2, BasisStepIs DEF S
    <3> QED
      BY <3>1, <3>3
  <2> HIDE DEF good
  <2> QED
    BY <1>1, <2>1, <2>2, UpTo
<1>12. f \in [0 .. N -> S]
  BY <1>8, <1>11
<1> QED
  BY <1>9, <1>10, <1>12 DEF BasisSeries, N, S, a

\* A run is worth what was paid, and at most that when a buy bought nothing.
LEMMA RunIsWorthItsCost ==
  ASSUME NEW K, NEW s, IsRun(s, K)
  PROVE  /\ Worth(BasisRun(s)) <= Total(Gains(s))
         /\ (\A n \in 1 .. Len(s) : s[n].side = "buy" => s[n].amount # 0) =>
              Worth(BasisRun(s)) = Total(Gains(s))
<1> DEFINE N == Len(s)
           Bought == \A n \in 1 .. N : s[n].side = "buy" => s[n].amount # 0
<1>1. N \in Nat /\ \A n \in 1 .. N : IsSwap(s[n]) /\ s[n].key \in K
  BY DEF IsRun
<1>2. PICK g : BasisSeries(g, s, K)
  BY BasisRuns
<1>3. Gains(s) \in Seq(Int) /\ Len(Gains(s)) = N
        /\ \A n \in 1 .. N : Gains(s)[n] = IF s[n].side = "buy" THEN s[n].usd ELSE 0
  <2>1. \A n \in 1 .. N : s[n].usd \in Int
    BY <1>1 DEF IsSwap
  <2>2. Gains(s) \in [1 .. N -> Int]
    BY <2>1 DEF Gains
  <2>3. \A n \in 1 .. N : Gains(s)[n] = IF s[n].side = "buy" THEN s[n].usd ELSE 0
    BY DEF Gains
  <2> HIDE DEF Gains
  <2> QED
    BY <1>1, <2>2, <2>3
<1>4. PICK t : Sums(t, Gains(s)) /\ Total(Gains(s)) = t[Len(Gains(s))]
  BY <1>3, TotalRuns
<1>5. /\ t \in [0 .. N -> Int] /\ t[0] = 0
      /\ \A n \in 1 .. N : t[n] = t[n - 1] + (IF s[n].side = "buy" THEN s[n].usd ELSE 0)
      /\ Total(Gains(s)) = t[N]
  BY <1>3, <1>4 DEF Sums
<1>6. /\ g \in [0 .. N -> BasisStates(K)] /\ g[0] = [open |-> <<>>, matched |-> <<>>]
      /\ \A n \in 1 .. N : g[n] = BasisStep(g[n - 1], s[n])
      /\ BasisRun(s) = g[N]
  BY <1>2 DEF BasisSeries
<1> HIDE DEF N
<1> DEFINE Fair(n) == /\ Worth(g[n]) \in Int /\ Worth(g[n]) <= t[n]
                      /\ Bought => Worth(g[n]) = t[n] /\ AllHold(g[n].open)
           good == {n \in 0 .. N : Fair(n)}
<1>7. 0 \in good
  <2>1. Dollars(<<>>) = <<>> /\ Costs(<<>>) = <<>>
    BY DEF Dollars, Costs
  <2>2. Worth(g[0]) = 0
    BY <1>6, <2>1, TotalOfNone DEF Worth
  <2>3. AllHold(g[0].open)
    BY <1>6 DEF AllHold
  <2> QED
    BY <1>1, <1>5, <2>2, <2>3
<1>8. ASSUME NEW n \in Nat, n < N, n \in good PROVE n + 1 \in good
  <2>1. n + 1 \in 1 .. N /\ n + 1 \in 0 .. N /\ n \in 0 .. N /\ (n + 1) - 1 = n
    BY <1>1, <1>8
  <2> DEFINE w == s[n + 1]
             acc == g[n]
             next == g[n + 1]
             gain == IF w.side = "buy" THEN w.usd ELSE 0
  <2>2. /\ IsSwap(w) /\ w.key \in K /\ acc \in BasisStates(K) /\ next = BasisStep(acc, w)
        /\ t[n + 1] = t[n] + gain /\ t[n] \in Int
    BY <1>1, <1>5, <1>6, <2>1
  <2>3. /\ Worth(acc) \in Int /\ Worth(acc) <= t[n]
        /\ Bought => Worth(acc) = t[n] /\ AllHold(acc.open)
    BY <1>8
  <2>4. Bought => (w.side = "buy" => w.amount # 0)
    BY <2>1
  <2> HIDE DEF w, acc, next, Bought
  <2>5. /\ Worth(next) \in Int /\ Worth(next) <= Worth(acc) + gain
        /\ AllHold(acc.open) /\ (w.side = "buy" => w.amount # 0) =>
             Worth(next) = Worth(acc) + gain /\ AllHold(next.open)
    BY <2>2, BasisStepIs
  <2>6. gain \in Int
    BY <2>2 DEF IsSwap
  <2> HIDE DEF gain
  <2>7. Worth(next) <= t[n + 1]
    BY <2>2, <2>3, <2>5, <2>6
  <2>8. Bought => Worth(next) = t[n + 1] /\ AllHold(next.open)
    BY <2>2, <2>3, <2>4, <2>5
  <2>9. Fair(n + 1)
    BY <2>5, <2>7, <2>8 DEF next
  <2> QED
    BY <2>1, <2>9
<1>9. \A n \in 0 .. N : n \in good
  <2> HIDE DEF good
  <2> QED
    BY <1>1, <1>7, <1>8, UpTo
<1>10. Fair(N)
  <2>1. N \in 0 .. N
    BY <1>1
  <2>2. N \in good
    BY <1>9, <2>1
  <2> QED
    BY <2>2
<1> QED
  BY <1>5, <1>6, <1>10 DEF N

\* Whatever the order, the buys of the group are paid for once.
LEMMA CostStays ==
  ASSUME NEW x, AreSwaps(x)
  PROVE  CostIsConserved(x)
<1> SUFFICES ASSUME NEW k
             PROVE  /\ Worth(BasisOf(x, k)) <= Paid(x, {k})
                    /\ (\A i \in GroupOf(x, k) : x[i].side = "buy" => x[i].amount # 0) =>
                         Worth(BasisOf(x, k)) = Paid(x, {k})
  BY DEF CostIsConserved, Worth
<1> DEFINE s == InOrder(x, k)
           G == GroupOf(x, k)
           M == Cardinality(G)
           q == [i \in DOMAIN x |-> IF x[i].side = "buy" /\ x[i].key \in {k} THEN x[i].usd ELSE 0]
<1>1. /\ Len(x) \in Nat /\ DOMAIN x = 1 .. Len(x) /\ \A i \in DOMAIN x : IsSwap(x[i])
      /\ M \in Nat /\ \A i \in G : i \in 1 .. Len(x) /\ x[i].key = k
  BY SwapsAre, GroupIsFinite DEF AreSwaps, GroupOf
<1>2. PICK m : Ordered(x, k, m)
  BY OrderIs
<1>3. /\ m \in [1 .. M -> G]
      /\ \A a, b \in 1 .. M : m[a] = m[b] => a = b
      /\ \A i \in G : \E n \in 1 .. M : m[n] = i
      /\ \A n \in 1 .. M : s[n] = x[m[n]]
  BY <1>2 DEF Ordered
<1>4. DOMAIN s = 1 .. M /\ s = [n \in 1 .. M |-> s[n]]
  BY DEF InOrder
<1> HIDE DEF s, G, M
<1>5. Len(s) = M
  BY <1>1, <1>4
<1>6. ASSUME NEW n \in 1 .. M PROVE s[n] = x[m[n]] /\ m[n] \in 1 .. Len(x) /\ m[n] \in G
                                      /\ IsSwap(s[n]) /\ s[n].key \in {k}
  BY <1>1, <1>3
<1>7. IsRun(s, {k})
  <2>1. s \in [1 .. M -> Range(s)]
    BY <1>4 DEF Range
  <2> QED
    BY <1>1, <1>5, <1>6, <2>1 DEF IsRun
<1>8. q \in Seq(Int) /\ Len(q) = Len(x)
  <2>1. \A i \in DOMAIN x : x[i].usd \in Int
    BY <1>1 DEF IsSwap
  <2>2. q \in [1 .. Len(x) -> Int]
    BY <1>1, <2>1
  <2> HIDE DEF q
  <2> QED
    BY <1>1, <2>2
<1>9. \A i \in DOMAIN x : q[i] = IF x[i].side = "buy" /\ x[i].key \in {k} THEN x[i].usd ELSE 0
  OBVIOUS
<1>10. Paid(x, {k}) = Total(q)
  BY DEF Paid
<1> HIDE DEF q
<1>11. Picks(q, m, M)
  <2>1. m \in [1 .. M -> 1 .. Len(q)]
    BY <1>3, <1>6, <1>8
  <2>2. ASSUME NEW i \in 1 .. Len(q), q[i] # 0 PROVE \E j \in 1 .. M : m[j] = i
    <3>1. i \in G
      BY <1>1, <1>8, <1>9, <2>2 DEF G, GroupOf
    <3> QED
      BY <1>3, <3>1
  <2> QED
    BY <1>3, <2>1, <2>2 DEF Picks
<1>12. Gains(s) = [n \in 1 .. M |-> q[m[n]]]
  <2>1. \A n \in 1 .. M : (IF s[n].side = "buy" THEN s[n].usd ELSE 0) = q[m[n]]
    BY <1>1, <1>6, <1>9
  <2> QED
    BY <1>5, <2>1 DEF Gains
<1>13. Total(Gains(s)) = Paid(x, {k})
  BY <1>1, <1>8, <1>10, <1>11, <1>12, TotalIsOrderFree
<1>14. /\ Worth(BasisRun(s)) <= Paid(x, {k})
       /\ (\A n \in 1 .. M : s[n].side = "buy" => s[n].amount # 0) =>
            Worth(BasisRun(s)) = Paid(x, {k})
  BY <1>5, <1>7, <1>13, RunIsWorthItsCost
<1>15. BasisOf(x, k) = BasisRun(s)
  BY DEF BasisOf, s
<1>16. (\A i \in G : x[i].side = "buy" => x[i].amount # 0) =>
          \A n \in 1 .. M : s[n].side = "buy" => s[n].amount # 0
  BY <1>6
<1> QED
  BY <1>14, <1>15, <1>16 DEF G

(***************************************************************************)
(* The scores.                                                             *)
(***************************************************************************)

LEMMA WinningWeighsMore ==
  ASSUME NEW v \in Int, NEW w \in Int, v <= w, w <= 100
  PROVE  /\ WinAndConsistency(v) \in Int /\ WinAndConsistency(w) \in Int
         /\ WinAndConsistency(v) <= WinAndConsistency(w)
BY DEF WinAndConsistency, Clamp, Abs

LEMMA HundredthsAreMonotone ==
  ASSUME NEW a \in Int, NEW b \in Int, a <= b
  PROVE  a \div 100 <= b \div 100
OBVIOUS

LEMMA WinningIsRewarded ==
  ASSUME NEW r \in Rates
  PROVE  SkillRewardsWinning(r)
<1> SUFFICES ASSUME NEW w \in r.win .. 100
             PROVE  SkillScore([r EXCEPT !.win = w]) >= SkillScore(r)
  BY DEF SkillRewardsWinning
<1> DEFINE q == [r EXCEPT !.win = w]
<1>1. /\ r.win \in Int /\ r.roi \in Int /\ r.early \in Int /\ r.trades \in Int /\ r.agreement \in Int
      /\ q.win = w /\ q.roi = r.roi /\ q.early = r.early /\ q.trades = r.trades
      /\ q.agreement = r.agreement
  BY DEF Rates
<1>2. w \in Int /\ w <= 100 /\ r.win <= w
  BY DEF Rates
<1> HIDE DEF q
<1> DEFINE roi == 500 * (Clamp(r.roi, -1, 5) + 1)
           rest == 15 * Clamp(r.early, 0, 100) + 20 * AtMost(r.trades, 50)
                     + 15 * Clamp(r.agreement, 0, 100)
           old == roi + WinAndConsistency(r.win) + 15 * Clamp(r.early, 0, 100)
                    + 20 * AtMost(r.trades, 50) + 15 * Clamp(r.agreement, 0, 100)
           new == roi + WinAndConsistency(w) + 15 * Clamp(r.early, 0, 100)
                    + 20 * AtMost(r.trades, 50) + 15 * Clamp(r.agreement, 0, 100)
<1>3. roi \in Int /\ 15 * Clamp(r.early, 0, 100) \in Int /\ 20 * AtMost(r.trades, 50) \in Int
      /\ 15 * Clamp(r.agreement, 0, 100) \in Int
  BY <1>1 DEF Clamp, AtMost
<1>4. old \in Int /\ new \in Int /\ old <= new
  <2>1. /\ WinAndConsistency(r.win) \in Int /\ WinAndConsistency(w) \in Int
        /\ WinAndConsistency(r.win) <= WinAndConsistency(w)
    BY <1>1, <1>2, WinningWeighsMore
  <2> HIDE DEF roi
  <2> QED
    BY <1>3, <2>1
<1>5. SkillScore(r) = Clamp(old, 0, 10000) \div 100
  BY DEF SkillScore
<1>6. SkillScore(q) = Clamp(new, 0, 10000) \div 100
  BY <1>1 DEF SkillScore
<1> HIDE DEF old, new
<1>7. Clamp(old, 0, 10000) <= Clamp(new, 0, 10000)
      /\ Clamp(old, 0, 10000) \in Int /\ Clamp(new, 0, 10000) \in Int
  BY <1>4 DEF Clamp
<1>8. Clamp(old, 0, 10000) \div 100 <= Clamp(new, 0, 10000) \div 100
  BY <1>7, HundredthsAreMonotone
<1>9. Clamp(old, 0, 10000) \div 100 \in Int /\ Clamp(new, 0, 10000) \div 100 \in Int
  BY <1>7
<1> QED
  BY <1>5, <1>6, <1>8, <1>9 DEF q

LEMMA HoldingCopiesBetter ==
  ASSUME NEW r \in Rates
  PROVE  LongerHoldCopiesBetter(r)
<1> SUFFICES ASSUME NEW h \in {0, 5, 6, 60, 61, 300, 301}, h >= r.hold, r.hold # NoTime
             PROVE  CopyabilityScore([r EXCEPT !.hold = h]) >= CopyabilityScore(r)
  BY DEF LongerHoldCopiesBetter
<1> DEFINE q == [r EXCEPT !.hold = h]
<1>1. /\ r.hold \in Int /\ r.liquidity \in Int /\ r.mev \in Int
      /\ q.hold = h /\ q.liquidity = r.liquidity /\ q.mev = r.mev
  BY DEF Rates
<1>2. h \in Nat /\ r.hold <= h
  BY <1>1
<1> HIDE DEF q
<1> DEFINE Hurry(t) == IF t # NoTime /\ t <= 5 THEN 15 ELSE 0
           liquidity == IF r.liquidity = NoTime THEN 0 ELSE IF r.liquidity < 10000 THEN 25
                        ELSE IF r.liquidity < 50000 THEN 10 ELSE 0
           mev == IF r.mev >= 80 THEN 25 ELSE IF r.mev >= 50 THEN 10 ELSE 0
           high == IF r.mev >= 90 THEN 30 ELSE 0
           old == 100 - HoldPenalty(r.hold) - liquidity - mev - Hurry(r.hold) - high
           new == 100 - HoldPenalty(h) - liquidity - mev - Hurry(h) - high
<1>3. HoldPenalty(r.hold) \in Int /\ HoldPenalty(h) \in Int /\ HoldPenalty(h) <= HoldPenalty(r.hold)
  BY <1>1, <1>2 DEF HoldPenalty, NoTime
<1>4. Hurry(r.hold) \in Int /\ Hurry(h) \in Int /\ Hurry(h) <= Hurry(r.hold)
  BY <1>1, <1>2 DEF NoTime
<1>5. liquidity \in Int /\ mev \in Int /\ high \in Int
  OBVIOUS
<1>6. CopyabilityScore(r) = Clamp(old, 0, 100)
  BY DEF CopyabilityScore
<1>7. CopyabilityScore(q) = Clamp(new, 0, 100)
  BY <1>1 DEF CopyabilityScore
<1> HIDE DEF Hurry, liquidity, mev, high
<1>8. old \in Int /\ new \in Int /\ old <= new
  BY <1>3, <1>4, <1>5
<1> HIDE DEF old, new
<1>9. Clamp(old, 0, 100) <= Clamp(new, 0, 100)
      /\ Clamp(old, 0, 100) \in Int /\ Clamp(new, 0, 100) \in Int
  BY <1>8 DEF Clamp
<1> QED
  BY <1>6, <1>7, <1>9 DEF q

\* The cost basis is the wallet's own money, once, in any order of delivery, and
\* the scores reward winning and holding, whatever the swaps and the rates.
THEOREM ExactScoring == AlgSpec => []ScoringIsExact
<1>1. \A x \in SwapInputs : AreSwaps(x)
  BY ScoringAssumption DEF AreSwaps
<1>2. \A x \in SwapInputs : CostIsConserved(x) /\ DeliveryOrderIsIrrelevant(x) /\ WalletsDoNotMix(x)
  BY <1>1, CostStays, DeliveryIsIrrelevant, WalletsAreApart
<1>3. \A x \in RateInputs : SkillRewardsWinning(x) /\ LongerHoldCopiesBetter(x)
  BY ScoringAssumption, WinningIsRewarded, HoldingCopiesBetter
<1>4. Given => ScoringIsExact
  BY <1>2, <1>3 DEF Given, ScoringIsExact, BasisConserved, BasisOrderFree, BasisPerWallet,
                    SkillMonotone, CopyabilityMonotone
<1> QED
  BY <1>4, AlwaysGiven, PTL
=============================================================================
