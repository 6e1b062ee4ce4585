----------------------------- MODULE ForgeRules -----------------------------
(***************************************************************************)
(* The decision rules of src/sf as operators: the intent table, kill       *)
(* switches and bounded autonomy, source health, provider selection, the   *)
(* strategy stages, revival, decisions, the entry gate and the            *)
(* portfolio projection.  None of them keeps state of its own; what can go *)
(* wrong lies between two of them or along a path through one.             *)
(***************************************************************************)
EXTENDS Integers, Sequences, SequencesExt, FiniteSets, FiniteSetsExt

Absent == -1

\* The states R, and those a table of transitions T leads to from them.
Onward(T, States, R) == R \cup {t \in States : \E r \in R : <<r, t>> \in T}

\* The states T reaches from s in any number of steps.
ReachedFrom(T, States, s) ==
  LET after[n \in 0..Cardinality(States)] ==
        IF n = 0 THEN {s} ELSE Onward(T, States, after[n - 1])
  IN after[Cardinality(States)]

-----------------------------------------------------------------------------
(* Intents.                                                                *)

IntentStates == {"proposed", "approved", "reserved", "built", "simulated", "signed",
                 "submitted", "confirmed", "failed_safe", "unknown", "cancelled"}

\* Mutant: an intent of unknown outcome may be submitted once more.
IntentTableRetries ==
  {<<"proposed", "approved">>, <<"approved", "reserved">>, <<"reserved", "built">>,
   <<"built", "simulated">>, <<"simulated", "signed">>, <<"signed", "submitted">>,
   <<"submitted", "confirmed">>, <<"submitted", "unknown">>, <<"unknown", "submitted">>,
   <<"unknown", "confirmed">>}

\* IntentState::can_transition_to.
IntentTable ==
  {<<"proposed", "approved">>, <<"approved", "reserved">>, <<"reserved", "built">>,
   <<"built", "simulated">>, <<"simulated", "signed">>, <<"signed", "submitted">>,
   <<"submitted", "confirmed">>, <<"submitted", "unknown">>}
  \cup {<<s, "cancelled">> : s \in {"proposed", "approved", "unknown"}}
  \cup {<<s, "failed_safe">> : s \in {"reserved", "built", "simulated", "signed", "submitted", "unknown"}}
  \cup {<<"unknown", "confirmed">>}

IntentTerminal == {"confirmed", "failed_safe", "cancelled"}
ReservationHeld(s) == s \notin IntentTerminal

-----------------------------------------------------------------------------
(* Actions, kill switches and autonomy.                                    *)

TradeActions == {"buy", "sell", "partial_sell", "close", "emergency_exit"}
LpActions == {"open_position", "add_liquidity", "claim_fees", "compound_fees",
              "partial_withdraw", "close_position", "reseed_position", "swap_residuals",
              "lp_emergency_exit"}

\* is_risk_reducing, of trades.
RiskReducing(a) == a \in {"sell", "partial_sell", "close", "emergency_exit"}

\* action_permitted, which takes trades only; a switch is [mode, active].
ActionPermitted(switches, a) ==
  LET active == {s \in switches : s.active}
  IN active = {} \/ (~(\E s \in active : s.mode = "halt") /\ RiskReducing(a))

\* classify_action.
Maturity(a) ==
  IF a \in {"open_position", "reseed_position", "add_liquidity", "compound_fees", "buy"}
  THEN "open" ELSE "claim_close"

RolloutPhases == <<"shadow", "paper", "confirm_each", "claim_close", "open_reseed", "advanced">>

\* can_open and can_claim_close.
PhaseAllows(phase, maturity) ==
  IF maturity = "open" THEN phase \in {"open_reseed", "advanced"}
  ELSE phase \in {"claim_close", "open_reseed", "advanced"}

ThresholdsSane(t) ==
  t.sample >= 30 /\ t.days >= 14 /\ t.drawdown \in -10..-1 /\ t.ci >= 0 /\ t.approval

\* AutonomyGuard::can_raise_limit.
CanRaiseLimit(g) ==
  /\ g.thresholds.approval /\ g.approved
  /\ g.sample >= g.thresholds.sample
  /\ g.days >= g.thresholds.days
  /\ g.drawdown >= g.thresholds.drawdown
  /\ g.ci > g.thresholds.ci

\* autonomous_action_permitted.
AutonomousActionPermitted(mode, phase, action, canary, g) ==
  /\ mode = "auto_bounded"
  /\ canary
  /\ ThresholdsSane(g.thresholds)
  /\ PhaseAllows(phase, Maturity(action))
  /\ g.evidence # {}
  /\ CanRaiseLimit(g)

-----------------------------------------------------------------------------
(* Source health.  A signal is [success, now, cadence, stale, failures,    *)
(* disabled], with Absent for a missing time or cadence.                   *)

OnTime(sig) ==
  sig.success # Absent /\ sig.cadence # Absent /\ sig.now - sig.success \in 0..sig.cadence

\* The states from which one good sample is not yet enough.
RecoversFrom == {"degraded", "down", "silent"}

\* source_health_runtime::transition, as apply stores it.
HealthTransition(state, sig) ==
  IF sig.disabled THEN "disabled"
  ELSE IF sig.failures >= 3 THEN "down"
  ELSE IF sig.stale THEN "degraded"
  ELSE IF ~OnTime(sig) THEN "silent"
  ELSE IF state \in RecoversFrom THEN "recovering" ELSE "up"

HealthAfter(signals) ==
  LET after[n \in 0..Len(signals)] ==
        IF n = 0 THEN "silent" ELSE HealthTransition(after[n - 1], signals[n])
  IN after[Len(signals)]

-----------------------------------------------------------------------------
(* Provider selection.  A candidate is [id, role, health, weight, latency, *)
(* cost, usable], weights in thousandths; Absent latency or cost is worst. *)

Worst == 1000000
HealthRank(h) == CASE h = "up" -> 4 [] h = "recovering" -> 3 [] h = "degraded" -> 2
                   [] h = "silent" -> 1 [] OTHER -> 0

\* ineligible_reason is None; usable stands for the six flags it reads.
Eligible(c) == c.usable /\ c.health \notin {"down", "disabled"}

\* rank_key: a weight above one is no better than one.
RankKey(c) ==
  <<CASE c.role = "mandatory" -> 0 [] c.role = "vendor" -> 1 [] OTHER -> 2,
    255 - HealthRank(c.health),
    IF c.weight > 1000 THEN 0 ELSE 1000 - c.weight,
    IF c.latency = Absent THEN Worst ELSE c.latency,
    IF c.cost = Absent THEN Worst ELSE c.cost,
    c.id>>

KeyBefore(a, b) == \E i \in DOMAIN a : a[i] < b[i] /\ \A j \in 1..(i - 1) : a[j] = b[j]

\* select_provider: the first of the smallest eligible candidates.
SelectProvider(cands) ==
  LET ok == {i \in DOMAIN cands : Eligible(cands[i])}
      best == {i \in ok : \A j \in ok : ~KeyBefore(RankKey(cands[j]), RankKey(cands[i]))}
  IN IF best = {} THEN <<>> ELSE <<cands[Min(best)]>>

-----------------------------------------------------------------------------
(* Stages.                                                                 *)

StrategyStages == <<"draft", "shadow", "paper", "validated", "approved", "canary",
                    "active", "paused", "retired">>

\* strategy_runtime::can_transition on stage indexes 1..9.
StrategyMay(i, j) == i # 9 /\ (j = i + 1 \/ (i = 8 /\ j = 7))

LiveReady == {5, 6, 7}

\* Only what the caller brings is evidence for an evaluation.
FreshEvidence(in) == in.evidence

\* run_revival; in is [match, wake, gate, quality, evidence, memory].
RunRevival(in) ==
  [stage |-> IF ~in.match \/ ~in.wake THEN "wake"
             ELSE IF ~in.gate THEN "activation_gate"
             ELSE IF in.quality # Absent /\ FreshEvidence(in) # <<>> THEN "evaluation"
             ELSE "quality",
   passed |-> in.match /\ in.wake /\ in.gate,
   evidence |-> in.memory \o in.evidence]

-----------------------------------------------------------------------------
(* The entry gate and decisions.                                           *)

\* Mutant: a market of unknown age is taken for a fresh one.
FreshMarketUnlessOld(in) == in.marketAge <= 300

FreshMarket(in) == in.marketAge # Absent /\ in.marketAge <= 300

\* The gates in the order they are asked, each by the outcome it names.
EntryGates == <<"insufficient_clusters", "insufficient_buys", "unsupported_lifecycle", "token_too_old",
                "insufficient_liquidity", "wash_risk", "critical_risk", "stale_market",
                "ineligible_skill", "ineligible_copyability", "incomplete_history">>

GatePasses(in, gate) ==
  CASE gate = "insufficient_clusters"  -> in.clusters >= 2
    [] gate = "insufficient_buys"      -> in.buys >= 2
    [] gate = "unsupported_lifecycle"  -> in.lifecycle
    [] gate = "token_too_old"          -> in.age # Absent /\ in.age <= 24
    [] gate = "insufficient_liquidity" -> in.liquidity # Absent /\ in.liquidity >= 20000
    [] gate = "wash_risk"              -> "wash" \notin in.flags
    [] gate = "critical_risk"          -> in.flags \cap {"critical", "honeypot", "rugged"} = {}
    [] gate = "stale_market"           -> FreshMarket(in)
    [] gate = "ineligible_skill"       -> in.skill >= 70
    [] gate = "ineligible_copyability" -> in.copyability >= 60
    [] gate = "incomplete_history"     -> in.completeness >= 80

\* evaluate_entry_gate: the first failing gate names the outcome.
EntryGate(in) ==
  LET failed == {i \in DOMAIN EntryGates : ~GatePasses(in, EntryGates[i])}
  IN IF failed = {} THEN "accepted" ELSE EntryGates[Min(failed)]

RequiredMandatory == {"security", "contract_identity", "chain_state", "mandatory_freshness"}

\* A required component is there exactly once and passes.
RequiredHolds(components, name) ==
  LET those == {i \in DOMAIN components : components[i].class = "mandatory" /\ components[i].name = name}
  IN Cardinality(those) = 1 /\ \A i \in those : components[i].pass = "yes"

\* decision_runtime::evaluate; pass is "yes", "no" or "unknown".
Evaluate(b) ==
  IF ~b.evidence \/ ~b.freshness THEN "insufficient_evidence"
  ELSE IF b.missing THEN "missing_capability"
  ELSE IF \E n \in RequiredMandatory : ~RequiredHolds(b.components, n) THEN "reject"
  ELSE IF \E i \in DOMAIN b.components :
            \/ b.components[i].class = "mandatory" /\ b.components[i].pass # "yes"
            \/ b.components[i].class = "halt" /\ b.components[i].pass = "yes"
       THEN "reject" ELSE "approve"

-----------------------------------------------------------------------------
(* Portfolio projection.  A line is [notional, keys, grouped].             *)

Find(parent, x) ==
  LET up[n \in 0..Len(parent)] == IF n = 0 THEN x ELSE parent[up[n - 1]]
  IN up[Len(parent)]

Union(parent, a, b) ==
  LET ra == Find(parent, a)
      rb == Find(parent, b)
  IN IF ra = rb THEN parent ELSE [parent EXCEPT ![rb] = ra]

\* A key of line i joins the line to the first one that declares it.
JoinKey(lines, parent, i, k) ==
  LET owner == Min({j \in 1..i : k \in Range(lines[j].keys)})
  IN IF owner = i THEN parent ELSE Union(parent, i, owner)

\* The keys of line i one after the other.
JoinLine(lines, parent, i) ==
  LET after[n \in 0..Len(lines[i].keys)] ==
        IF n = 0 THEN parent ELSE JoinKey(lines, after[n - 1], i, lines[i].keys[n])
  IN after[Len(lines[i].keys)]

\* The parents when every line has been joined.
JoinedLines(lines) ==
  LET after[i \in 0..Len(lines)] ==
        IF i = 0 THEN [l \in DOMAIN lines |-> l] ELSE JoinLine(lines, after[i - 1], i)
  IN after[Len(lines)]

NotionalOf(lines, S) == FoldSet(LAMBDA i, acc : acc + lines[i].notional, 0, S)

\* project: the correlation groups and their sum.
Project(lines) ==
  LET parent == JoinedLines(lines)
      grouped == {i \in DOMAIN lines : lines[i].grouped}
      roots == {Find(parent, i) : i \in grouped}
  IN [groups |-> {{i \in grouped : Find(parent, i) = r} : r \in roots},
      correlated |-> NotionalOf(lines, grouped)]

-----------------------------------------------------------------------------
(* Properties, each of one input.                                          *)

\* No path of intent transitions that has submitted a transaction signs or
\* submits another one, funds stay reserved along it until it ends, and every
\* intent can end.
IntentNeverResubmits(s) ==
  LET later == ReachedFrom(IntentTable, IntentStates, s)
      next == {t \in IntentStates : <<s, t>> \in IntentTable}
  IN /\ s \in {"submitted", "unknown"} =>
          \A t \in next : ReachedFrom(IntentTable, IntentStates, t) \cap {"signed", "submitted"} = {}
     /\ later \cap IntentTerminal # {}
     /\ (next = {}) <=> ~ReservationHeld(s)

\* Two modules classify trades independently: while exit-only switches alone are
\* on, action_permitted lets through exactly the trades that classify_action calls
\* claim/close.  (No switch is asked about an LP action, and
\* autonomous_action_permitted asks no switch about any.)
RiskClassesAgree(x) ==
  LET on == {s \in x.switches : s.active}
  IN on # {} /\ (\A s \in on : s.mode = "exit_only") =>
       (ActionPermitted(x.switches, x.action) <=> Maturity(x.action) = "claim_close")

\* Whatever thresholds are configured, an autonomous action rests on at least
\* the frozen minimum of forward evidence, and on a person's approval.
PermittedMeetsFrozenMinimum(x) ==
  AutonomousActionPermitted("auto_bounded", x.phase, x.action, TRUE, x.guard) =>
    x.guard.sample >= 30 /\ x.guard.days >= 14 /\ x.guard.drawdown >= -10
      /\ x.guard.ci > 0 /\ x.guard.approved

\* `one good sample is not yet UP`: a source that is up has had two good
\* signals in a row, or one good signal after it was disabled.
UpTakesTwoGoodSignals(signals) ==
  LET n == Len(signals)
      good(s) == OnTime(s) /\ ~s.stale /\ s.failures < 3
  IN HealthAfter(signals) = "up" =>
       n >= 2 /\ good(signals[n]) /\ (good(signals[n - 1]) \/ signals[n - 1].disabled)

\* `No blind round-robin`: the provider chosen depends neither on the order of
\* the pool nor on the candidates that lose.
SelectionIgnoresOrder(cands) ==
  LET best == SelectProvider(cands)
  IN /\ SelectProvider(Reverse(cands)) = best
     /\ \A i \in DOMAIN cands :
          best # <<cands[i]>> => SelectProvider(RemoveAt(cands, i)) = best

\* A strategy in a live stage (approved, canary, active) has been in shadow, paper,
\* validation and approval, along every path the transitions allow.
LiveOnlyAfterShadowAndPaper(stage) ==
  LET without(k) == {e \in ((1..9) \ {k}) \X ((1..9) \ {k}) : StrategyMay(e[1], e[2])}
  IN stage \in LiveReady =>
       \A k \in 2..5 : stage \notin ReachedFrom(without(k), 1..9, 1)

\* A revival reaches its evaluation only with evidence of its own: what is
\* remembered of earlier failures is kept, and never counted as evidence.
MemoryIsNotEvidence(in) ==
  LET r == RunRevival(in)
  IN /\ r.stage = "evaluation" => r.passed /\ in.evidence # <<>>
     /\ IsPrefix(in.memory, r.evidence)

\* Fail closed: forgetting what is known of a token never turns a rejection of
\* the entry gate into an acceptance.
MissingNeverHelps(in) ==
  \A f \in {"age", "liquidity", "marketAge"} :
    EntryGate([in EXCEPT ![f] = Absent]) = "accepted" => EntryGate(in) = "accepted"
      /\ in[f] = Absent

\* A bundle never approves on contradicting or doubled results: the verdict
\* does not depend on the order of the results, and saying a required thing
\* twice, or anything mandatory that is not certain, undoes an approval.
DoubledResultsNeverApprove(b) ==
  LET with(cs) == [b EXCEPT !.components = cs]
  IN /\ Evaluate(with(Reverse(b.components))) = Evaluate(b)
     /\ \A i \in DOMAIN b.components :
          LET c == b.components[i]
          IN c.class = "mandatory" /\ c.name \in RequiredMandatory =>
               \A p \in {"yes", "no", "unknown"} :
                 Evaluate(with(Append(b.components, [c EXCEPT !.pass = p]))) # "approve"

\* The correlation groups are the connected components of the lines that share
\* a key, whatever the order of the lines and of their keys.
GroupsAreComponents(lines) ==
  LET grouped == {i \in DOMAIN lines : lines[i].grouped}
      linked == {e \in grouped \X grouped : Range(lines[e[1]].keys) \cap Range(lines[e[2]].keys) # {}}
  IN Project(lines).groups = {ReachedFrom(linked, grouped, i) : i \in grouped}
=============================================================================
