---------------------------- MODULE MCAlgorithms ----------------------------
(***************************************************************************)
(* The pure algorithms over bounded families of inputs.                    *)
(***************************************************************************)
EXTENDS Algorithms

\* The sequences of at most n members of S.
SeqsUpTo(S, n) == {SubSeq(s, 1, k) : s \in [1..n -> S], k \in 0..n}

-----------------------------------------------------------------------------
(* Resolver: keys spelled in two ways, edges that are weak, expired or of  *)
(* the anchor itself, and a factory that is also the deployer.             *)

K(c, i) == [chain |-> c, id |-> i]
Edge(type, from, to, truth, until) ==
  [type |-> type, from |-> from, to |-> to, truth |-> truth, evidence |-> {"e"},
   validFrom |-> 1, validUntil |-> until, occurred |-> 3]
Edges ==
  {Edge("deployed_by", K("sol", "D"), K("solana", "U"), "confirmed", Open),
   Edge("deployed_by", K("solana", "D"), K("solana", "T"), "confirmed", Open),
   Edge("funded_by", K("sol", "F"), K("sol", "U"), "disputed", Open),
   Edge("funded_by", K("sol", "D"), K("sol", "W"), "confirmed", Open),
   Edge("funded_by", K("solana", "D"), K("solana", "W"), "disputed", Open),
   Edge("reused_social_link", K("sol", "W"), K("X", "u1"), "confirmed", Open),
   Edge("reused_social_link", K("solana", "W"), K("x", "u1"), "disputed", Open),
   Edge("reused_social_link", K("solana", "W"), K("x", "u1"), "confirmed", 4),
   Edge("reused_social_link", K("solana", "U"), K("x", "u1"), "confirmed", Open),
   Edge("cross_chain_deployment", K("solana", "T"), K("eth", "V"), "confirmed", Open),
   Edge("cross_chain_deployment", K("sol", "T"), K("solana", "V"), "confirmed", Open),
   Edge("same_authority", K("solana", "D"), K("solana", "U"), "confirmed", 4)}
ResolverInput(f, es, b) ==
  [anchor |-> [token |-> K("sol", "T"), deployer |-> K("sol", "D"), funder |-> K("solana", "F"),
               authority |-> K("sol", "D"), feePayer |-> NoKey, factory |-> f,
               socials |-> <<K("X", "u1")>>],
   nodes |-> <<[type |-> "token", key |-> K("solana", "T")], [type |-> "token", key |-> K("sol", "U")],
               [type |-> "wallet", key |-> K("solana", "W")]>>,
   edges |-> es, bindings |-> b, now |-> 5]
MCResolverInputs ==
  {ResolverInput(f, es, b) :
     f \in {NoKey, K("solana", "D")}, es \in SeqsUpTo(Edges, 3),
     b \in {{}, {[platform |-> "x", user |-> "u1", handles |-> {"h"}]}}}

Refs == {"a", "b", "c", "d"}
MCCitationInputs ==
  {[deps |-> d, r1 |-> p[1], r2 |-> p[2]] :
     d \in {<< <<"a", "b">>, <<"b", "c">> >>, << <<"b", "c">>, <<"a", "b">>, <<"a", "d">> >>,
            << <<"a", "b">>, <<"c", "d">> >>, << <<"a", "b">>, <<"c", "b">> >>},
     p \in Refs \X Refs}

-----------------------------------------------------------------------------
(* Case repair: up to three cases of two identities, with every state of   *)
(* their alerts.                                                           *)

Case(id, group, first, evidence) ==
  [group |-> group, first |-> first, facts |-> id, score |-> id,
   stage |-> IF id = 2 THEN "deployed" ELSE "funded",
   evidence |-> IF evidence THEN {<<"seen", id>>} ELSE ScalarEvidence]
Store(n, v, a, col) ==
  [cases |-> [id \in 1..n |-> Case(id, v[id][1], v[id][2], v[id][3])],
   events |-> [e \in 1..n |-> e],
   alerts |-> {[subject |-> i, dest |-> "d", state |-> a[i], case |-> i] :
                 i \in {j \in 1..n : a[j] # "none"}},
   uidx |-> FALSE, caseColumn |-> col]
MCStoreInputs ==
  {Store(n, v, a, col) : n \in 1..3, v \in [1..3 -> {"g", "h"} \X {1, 2} \X BOOLEAN],
                         a \in [1..3 -> {"none", "pending", "sent"}], col \in BOOLEAN}

-----------------------------------------------------------------------------
(* Scoring: amounts and dollars divide evenly.                             *)

Swaps(amounts, times) ==
  [key : {<<"w1", "t">>, <<"w2", "t">>}, side : {"buy", "sell"}, amount : amounts, usd : {12}, time : times]
MCSwapInputs == SeqsUpTo(Swaps({1, 2}, {NoTime, 1, 2}), 3) \cup SeqsUpTo(Swaps({0, 1}, {NoTime, 1}), 3)
MCRateInputs == [win : {0, 25, 50, 60, 75, 100}, hold : {NoTime, 0, 5, 6, 60, 61, 300, 301},
          mev : {0, 50, 80, 90}, liquidity : {NoTime, 5000, 20000, 60000}, roi : {0, 5},
          early : {0}, trades : {0, 50}, agreement : {50}]
Trade(side, amount, usd, time) ==
  [key |-> 1, side |-> side, amount |-> amount, usd |-> usd, time |-> time]
Trades == {Trade("buy", 2, 12, 1), Trade("sell", 1, 12, 2), Trade("sell", 2, 24, 3)}
\* five tokens bought once and sold in n parts, each for more than the whole cost
SellOffs(n, proceeds, hold) ==
  [i \in 1..(5 + n) |->
     [key |-> i % 5, side |-> IF i <= 5 THEN "buy" ELSE "sell", amount |-> IF i <= 5 THEN 12 ELSE 1,
      usd |-> IF i <= 5 THEN 27720 ELSE proceeds, time |-> IF i <= 5 THEN i ELSE i + hold]]
MCTradeInputs ==
  SeqsUpTo(Trades, 4)
    \cup {SellOffs(n, p, h) : n \in {1, 20, 50, 60}, p \in {1, 55440}, h \in {3, 400}}

-----------------------------------------------------------------------------
(* Replay: rows before, at and after the time asked for.                   *)

Rows(f) == {[at |-> t, value |-> f[t]] : t \in {u \in DOMAIN f : f[u] # "none"}}
MCReplayInputs ==
  {[rows |-> Rows(f), time |-> t,
    mentions |-> {[id |-> 1, version |-> 1], [id |-> 1, version |-> 2]},
    messages |-> {[id |-> 1, version |-> 1, at |-> v[1]], [id |-> 1, version |-> 2, at |-> v[2]]}] :
     f \in [0..3 -> {"none", "a", "b"}], t \in 0..3, v \in (0..3) \X (0..3)}
\* one snapshot at each edge of a horizon, missing, without a value or with one;
\* two of one moment in either order; and a known one about the limit
Snapshot(t, v) == [at |-> t, value |-> IF v = 0 THEN Unknown ELSE v]
Edged(f) == SelectSeq([n \in 1..8 |-> Snapshot(<<0, 1, 60, 61, 300, 301, 900, 901>>[n],
                                               IF f[n] = 1 THEN n + 5 ELSE f[n])],
                      LAMBDA r : r.value # -2)
MCMetricInputs ==
  {[rows |-> Edged(f), signal |-> 0] : f \in [1..8 -> {-2, 0, 1}]}
  \cup {[rows |-> <<Snapshot(1, v[1]), Snapshot(1, v[2]), Snapshot(61, v[3])>>, signal |-> 0] :
          v \in [1..3 -> {0, 3, 4}]}
  \cup {[rows |-> [n \in 1..(k + 2) |-> IF n <= k THEN Snapshot(1, 0) ELSE Snapshot(n, v[n - k])],
         signal |-> 0] : k \in 47..51, v \in [1..2 -> {0, 3, 4}]}

-----------------------------------------------------------------------------
(* The rules of src/sf.                                                    *)

MCActionInputs ==
  [switches : SUBSET [mode : {"halt", "exit_only"}, active : BOOLEAN], action : TradeActions]
MCThresholds == [sample : {10, 30}, days : {7, 14}, drawdown : {-20, -10, 0}, ci : {-1, 0}, approval : BOOLEAN]
MCGuards == [thresholds : MCThresholds, sample : {10, 30}, days : {7, 14}, drawdown : {-15, -10},
             ci : {0, 1}, approved : BOOLEAN, evidence : {{}, {"e"}}]
MCAutonomyInputs ==
  [phase : Range(RolloutPhases), action : {"buy", "claim_fees"}, guard : MCGuards]
Sig(success, stale, failures, disabled) ==
  [success |-> success, now |-> 10, cadence |-> 5, stale |-> stale, failures |-> failures,
   disabled |-> disabled]
MCSignals == {Sig(8, FALSE, 0, FALSE), Sig(5, FALSE, 2, FALSE), Sig(4, FALSE, 0, FALSE),
            Sig(11, FALSE, 0, FALSE), Sig(8, TRUE, 0, FALSE), Sig(8, FALSE, 3, FALSE),
            Sig(Absent, FALSE, 0, FALSE), Sig(8, FALSE, 0, TRUE)}
MCHealthInputs == SeqsUpTo(MCSignals, 3)
MCCandidates(n) ==
  [id : {n}, role : {"mandatory", "vendor"}, health : {"up", "silent"}, weight : {500, 1000, 2000},
   latency : {Absent, 5}, cost : {Absent}, usable : {n # 3}] \cup
  [id : {n}, role : {"mandatory"}, health : {"down"}, weight : {2000}, latency : {5}, cost : {1}, usable : {TRUE}]
MCPoolInputs ==
  {<<c2, c1>> : c1 \in MCCandidates(1), c2 \in MCCandidates(2)}
    \cup {<<c1, c2, c3>> : c1 \in MCCandidates(1), c2 \in MCCandidates(2), c3 \in MCCandidates(3)}
MCRevivalInputs == [match : BOOLEAN, wake : BOOLEAN, gate : BOOLEAN, quality : {Absent, 1},
             evidence : {<<>>, <<"new">>}, memory : {<<>>, <<"failed">>}]
MCEntryInputs == [clusters : {1, 2}, buys : {2}, lifecycle : {TRUE}, age : {Absent, 24, 25},
            liquidity : {Absent, 19999, 20000}, flags : {{}, {"wash"}, {"rugged"}},
            marketAge : {Absent, 300, 301}, skill : {69, 70}, copyability : {60}, completeness : {79, 80}]
Component(class, name, pass) == [class |-> class, name |-> name, pass |-> pass]
Required(drop) == SetToSeq({Component("mandatory", n, "yes") : n \in RequiredMandatory \ drop})
Extras == {Component("mandatory", "security", "no"), Component("mandatory", "own", "unknown"),
           Component("halt", "drawdown", "yes"), Component("halt", "drawdown", "no"),
           Component("mandatory", "security", "yes")}
MCDecisionInputs ==
  {[evidence |-> e, freshness |-> TRUE, missing |-> m, components |-> Required(d) \o extra] :
     e \in BOOLEAN, m \in BOOLEAN, d \in {{}, {"security"}}, extra \in SeqsUpTo(Extras, 2)}
MCLines == {[notional |-> 10, keys |-> k, grouped |-> TRUE] :
            k \in {<<>>, <<1>>, <<2>>, <<1, 2>>, <<2, 3>>, <<3, 1>>, <<4, 3>>}}
           \cup {[notional |-> 10, keys |-> <<>>, grouped |-> FALSE]}
MCLineInputs == SeqsUpTo(MCLines, 4)
=============================================================================
