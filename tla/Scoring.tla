------------------------------ MODULE Scoring -------------------------------
(***************************************************************************)
(* Wallet scoring as pure functions: FIFO matching (scoring.rs), the cost  *)
(* basis of sf/cost_basis.rs, the skill and copyability scores, and the    *)
(* inputs workers::score_wallet feeds them.  Amounts of money are integers *)
(* that every lot amount in use divides, so Decimal arithmetic is exact;   *)
(* rates are percentages.                                                  *)
(***************************************************************************)
EXTENDS Integers, Sequences, SequencesExt, FiniteSets, FiniteSetsExt

NoTime == -1
AtMost(a, b) == IF a < b THEN a ELSE b
Clamp(x, lo, hi) == IF x < lo THEN lo ELSE IF x > hi THEN hi ELSE x
Abs(x) == IF x < 0 THEN -x ELSE x

\* The sum of a sequence of integers.
Total(s) == LET upTo[n \in 0..Len(s)] == IF n = 0 THEN 0 ELSE upTo[n - 1] + s[n] IN upTo[Len(s)]

-----------------------------------------------------------------------------
(* FIFO matching.  A trade is [key, side, amount, usd, time], a lot is     *)
(* [amount, usd, time].                                                    *)

Lot(amount, usd, time) == [amount |-> amount, usd |-> usd, time |-> time]

\* What is left of a lot in scoring.rs: its dollars are never reduced.
ShrunkLot(lot, take) == Lot(lot.amount - take, lot.usd, lot.time)

\* Mutant: cost_basis.rs with scoring.rs's lot.
TakenLotKeepsCost(lot, take) == ShrunkLot(lot, take)

\* What is left of a lot in cost_basis.rs.
TakenLot(lot, take) ==
  Lot(lot.amount - take,
      IF lot.amount = 0 THEN lot.usd ELSE lot.usd - (lot.usd * take) \div lot.amount,
      lot.time)

\* One sell against the lots, oldest first; a sell beyond the inventory stops.
\* The two matchers differ in what they leave of a lot.
LotLeft(matcher, lot, take) ==
  IF matcher = "cost_basis" THEN TakenLot(lot, take) ELSE ShrunkLot(lot, take)

ConsumeLot(acc, lot, matcher) ==
  IF acc.remaining = 0 THEN [acc EXCEPT !.lots = Append(@, lot)]
  ELSE LET take == AtMost(acc.remaining, lot.amount)
           rest == LotLeft(matcher, lot, take)
       IN [remaining |-> acc.remaining - take,
           cost |-> acc.cost + (IF lot.amount = 0 THEN 0 ELSE (lot.usd * take) \div lot.amount),
           opened |-> IF acc.opened = NoTime THEN lot.time ELSE acc.opened,
           lots |-> IF rest.amount = 0 THEN acc.lots ELSE Append(acc.lots, rest)]

ConsumeLots(lots, amount, matcher) ==
  LET after[n \in 0..Len(lots)] ==
        IF n = 0 THEN [remaining |-> amount, cost |-> 0, opened |-> NoTime, lots |-> <<>>]
        ELSE ConsumeLot(after[n - 1], lots[n], matcher)
  IN after[Len(lots)]

HoldSeconds(opened, closed) ==
  IF NoTime \in {opened, closed} THEN NoTime ELSE IF closed > opened THEN closed - opened ELSE 0

\* scoring.rs: proceeds are those of the whole sell, matched or not.
FifoSell(acc, t) ==
  LET c == ConsumeLots(acc.open[t.key], t.amount, "scoring")
  IN [open |-> [acc.open EXCEPT ![t.key] = c.lots],
      matched |-> Append(acc.matched,
        [key |-> t.key, cost |-> c.cost, pnl |-> t.usd - c.cost,
         hold |-> HoldSeconds(c.opened, t.time)])]

FifoStep(acc, t) ==
  IF t.side = "buy"
  THEN [acc EXCEPT !.open[t.key] = Append(@, Lot(t.amount, t.usd, t.time))]
  ELSE FifoSell(acc, t)

KeysOf(trades) == {trades[i].key : i \in DOMAIN trades}

FifoMatch(trades) ==
  LET after[n \in 0..Len(trades)] ==
        IF n = 0 THEN [open |-> [k \in KeysOf(trades) |-> <<>>], matched |-> <<>>]
        ELSE FifoStep(after[n - 1], trades[n])
  IN after[Len(trades)].matched

\* cost_basis.rs: proceeds in proportion to what was matched.
BasisSell(acc, t) ==
  LET c == ConsumeLots(acc.open, t.amount, "cost_basis")
      matched == t.amount - c.remaining
      proceeds == IF t.amount = 0 THEN 0 ELSE (t.usd * matched) \div t.amount
  IN [open |-> c.lots,
      matched |-> Append(acc.matched,
        [key |-> t.key, cost |-> c.cost, pnl |-> proceeds - c.cost,
         hold |-> HoldSeconds(c.opened, t.time), unmatched |-> c.remaining])]

BasisStep(acc, t) ==
  IF t.side = "buy" THEN [acc EXCEPT !.open = Append(@, Lot(t.amount, t.usd, t.time))]
  ELSE BasisSell(acc, t)

\* The swaps of one (chain, wallet, token) = key, in a stable sort by time; an
\* unknown time is the earliest.
GroupOf(swaps, k) == {i \in DOMAIN swaps : swaps[i].key = k}
SortTime(t) == IF t.time = NoTime THEN 0 ELSE t.time
Sooner(swaps, i, j) ==
  \/ SortTime(swaps[i]) < SortTime(swaps[j])
  \/ SortTime(swaps[i]) = SortTime(swaps[j]) /\ i < j
SoonerCount(swaps, k, i) == Cardinality({j \in GroupOf(swaps, k) : Sooner(swaps, j, i)})
InOrder(swaps, k) ==
  [n \in 1..Cardinality(GroupOf(swaps, k)) |->
     swaps[CHOOSE i \in GroupOf(swaps, k) : SoonerCount(swaps, k, i) = n - 1]]

BasisRun(s) ==
  LET after[n \in 0..Len(s)] == IF n = 0 THEN [open |-> <<>>, matched |-> <<>>]
                                ELSE BasisStep(after[n - 1], s[n])
  IN after[Len(s)]
BasisOf(swaps, k) == BasisRun(InOrder(swaps, k))

-----------------------------------------------------------------------------
(* Scores, in hundredths of a point before they are truncated.             *)

\* Win rate weighs 20, its nearness to one half 10.
WinAndConsistency(win) == 20 * Clamp(win, 0, 100) + 10 * Clamp(100 - Abs(win - 50), 0, 100)

\* skill_score: roi in units of 1 (that is 100%), rates in percent.
SkillScore(in) ==
  Clamp(500 * (Clamp(in.roi, -1, 5) + 1) + WinAndConsistency(in.win)
        + 15 * Clamp(in.early, 0, 100) + 20 * AtMost(in.trades, 50)
        + 15 * Clamp(in.agreement, 0, 100),
        0, 10000) \div 100

HoldPenalty(hold) ==
  IF hold = NoTime THEN 0 ELSE IF hold <= 5 THEN 60 ELSE IF hold <= 60 THEN 30
  ELSE IF hold <= 300 THEN 10 ELSE 0

CopyabilityScore(in) ==
  Clamp(100 - HoldPenalty(in.hold)
        - (IF in.liquidity = NoTime THEN 0 ELSE IF in.liquidity < 10000 THEN 25
           ELSE IF in.liquidity < 50000 THEN 10 ELSE 0)
        - (IF in.mev >= 80 THEN 25 ELSE IF in.mev >= 50 THEN 10 ELSE 0)
        - (IF in.hold # NoTime /\ in.hold <= 5 THEN 15 ELSE 0)
        - (IF in.mev >= 90 THEN 30 ELSE 0),
        0, 100)

ScoreConfig == [minTrades |-> 20, minTokens |-> 5, fullSkill |-> 70, fullCopy |-> 60,
                floor |-> 80, cap |-> 49]

\* compute_wallet_score.
WalletScore(in) ==
  LET skill == SkillScore(in)
      copy == CopyabilityScore(in)
      base == (skill + copy) \div 2
  IN [skill |-> skill, copyability |-> copy,
      conviction |-> AtMost(base, IF in.completeness < ScoreConfig.floor THEN ScoreConfig.cap ELSE 100),
      provisional |-> in.trades < ScoreConfig.minTrades \/ in.tokens < ScoreConfig.minTokens]

\* workers::score_wallet: what it knows of a wallet; everything else is a constant.
InputsFrom(matched) ==
  LET n == Len(matched)
      holds == SelectSeq(matched, LAMBDA m : m.hold # NoTime)
      wins == Len(SelectSeq(matched, LAMBDA m : m.pnl > 0))
  IN [trades |-> Len(SelectSeq(matched, LAMBDA m : Abs(m.pnl) >= 1)),
      tokens |-> Cardinality({matched[i].key : i \in DOMAIN matched}),
      win |-> IF n = 0 THEN 0 ELSE (100 * wins) \div n,
      hold |-> IF holds = <<>> THEN NoTime ELSE Total([i \in DOMAIN holds |-> holds[i].hold]) \div Len(holds),
      roi |-> 0, early |-> 0, completeness |-> 100, mev |-> 0, agreement |-> 50,
      liquidity |-> NoTime]

ScoreWallet(trades) == WalletScore(InputsFrom(FifoMatch(trades)))

-----------------------------------------------------------------------------
(* Properties, each of one input.                                          *)

Costs(matched) == [i \in DOMAIN matched |-> matched[i].cost]
Dollars(lots) == [i \in DOMAIN lots |-> lots[i].usd]
Paid(trades, K) ==
  Total([i \in DOMAIN trades |->
           IF trades[i].side = "buy" /\ trades[i].key \in K THEN trades[i].usd ELSE 0])

\* cost_basis.rs invents no money, and loses none of what bought tokens: for
\* every wallet and token the cost of the matched positions and of the open lots
\* is what the buys cost.  (The dollars of a buy of no tokens go with its lot.)
CostIsConserved(swaps) ==
  \A k \in KeysOf(swaps) :
    LET b == BasisOf(swaps, k)
        accounted == Total(Costs(b.matched)) + Total(Dollars(b.open))
    IN /\ accounted <= Paid(swaps, {k})
       /\ (\A i \in GroupOf(swaps, k) : swaps[i].side = "buy" => swaps[i].amount # 0) =>
             accounted = Paid(swaps, {k})

\* Swaps delivered in another order give the same positions when their times
\* differ.
DeliveryOrderIsIrrelevant(swaps) ==
  \A k \in KeysOf(swaps) :
    (\A i, j \in GroupOf(swaps, k) : i # j => SortTime(swaps[i]) # SortTime(swaps[j])) =>
      BasisOf(swaps, k) = BasisOf(Reverse(swaps), k)

\* Two wallets that trade one token never consume each other's inventory: what
\* one realizes is what it realizes without any one swap of the other.
WalletsDoNotMix(swaps) ==
  \A i \in DOMAIN swaps : \A k \in KeysOf(swaps) \ {swaps[i].key} :
    BasisOf(swaps, k) = BasisOf(RemoveAt(swaps, i), k)

\* A better win rate never lowers the skill score, although consistency is
\* taken away on the way from one half to one.
SkillRewardsWinning(in) ==
  \A w \in in.win..100 : SkillScore([in EXCEPT !.win = w]) >= SkillScore(in)

\* Holding longer never lowers the copyability score, at any band edge.
LongerHoldCopiesBetter(in) ==
  \A h \in {0, 5, 6, 60, 61, 300, 301} :
    h >= in.hold /\ in.hold # NoTime =>
      CopyabilityScore([in EXCEPT !.hold = h]) >= CopyabilityScore(in)

\* `cost is proportional to the consumed lot amount`: what the sells of a token
\* cost is never more than what was paid for it.
MatchedCostIsPaid(trades) ==
  Total(Costs(FifoMatch(trades))) <= Paid(trades, KeysOf(trades))

\* `Ultra-fast profitable wallets can score high skill`: a wallet whose fifty
\* and more closed positions in five tokens all won reaches the skill an entry
\* asks for.
FlawlessWalletQualifies(trades) ==
  LET won == FifoMatch(trades)
  IN /\ Len(won) >= 50 /\ Cardinality(KeysOf(won)) >= 5
     /\ \A i \in DOMAIN won : won[i].pnl > 0
     => ScoreWallet(trades).skill >= ScoreConfig.fullSkill
=============================================================================
