---------------------------- MODULE WalletPolicy ----------------------------
(***************************************************************************)
(* Wallet labels and the disposition they give (db.rs, filter.rs), and the *)
(* readers of that policy: automatic classification, scoring, deep sync    *)
(* and the buyers an evaluation may count (workers.rs, ingest.rs).  Labels *)
(* belong to a workspace, may expire, and are revoked, never deleted.      *)
(* Every reader reads first and acts in a later statement.                 *)
(***************************************************************************)
EXTENDS Naturals, FiniteSets, Sequences, FiniteSetsExt

CONSTANTS WpSpaces, Wallets,
          WpMaxLabels,   \* bound on the rows of wallet_labels
          WpMaxTime,     \* bound on the clock
          WpReaders      \* concurrent readers of the policy

Never == 99
ASSUME WpAssumption == WpMaxTime \in Nat /\ WpMaxTime < Never /\ WpMaxLabels \in Nat

VARIABLES wpLabels,   \* rows in insertion order: [ws, wallet, kind, disp, manual, expires, revoked]
          wpNow,
          wpScores,   \* wallets with a stored score (scores have no workspace)
          wpR,        \* readers: [pc, ws, wallet, left, out]
          wpAllowed   \* history: per reader, wallets that policy allowed since it started

wpVars == <<wpLabels, wpNow, wpScores, wpR, wpAllowed>>

Dispositions == {"skip", "flow_only", "watch", "score"}
Rank == [skip |-> 0, flow_only |-> 1, watch |-> 2, score |-> 3]
NoDisposition == "none"
PolicyError == "error"
NoLabel == [ws |-> "-", wallet |-> "-", kind |-> "-", disp |-> NoDisposition, manual |-> FALSE,
            expires |-> 0, revoked |-> Never]

-----------------------------------------------------------------------------
(* The one authority on policy.                                            *)

ActiveRow(l, ws, w, now) ==
  l.ws = ws /\ l.wallet = w /\ l.revoked = Never /\ l.expires > now

\* The positions of the rows the query returns.
ActiveRows(labels, ws, w, now) == {i \in DOMAIN labels : ActiveRow(labels[i], ws, w, now)}

\* Manual before automatic, then restrictiveness; an equal row changes nothing.
Better(candidate, best) ==
  \/ best = NoLabel
  \/ candidate.manual /\ ~best.manual
  \/ candidate.manual = best.manual /\ Rank[candidate.disp] < Rank[best.disp]

\* The scan over the rows: the best of the first n.
Scan(labels, rows) ==
  LET best[n \in 0 .. Len(labels)] ==
        IF n = 0 THEN NoLabel
        ELSE IF n \in rows /\ Better(labels[n], best[n - 1]) THEN labels[n] ELSE best[n - 1]
  IN best
BestRow(labels, rows) == Scan(labels, rows)[Len(labels)]

\* A disposition outside the vocabulary is an error.
ScanRows(labels, rows) ==
  IF \E i \in rows : labels[i].disp \notin Dispositions THEN PolicyError
  ELSE IF rows = {} THEN NoDisposition ELSE BestRow(labels, rows).disp

ActiveDisposition(labels, ws, w, now) == ScanRows(labels, ActiveRows(labels, ws, w, now))
ManualDisposition(labels, ws, w, now) ==
  ScanRows(labels, {i \in ActiveRows(labels, ws, w, now) : labels[i].manual})

\* No label is `watch`: monitored, no alpha.
EffectiveDisposition(labels, ws, w, now) ==
  LET d == ActiveDisposition(labels, ws, w, now)
  IN IF d = NoDisposition THEN "watch" ELSE d

AllowsScoring(d) == d = "score"
AllowsDeepSync(d) == d \in Dispositions \ {"skip"}

-----------------------------------------------------------------------------
(* Writers.                                                                *)

Label(ws, w, kind, disp, manual, expires) ==
  [ws |-> ws, wallet |-> w, kind |-> kind, disp |-> disp, manual |-> manual,
   expires |-> expires, revoked |-> Never]

Room(k) == Len(wpLabels) + k <= WpMaxLabels

AddWalletLabel(ws, w) ==
  /\ Room(1)
  /\ \E disp \in Dispositions, expires \in {wpNow + 1, Never} :
       wpLabels' = Append(wpLabels, Label(ws, w, "manual", disp, TRUE, expires))
  /\ UNCHANGED <<wpNow, wpScores, wpR>>

\* import_blocklist_tx: one transaction, a skip label per address of the list.
ImportBlocklist(ws) ==
  \E n \in 1 .. WpMaxLabels : \E list \in [1 .. n -> Wallets] :
    /\ Room(n)
    /\ wpLabels' = wpLabels \o
         [i \in 1 .. n |-> Label(ws, list[i], "manual_block", "skip", TRUE, Never)]
    /\ UNCHANGED <<wpNow, wpScores, wpR>>

\* Mutant: the update has no workspace in its WHERE.
RevokeWalletLabelAnywhere(ws, w, kinds) ==
  /\ wpLabels' = [i \in DOMAIN wpLabels |->
       IF wpLabels[i].wallet = w /\ wpLabels[i].kind \in kinds /\ wpLabels[i].revoked = Never
       THEN [wpLabels[i] EXCEPT !.revoked = wpNow] ELSE wpLabels[i]]
  /\ UNCHANGED <<wpNow, wpScores, wpR>>

\* Rows of this workspace that are still active, expired ones included.
RevokeWalletLabel(ws, w, kinds) ==
  /\ wpLabels' = [i \in DOMAIN wpLabels |->
       IF wpLabels[i].ws = ws /\ wpLabels[i].wallet = w /\ wpLabels[i].kind \in kinds
          /\ wpLabels[i].revoked = Never
       THEN [wpLabels[i] EXCEPT !.revoked = wpNow] ELSE wpLabels[i]]
  /\ UNCHANGED <<wpNow, wpScores, wpR>>

WpTick == wpNow < WpMaxTime /\ wpNow' = wpNow + 1 /\ UNCHANGED <<wpLabels, wpScores, wpR>>

-----------------------------------------------------------------------------
(* Readers.                                                                *)

IdleReader == [pc |-> "idle", ws |-> "-", left |-> {}, out |-> {}]
End(r, out) == wpR' = [wpR EXCEPT ![r] = [IdleReader EXCEPT !.out = out]]

\* classify_bot: an execution-bot label, 100 swaps and a likelihood of 0.9.
AutoSkip(c) == c.executionBot /\ c.likely /\ c.swaps

\* apply_automatic_disposition: a manual label decides; else the automatic
\* skip is written by a later statement.
Classify(r, ws, w) ==
  /\ wpR[r].pc = "idle"
  /\ \E c \in [executionBot : BOOLEAN, likely : {TRUE}, swaps : BOOLEAN] :
       LET manual == ManualDisposition(wpLabels, ws, w, wpNow)
       IN /\ manual # PolicyError
          /\ IF manual = NoDisposition /\ AutoSkip(c)
             THEN wpR' = [wpR EXCEPT ![r] = [pc |-> "auto", ws |-> ws, left |-> {w}, out |-> {}]]
             ELSE End(r, {})
  /\ UNCHANGED <<wpLabels, wpNow, wpScores>>

WriteAutomatic(r) ==
  /\ wpR[r].pc = "auto" /\ Room(1)
  /\ \E w \in wpR[r].left :
       wpLabels' = Append(wpLabels, Label(wpR[r].ws, w, "mev_bot", "skip", FALSE, Never))
  /\ End(r, {})
  /\ UNCHANGED <<wpNow, wpScores>>

\* score_wallet: policy first, then trades, then the score row.
StartScore(r, ws, w) ==
  /\ wpR[r].pc = "idle"
  /\ AllowsScoring(EffectiveDisposition(wpLabels, ws, w, wpNow))
  /\ wpR' = [wpR EXCEPT ![r] = [pc |-> "score", ws |-> ws, left |-> {w}, out |-> {}]]
  /\ UNCHANGED <<wpLabels, wpNow, wpScores>>

StoreScore(r) ==
  /\ wpR[r].pc = "score"
  /\ wpScores' = wpScores \cup wpR[r].left
  /\ End(r, {})
  /\ UNCHANGED <<wpLabels, wpNow>>

\* eligible_signal_buyers: one policy read per buyer, in turn.
StartBuyers(r, ws) ==
  /\ wpR[r].pc = "idle"
  /\ wpR' = [wpR EXCEPT ![r] = [pc |-> "buyers", ws |-> ws, left |-> Wallets, out |-> {}]]
  /\ UNCHANGED <<wpLabels, wpNow, wpScores>>

Collect(x, w, allowed) ==
  [x EXCEPT !.left = @ \ {w}, !.out = IF allowed THEN @ \cup {w} ELSE @]

\* Mutant: whatever is not excluded outright may contribute.
ReadBuyerUnlessSkipped(r) ==
  /\ wpR[r].pc = "buyers" /\ wpR[r].left # {}
  /\ \E w \in wpR[r].left :
       LET d == EffectiveDisposition(wpLabels, wpR[r].ws, w, wpNow)
       IN wpR' = [wpR EXCEPT ![r] = Collect(wpR[r], w, AllowsDeepSync(d))]
  /\ UNCHANGED <<wpLabels, wpNow, wpScores>>

ReadBuyer(r) ==
  /\ wpR[r].pc = "buyers" /\ wpR[r].left # {}
  /\ \E w \in wpR[r].left :
       LET d == EffectiveDisposition(wpLabels, wpR[r].ws, w, wpNow)
       IN IF d = PolicyError THEN End(r, {})
          ELSE wpR' = [wpR EXCEPT ![r] = Collect(wpR[r], w, AllowsScoring(d))]
  /\ UNCHANGED <<wpLabels, wpNow, wpScores>>

\* best_score_among reads the scores of exactly this set.
BuyersDone(r) ==
  /\ wpR[r].pc = "buyers" /\ wpR[r].left = {}
  /\ End(r, wpR[r].out \cap wpScores)
  /\ UNCHANGED <<wpLabels, wpNow, wpScores>>

-----------------------------------------------------------------------------
WpInit ==
  /\ wpLabels = <<>> /\ wpNow = 0 /\ wpScores = {}
  /\ wpR = [r \in WpReaders |-> IdleReader]
  /\ wpAllowed = [r \in WpReaders |-> {}]

Scorable(labels, ws, now) == {w \in Wallets : AllowsScoring(EffectiveDisposition(labels, ws, w, now))}

\* The history variable: what policy has allowed since the reader started.
Observe ==
  wpAllowed' = [r \in WpReaders |->
    IF wpR'[r].pc = "idle" THEN (IF wpR'[r].out = {} THEN {} ELSE wpAllowed[r])
    ELSE IF wpR'[r].pc # "buyers" THEN {}
    ELSE (IF wpR[r].pc = "idle" THEN {} ELSE wpAllowed[r])
         \cup Scorable(wpLabels', wpR'[r].ws, wpNow')]

WpStep ==
  \/ \E ws \in WpSpaces, w \in Wallets :
       \/ AddWalletLabel(ws, w)
       \/ \E kinds \in {{"manual"}, {"manual", "manual_block", "mev_bot"}} :
            RevokeWalletLabel(ws, w, kinds)
       \/ \E r \in WpReaders : Classify(r, ws, w) \/ StartScore(r, ws, w)
  \/ \E ws \in WpSpaces : ImportBlocklist(ws) \/ \E r \in WpReaders : StartBuyers(r, ws)
  \/ \E r \in WpReaders : WriteAutomatic(r) \/ StoreScore(r) \/ ReadBuyer(r) \/ BuyersDone(r)
  \/ WpTick

WpNext == WpStep /\ Observe

WpSpec == WpInit /\ [][WpNext]_wpVars

-----------------------------------------------------------------------------
(* Properties.                                                             *)

\* Manual labels are authoritative whenever they were written: an automatic
\* skip that lands late (after the manual label it did not see) never changes
\* the answer, and among the rows that count the most restrictive one wins.
ManualIsAuthoritative ==
  \A ws \in WpSpaces, w \in Wallets :
    LET rows == ActiveRows(wpLabels, ws, w, wpNow)
        manual == {i \in rows : wpLabels[i].manual}
        top == IF manual # {} THEN manual ELSE rows
        d == ActiveDisposition(wpLabels, ws, w, wpNow)
    IN /\ top = {} <=> d = NoDisposition
       /\ top # {} => Rank[d] = Min({Rank[wpLabels[i].disp] : i \in top})

\* A step of one workspace leaves every other workspace's policy alone.
TenantsKeepTheirPolicy ==
  wpNow' = wpNow =>
    Cardinality({ws \in WpSpaces : \E w \in Wallets :
      ActiveDisposition(wpLabels', ws, w, wpNow) # ActiveDisposition(wpLabels, ws, w, wpNow)}) <= 1

\* Label history is append-only: a row is revoked once, at the time that is kept.
LabelsKeepTheirHistory ==
  \A i \in DOMAIN wpLabels :
    /\ i \in DOMAIN wpLabels'
    /\ wpLabels[i].revoked # Never => wpLabels'[i] = wpLabels[i]

\* What a statement on labels may never do, whoever runs it: change another
\* tenant's policy or the history of a revoked row.
LabelsAreSafe == [][TenantsKeepTheirPolicy /\ LabelsKeepTheirHistory]_wpVars

\* Whoever contributes alpha was allowed to by this workspace's policy at some
\* moment of the evaluation, although the buyers are read one by one while
\* labels are written, revoked and expire.
ContributorsWereAllowed ==
  \A r \in WpReaders : wpR[r].out \subseteq wpAllowed[r]

\* The policy is respected by those who write it late and by those who read it
\* in several statements.
PolicyIsRespected == ManualIsAuthoritative /\ ContributorsWereAllowed

-----------------------------------------------------------------------------
(* The inductive invariant.                                                *)

LabelRows == [ws : WpSpaces, wallet : Wallets, kind : {"manual", "manual_block", "mev_bot"},
              disp : Dispositions, manual : BOOLEAN, expires : Nat, revoked : Nat]
Readers == [pc : {"idle", "auto", "score", "buyers"}, ws : WpSpaces \cup {"-"},
            left : SUBSET Wallets, out : SUBSET Wallets]

\* A reader at work is in a workspace; only one that reads buyers collects any.
ReaderIsSound(r) ==
  /\ wpR[r].pc # "idle" => wpR[r].ws \in WpSpaces
  /\ wpR[r].pc \in {"auto", "score"} => wpR[r].out = {}

WpIndInv ==
  /\ wpLabels \in Seq(LabelRows) /\ wpNow \in Nat
  /\ wpR \in [WpReaders -> Readers] /\ \A r \in WpReaders : ReaderIsSound(r)
  /\ wpAllowed \in [WpReaders -> SUBSET Wallets] /\ ContributorsWereAllowed
=============================================================================
