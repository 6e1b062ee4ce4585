---------------------------- MODULE RecentProofs ----------------------------
(***************************************************************************)
(* Proofs about the append-only store of recent events: every fact is      *)
(* published once, and a step changes the views for a reason only.         *)
(***************************************************************************)
EXTENDS RecentPipeline, WellFoundedInduction, TLAPS

(***************************************************************************)
(* The operators of the store.                                             *)
(***************************************************************************)

Stored(rows) == {rows[i] : i \in DOMAIN rows}

\* An append adds one row at the end and moves none.
LEMMA Appended ==
  ASSUME NEW rows, rows \in Seq(Stored(rows)), NEW row
  PROVE  /\ Append(rows, row) \in Seq(Stored(Append(rows, row)))
         /\ Len(rows) \in Nat
         /\ DOMAIN rows = 1..Len(rows)
         /\ DOMAIN Append(rows, row) = 1..(Len(rows) + 1)
         /\ Len(Append(rows, row)) = Len(rows) + 1
         /\ Append(rows, row)[Len(rows) + 1] = row
         /\ \A i \in 1..Len(rows) : Append(rows, row)[i] = rows[i]
<1> DEFINE S == Stored(rows) \union {row}
           new == Append(rows, row)
<1>1. Len(rows) \in Nat /\ DOMAIN rows = 1..Len(rows)
  OBVIOUS
<1>2. \A i \in 1..Len(rows) : rows[i] \in S
  BY <1>1 DEF Stored
<1>3. rows \in Seq(S)
  <2>1. \A i \in 1..Len(rows) : rows[i] \in Stored(rows)
    BY <1>1 DEF Stored
  <2> HIDE DEF S
  <2> QED
    BY <1>1, <1>2
<1>4. row \in S
  OBVIOUS
<1>5. /\ new \in Seq(S)
      /\ Len(new) = Len(rows) + 1
      /\ new[Len(rows) + 1] = row
      /\ \A i \in 1..Len(rows) : new[i] = rows[i]
  <2> HIDE DEF S
  <2> QED
    BY <1>1, <1>3, <1>4
<1>6. DOMAIN new = 1..(Len(rows) + 1)
  <2> HIDE DEF S
  <2> QED
    BY <1>1, <1>5
<1>7. new \in Seq(Stored(new))
  <2>1. \A i \in 1..Len(new) : new[i] \in Stored(new)
    BY <1>5, <1>6 DEF Stored
  <2> HIDE DEF new, S
  <2> QED
    BY <1>1, <1>5, <1>6, <2>1
<1> QED
  BY <1>1, <1>5, <1>6, <1>7

\* A bounded non-empty set of numbers has a greatest element.
LEMMA GreatestExists ==
  ASSUME NEW S, S \subseteq Nat, S # {}, NEW n \in Nat, \A s \in S : s <= n
  PROVE  \E m \in S : \A s \in S : s <= m
<1> DEFINE Before == {p \in Nat \X Nat : p[1] < p[2]}
           gaps == {n - s : s \in S}
<1>1. IsWellFoundedOn(Before, Nat)
  BY NatLessThanWellFounded DEF OpToRel
<1>2. gaps \subseteq Nat /\ gaps # {}
  <2>1. \A s \in S : s \in Nat /\ s <= n
    OBVIOUS
  <2>2. \A s \in S : n - s \in Nat
    BY <2>1
  <2>3. \A g \in gaps : g \in Nat
    BY <2>2
  <2> QED
    BY <2>3
<1>3. PICK g \in gaps : \A h \in gaps : ~(<<h, g>> \in Before)
  <2> HIDE DEF Before, gaps
  <2> QED
    BY <1>1, <1>2, WFMin
<1>4. \A k, j \in Nat : ~(<<k, j>> \in Before) => j <= k
  OBVIOUS
<1>5. PICK m \in S : g = n - m
  OBVIOUS
<1>6. ASSUME NEW s \in S PROVE s <= m
  <2>1. n - s \in gaps /\ n - s \in Nat /\ g \in Nat
    BY <1>2
  <2>2. g <= n - s
    <3> HIDE DEF Before, gaps
    <3> QED
      BY <1>3, <1>4, <2>1
  <2>3. s \in Nat /\ m \in Nat /\ n \in Nat
    OBVIOUS
  <2> QED
    BY <1>5, <2>2, <2>3
<1> QED
  BY <1>6

\* Two rows that are each at least as new as the other are the same row.
LEMMA NewestIsOne ==
  ASSUME NEW rows, NEW i \in Nat, NEW j \in Nat, rows[i].at \in Nat, rows[j].at \in Nat,
         Newer(rows, i, j), Newer(rows, j, i)
  PROVE  i = j
BY DEF Newer

LEMMA LatestUnique ==
  ASSUME NEW rows, NEW S, S \subseteq Nat, \A i \in S : rows[i].at \in Nat,
         NEW k \in S, \A j \in S : Newer(rows, k, j)
  PROVE  LatestOf(rows, S) = k
<1>1. PICK i \in S : i = LatestOf(rows, S) /\ \A j \in S : Newer(rows, i, j)
  BY DEF LatestOf
<1>2. Newer(rows, i, k) /\ Newer(rows, k, i) /\ i \in Nat /\ k \in Nat
  BY <1>1
<1> QED
  BY <1>1, <1>2, NewestIsOne

\* The latest row of a non-empty set of rows: the greatest timestamp, and the
\* greatest id among the rows that have it.
LEMMA LatestExists ==
  ASSUME NEW rows, NEW S, S \subseteq Nat, S # {}, NEW n \in Nat, NEW c \in Nat,
         \A i \in S : i <= n /\ rows[i].at \in Nat /\ rows[i].at <= c
  PROVE  LatestOf(rows, S) \in S /\ \A j \in S : Newer(rows, LatestOf(rows, S), j)
<1> DEFINE ats == {rows[i].at : i \in S}
<1>1. PICK m \in ats : \A a \in ats : a <= m
  <2>1. ats \subseteq Nat /\ ats # {} /\ \A a \in ats : a <= c
    OBVIOUS
  <2> HIDE DEF ats
  <2> QED
    BY <2>1, GreatestExists
<1> DEFINE T == {i \in S : rows[i].at = m}
<1>2. PICK k \in T : \A i \in T : i <= k
  <2>1. T \subseteq Nat /\ T # {} /\ \A i \in T : i <= n
    BY <1>1
  <2> HIDE DEF T
  <2> QED
    BY <2>1, GreatestExists
<1>3. k \in S /\ rows[k].at = m
  BY <1>2
<1>4. ASSUME NEW j \in S PROVE Newer(rows, k, j)
  <2>1. rows[j].at <= m /\ rows[j].at \in Nat /\ m \in Nat /\ j \in Nat /\ k \in Nat
    BY <1>1, <1>3
  <2>2. rows[j].at = m => j <= k
    BY <1>2
  <2> QED
    BY <1>3, <2>1, <2>2 DEF Newer
<1> QED
  BY <1>3, <1>4, LatestUnique

\* What the provers need to know of the store.
Rows(rows, clock) ==
  /\ rows \in Seq(Stored(rows))
  /\ \A i \in DOMAIN rows : rows[i].at \in Nat /\ rows[i].at <= clock

\* The current disclosure is one of the disclosures, and none is newer.
LEMMA CurrentIsNewest ==
  ASSUME NEW rows, NEW c \in Nat, Rows(rows, c), NEW ws, NEW a
  PROVE  /\ CurrentCoverage(rows, ws, a) \in 0..Len(rows)
         /\ CoverageRows(rows, ws, a) = {} => CurrentCoverage(rows, ws, a) = 0
         /\ CoverageRows(rows, ws, a) # {} =>
              /\ CurrentCoverage(rows, ws, a) \in CoverageRows(rows, ws, a)
              /\ CurrentCoverage(rows, ws, a) # 0
              /\ \A j \in CoverageRows(rows, ws, a) :
                    Newer(rows, CurrentCoverage(rows, ws, a), j)
<1> DEFINE S == CoverageRows(rows, ws, a)
<1>1. Len(rows) \in Nat /\ DOMAIN rows = 1..Len(rows)
  BY DEF Rows
<1>2. S \subseteq 1..Len(rows) /\ S \subseteq Nat
  BY <1>1 DEF CoverageRows
<1>3. \A i \in S : i <= Len(rows) /\ rows[i].at \in Nat /\ rows[i].at <= c
  BY <1>1, <1>2 DEF Rows
<1>4. CurrentCoverage(rows, ws, a) = LatestOf(rows, S)
  BY DEF CurrentCoverage
<1> HIDE DEF S
<1>5. CASE S = {}
  <2>1. LatestOf(rows, S) = 0
    BY <1>5 DEF LatestOf
  <2> QED
    BY <1>1, <1>4, <1>5, <2>1 DEF S
<1>6. CASE S # {}
  <2>1. LatestOf(rows, S) \in S /\ \A j \in S : Newer(rows, LatestOf(rows, S), j)
    BY <1>1, <1>2, <1>3, <1>6, LatestExists
  <2>2. LatestOf(rows, S) \in 1..Len(rows)
    BY <1>2, <2>1
  <2>3. LatestOf(rows, S) \in 0..Len(rows) /\ LatestOf(rows, S) # 0
    BY <1>1, <2>2
  <2> QED
    BY <1>4, <1>6, <2>1, <2>3 DEF S
<1> QED
  BY <1>5, <1>6

\* Rows of other tokens, tenants or types leave the current disclosure alone.
LEMMA CurrentStays ==
  ASSUME NEW rows, NEW new, NEW c \in Nat, NEW d \in Nat, Rows(rows, c), Rows(new, d),
         NEW ws, NEW a,
         CoverageRows(new, ws, a) = CoverageRows(rows, ws, a),
         \A i \in DOMAIN rows : new[i] = rows[i]
  PROVE  CurrentCoverage(new, ws, a) = CurrentCoverage(rows, ws, a)
<1> DEFINE S == CoverageRows(rows, ws, a)
           k == CurrentCoverage(rows, ws, a)
<1>1. CASE S = {}
  BY <1>1, CurrentIsNewest
<1>2. CASE S # {}
  <2>1. k \in S /\ \A j \in S : Newer(rows, k, j)
    BY <1>2, CurrentIsNewest
  <2>2. S \subseteq DOMAIN rows /\ S \subseteq Nat
    BY DEF CoverageRows, Rows
  <2>3. \A i \in S : new[i] = rows[i] /\ new[i].at \in Nat
    BY <2>2 DEF Rows
  <2>4. \A j \in S : Newer(new, k, j)
    BY <2>1, <2>3 DEF Newer
  <2>5. LatestOf(new, S) = k
    <3> HIDE DEF S, k
    <3> QED
      BY <2>1, <2>2, <2>3, <2>4, LatestUnique
  <2> QED
    BY <2>5 DEF CurrentCoverage
<1> QED
  BY <1>1, <1>2
(***************************************************************************)
(* The views.                                                              *)
(***************************************************************************)

LEMMA InvIsRows ==
  ASSUME RecentIndInv
  PROVE  /\ Rows(rcRows, rcClock) /\ rcClock \in Nat
         /\ Len(rcRows) \in Nat /\ DOMAIN rcRows = 1..Len(rcRows)
<1>1. rcClock \in Nat
  BY RecentAssumption DEF RecentIndInv, RecentTypeOK
<1>2. \A i \in DOMAIN rcRows : rcRows[i].at \in Nat /\ rcRows[i].at <= rcClock
  BY <1>1 DEF RecentIndInv, RecentTypeOK
<1>3. rcRows \in Seq(Stored(rcRows))
  BY DEF RecentIndInv, RowsAreRows, Stored
<1>4. Len(rcRows) \in Nat /\ DOMAIN rcRows = 1..Len(rcRows)
  BY <1>3
<1> QED
  BY <1>1, <1>2, <1>3, <1>4 DEF Rows

LEMMA OneIsCurrent ==
  ASSUME RecentIndInv
  PROVE  OneCurrentRowPerTarget
<1> SUFFICES ASSUME NEW ws \in Workspaces,
                    NEW i \in FetchRelations(rcRows, ws, Anchor),
                    NEW j \in FetchRelations(rcRows, ws, Anchor),
                    rcRows[i].target = rcRows[j].target
             PROVE  i = j
  BY DEF OneCurrentRowPerTarget
<1>1. Newer(rcRows, i, j) /\ Newer(rcRows, j, i)
  BY DEF FetchRelations
<1>2. i \in DOMAIN rcRows /\ j \in DOMAIN rcRows
  BY DEF FetchRelations, VisibleRelations
<1>3. i \in Nat /\ j \in Nat /\ rcRows[i].at \in Nat /\ rcRows[j].at \in Nat
  BY <1>2, InvIsRows DEF Rows
<1> QED
  BY <1>1, <1>3, NewestIsOne

LEMMA CoverageIsShown ==
  ASSUME RecentIndInv
  PROVE  TimelineStatesCoverage
<1> SUFFICES ASSUME NEW ws \in Workspaces, CoverageRows(rcRows, ws, Anchor) # {}
             PROVE  LET shown == {i \in Timeline(rcRows, ws, Anchor, rcClock) :
                                    rcRows[i].type = "coverage_disclosure"}
                    IN \E i \in shown : /\ shown = {i}
                                        /\ rcRows[i].missing = CoverageInForce(rcRows, ws)
  BY DEF TimelineStatesCoverage
<1> DEFINE shown == {i \in Timeline(rcRows, ws, Anchor, rcClock) :
                       rcRows[i].type = "coverage_disclosure"}
           k == CurrentCoverage(rcRows, ws, Anchor)
<1>1. k \in CoverageRows(rcRows, ws, Anchor) /\ k # 0
  BY InvIsRows, CurrentIsNewest
<1>2. k \in shown
  BY <1>1 DEF Timeline, CoverageRows
<1>3. \A i \in shown : i = k
  BY DEF Timeline
<1>4. rcRows[k].missing = CoverageInForce(rcRows, ws)
  BY <1>1 DEF CoverageInForce
<1> HIDE DEF shown, k
<1>5. shown = {k}
  BY <1>2, <1>3
<1> QED
  BY <1>2, <1>4, <1>5 DEF shown

LEMMA IndInvSuffices == RecentIndInv => FactsAreStoredOnce
BY OneIsCurrent, CoverageIsShown DEF RecentIndInv, FactsAreStoredOnce

(***************************************************************************)
(* Steps of the store.                                                     *)
(***************************************************************************)

Kinds == {"relation_resolved", "coverage_disclosure", "retraction"}

\* The step appends a row whose key is derived from it and whose fact is new.
Extends(row) ==
  /\ rcRows' = Append(rcRows, row)
  /\ row.ws \in Workspaces /\ row.at \in 0..rcClock /\ row.type \in Kinds
  /\ KeyIsDerived(rcRows', Len(rcRows) + 1)
  /\ row.type = "relation_resolved" =>
       \A i \in DOMAIN rcRows : rcRows[i].ws = row.ws => ~SamePublishedFact(rcRows[i], row)

StoreStep == rcRows' = rcRows \/ \E row : Extends(row)

\* A step of the store keeps every row where it is.
LEMMA RowsStay ==
  ASSUME RecentIndInv, StoreStep
  PROVE  /\ rcRows' \in Seq(Stored(rcRows'))
         /\ DOMAIN rcRows \subseteq DOMAIN rcRows'
         /\ Len(rcRows) \in Nat /\ Len(rcRows') \in Nat /\ Len(rcRows) <= Len(rcRows')
         /\ DOMAIN rcRows' = 1..Len(rcRows')
         /\ \A i \in DOMAIN rcRows : rcRows'[i] = rcRows[i]
<1>1. Len(rcRows) \in Nat /\ DOMAIN rcRows = 1..Len(rcRows) /\ rcRows \in Seq(Stored(rcRows))
  BY InvIsRows DEF Rows
<1>2. CASE rcRows' = rcRows
  <2>1. Len(rcRows) <= Len(rcRows)
    BY <1>1
  <2> QED
    BY <1>1, <1>2, <2>1
<1>3. ASSUME NEW row, Extends(row)
      PROVE  /\ rcRows' \in Seq(Stored(rcRows'))
             /\ DOMAIN rcRows' = 1..(Len(rcRows) + 1) /\ Len(rcRows') = Len(rcRows) + 1
             /\ \A i \in 1..Len(rcRows) : rcRows'[i] = rcRows[i]
  BY <1>1, <1>3, Appended DEF Extends
<1> QED
  BY <1>1, <1>2, <1>3 DEF StoreStep

LEMMA StoreStaysSound ==
  ASSUME RecentIndInv, StoreStep, rcClock' \in Nat, rcClock <= rcClock'
  PROVE  /\ RowsAreRows'
         /\ OneRowPerFact'
         /\ Rows(rcRows', rcClock')
         /\ \A i \in DOMAIN rcRows' : /\ rcRows'[i].ws \in Workspaces
                                      /\ rcRows'[i].at \in 0..rcClock'
                                      /\ rcRows'[i].type \in Kinds
<1>1. Len(rcRows) \in Nat /\ DOMAIN rcRows = 1..Len(rcRows) /\ rcRows \in Seq(Stored(rcRows))
      /\ rcClock \in Nat
  BY InvIsRows DEF Rows
<1>2. rcRows' \in Seq(Stored(rcRows'))
  BY RowsStay
<1>3. \A i \in DOMAIN rcRows : /\ rcRows[i].ws \in Workspaces
                              /\ rcRows[i].at \in 0..rcClock
                              /\ rcRows[i].type \in Kinds
                              /\ KeyIsDerived(rcRows, i)
  BY DEF RecentIndInv, RecentTypeOK, RowsAreRows, Kinds
<1>4. \A i \in DOMAIN rcRows : rcRows'[i] = rcRows[i] => KeyIsDerived(rcRows', i)
  BY <1>3 DEF KeyIsDerived
<1>5. CASE rcRows' = rcRows
  <2>1. RowsAreRows' /\ OneRowPerFact'
    BY <1>5 DEF RecentIndInv, RowsAreRows, OneRowPerFact, SamePublishedFact
  <2>2. \A i \in DOMAIN rcRows' : /\ rcRows'[i].ws \in Workspaces
                                 /\ rcRows'[i].at \in 0..rcClock'
                                 /\ rcRows'[i].type \in Kinds
    BY <1>1, <1>3, <1>5
  <2> QED
    BY <1>1, <1>2, <2>1, <2>2 DEF Rows
<1>6. ASSUME NEW row, Extends(row)
      PROVE  /\ RowsAreRows'
             /\ OneRowPerFact'
             /\ \A i \in DOMAIN rcRows' : /\ rcRows'[i].ws \in Workspaces
                                          /\ rcRows'[i].at \in 0..rcClock'
                                          /\ rcRows'[i].type \in Kinds
  <2> DEFINE n == Len(rcRows) + 1
  <2>1. /\ DOMAIN rcRows' = 1..n /\ rcRows'[n] = row
        /\ \A i \in 1..Len(rcRows) : rcRows'[i] = rcRows[i]
    BY <1>1, <1>6, Appended DEF Extends
  <2>2. \A i \in 1..n : i \in DOMAIN rcRows \/ i = n
    BY <1>1
  <2>3. \A i \in DOMAIN rcRows' : KeyIsDerived(rcRows', i)
    BY <1>1, <1>4, <1>6, <2>1, <2>2 DEF Extends
  <2>4. RowsAreRows'
    BY <1>2, <2>3 DEF RowsAreRows, Stored
  <2>5. \A i \in DOMAIN rcRows' : /\ rcRows'[i].ws \in Workspaces
                                 /\ rcRows'[i].at \in 0..rcClock'
                                 /\ rcRows'[i].type \in Kinds
    <3>1. row.ws \in Workspaces /\ row.at \in 0..rcClock' /\ row.type \in Kinds
      BY <1>1, <1>6 DEF Extends
    <3>2. \A i \in DOMAIN rcRows : rcRows[i].at \in 0..rcClock'
      BY <1>1, <1>3
    <3> QED
      BY <1>1, <1>3, <2>1, <2>2, <3>1, <3>2
  <2>6. OneRowPerFact'
    <3> SUFFICES ASSUME NEW i \in DOMAIN rcRows', NEW j \in DOMAIN rcRows', i # j,
                        rcRows'[i].ws = rcRows'[j].ws,
                        rcRows'[i].type = "relation_resolved",
                        SamePublishedFact(rcRows'[i], rcRows'[j])
                 PROVE  FALSE
      BY DEF OneRowPerFact
    <3>1. CASE i \in DOMAIN rcRows /\ j \in DOMAIN rcRows
      BY <1>1, <2>1, <3>1 DEF RecentIndInv, OneRowPerFact
    <3>2. CASE i \in DOMAIN rcRows /\ j = n
      <4>1. rcRows'[i] = rcRows[i] /\ rcRows'[j] = row
        BY <1>1, <2>1, <3>2
      <4>2. row.type = "relation_resolved"
        BY <4>1 DEF SamePublishedFact
      <4> QED
        BY <1>6, <3>2, <4>1, <4>2 DEF Extends
    <3>3. CASE i = n /\ j \in DOMAIN rcRows
      <4>1. rcRows'[j] = rcRows[j] /\ rcRows'[i] = row
        BY <1>1, <2>1, <3>3
      <4>2. SamePublishedFact(rcRows[j], row)
        BY <4>1 DEF SamePublishedFact
      <4> QED
        BY <1>6, <3>3, <4>1, <4>2 DEF Extends
    <3> QED
      BY <2>1, <2>2, <3>1, <3>2, <3>3
  <2> QED
    BY <2>4, <2>5, <2>6
<1>7. \A i \in DOMAIN rcRows' : rcRows'[i].at \in 0..rcClock' =>
        rcRows'[i].at \in Nat /\ rcRows'[i].at <= rcClock'
  OBVIOUS
<1> QED
  BY <1>2, <1>5, <1>6, <1>7 DEF StoreStep, Rows
LEMMA OtherCoverageStays ==
  ASSUME RecentIndInv, NEW row, Extends(row), NEW ws,
         ~(row.ws = ws /\ row.type = "coverage_disclosure" /\ row.anchor = Anchor)
  PROVE  CoverageRows(rcRows', ws, Anchor) = CoverageRows(rcRows, ws, Anchor)
<1> DEFINE n == Len(rcRows) + 1
<1>1. Len(rcRows) \in Nat /\ DOMAIN rcRows = 1..Len(rcRows) /\ rcRows \in Seq(Stored(rcRows))
  BY InvIsRows DEF Rows
<1>2. /\ DOMAIN rcRows' = 1..n /\ rcRows'[n] = row
      /\ \A i \in 1..Len(rcRows) : rcRows'[i] = rcRows[i]
  BY <1>1, Appended DEF Extends
<1>3. \A i \in 1..n : i \in DOMAIN rcRows \/ i = n
  BY <1>1
<1>4. DOMAIN rcRows \subseteq DOMAIN rcRows' /\ \A i \in DOMAIN rcRows : rcRows'[i] = rcRows[i]
  BY RowsStay DEF StoreStep
<1>5. ASSUME NEW i \in CoverageRows(rcRows', ws, Anchor)
      PROVE  i \in CoverageRows(rcRows, ws, Anchor)
  BY <1>2, <1>3, <1>4 DEF CoverageRows
<1>6. ASSUME NEW i \in CoverageRows(rcRows, ws, Anchor)
      PROVE  i \in CoverageRows(rcRows', ws, Anchor)
  BY <1>4 DEF CoverageRows
<1> QED
  BY <1>5, <1>6

(***************************************************************************)
(* The passes.                                                             *)
(***************************************************************************)

\* The relation pass q resolved is in the store once the pass is past its append.
ItsRelationIsStored(q) ==
  rcPass[q].pc \in {"read", "disclose"} /\ rcPass[q].relation # NoRelation =>
    \E i \in DOMAIN rcRows :
      /\ rcRows[i].ws = ScopeOf[q]
      /\ rcRows[i].type = "relation_resolved"
      /\ rcRows[i].anchor = Anchor /\ rcRows[i].target = Target
      /\ rcRows[i].rel = rcPass[q].relation

PassIsSound(q) ==
  /\ rcPass[q].pc \in {"idle", "resolve", "relate", "read", "disclose"}
  /\ rcPass[q].now \in 0..rcClock
  /\ rcPass[q].latest \in 0..Len(rcRows)
  /\ ItsRelationIsStored(q)
  /\ QuietIsCurrent(q)

LEMMA PassesAreSound ==
  ASSUME RecentIndInv, NEW q \in Workers
  PROVE  PassIsSound(q)
BY DEF RecentIndInv, RecentTypeOK, ResolvedIsPublished, PassIsSound, ItsRelationIsStored

\* What has to hold after a step, one pass at a time.
LEMMA InvFromParts ==
  ASSUME RecentIndInv, StoreStep, rcClock' \in 0..MaxClock, rcClock <= rcClock',
         rcChanges' \in 0..MaxChanges,
         rcWorld' \in [missing : MissingSets, relation : Relations \union {NoRelation}],
         rcPass' \in [Workers -> Passes],
         \A q \in Workers : PassIsSound(q)'
  PROVE  RecentIndInv'
<1>1. rcClock' \in Nat
  BY RecentAssumption
<1>2. /\ RowsAreRows' /\ OneRowPerFact'
      /\ \A i \in DOMAIN rcRows' : /\ rcRows'[i].ws \in Workspaces
                                   /\ rcRows'[i].at \in 0..rcClock'
                                   /\ rcRows'[i].type \in Kinds
  BY <1>1, StoreStaysSound
<1>3. ResolvedIsPublished'
  BY DEF ResolvedIsPublished, PassIsSound, ItsRelationIsStored
<1>4. \A q \in Workers : QuietIsCurrent(q)'
  BY DEF PassIsSound
<1>5. RecentTypeOK'
  BY <1>2 DEF RecentTypeOK, PassIsSound, Kinds
<1> QED
  BY <1>2, <1>3, <1>4, <1>5 DEF RecentIndInv

\* A pass that does not move stays sound, whatever the store and the clock do,
\* unless a disclosure of its own workspace comes while it counts as undisturbed.
LEMMA PassStays ==
  ASSUME RecentIndInv, StoreStep, rcClock' \in Nat, rcClock <= rcClock', NEW q \in Workers,
         \/ rcPass'[q] = rcPass[q]
         \/ rcPass'[q] = [rcPass[q] EXCEPT !.alone = FALSE],
         rcPass'[q].alone /\ rcPass[q].pc # "idle" =>
           CoverageRows(rcRows', ScopeOf[q], Anchor) = CoverageRows(rcRows, ScopeOf[q], Anchor)
  PROVE  PassIsSound(q)'
<1>1. rcPass[q] \in Passes /\ PassIsSound(q) /\ rcClock \in Nat
  BY PassesAreSound, InvIsRows DEF RecentIndInv
<1>2. /\ rcPass'[q].pc = rcPass[q].pc /\ rcPass'[q].now = rcPass[q].now
      /\ rcPass'[q].missing = rcPass[q].missing
      /\ rcPass'[q].latest = rcPass[q].latest
      /\ rcPass'[q].relation = rcPass[q].relation
      /\ rcPass'[q].alone => rcPass[q].alone
  BY <1>1 DEF Passes
<1>3. /\ DOMAIN rcRows \subseteq DOMAIN rcRows' /\ \A i \in DOMAIN rcRows : rcRows'[i] = rcRows[i]
      /\ Len(rcRows) \in Nat /\ Len(rcRows') \in Nat /\ Len(rcRows) <= Len(rcRows')
  BY RowsStay
<1>4. rcPass'[q].now \in 0..rcClock' /\ rcPass'[q].latest \in 0..Len(rcRows')
  BY <1>1, <1>2, <1>3 DEF PassIsSound
<1>5. ItsRelationIsStored(q)'
  BY <1>1, <1>2, <1>3 DEF PassIsSound, ItsRelationIsStored
<1>6. QuietIsCurrent(q)'
  <2> SUFFICES ASSUME rcPass'[q].alone, rcPass'[q].pc # "idle"
               PROVE  /\ \A i \in CoverageRows(rcRows', ScopeOf[q], Anchor) :
                            rcRows'[i].at <= rcPass'[q].now
                      /\ rcPass'[q].pc = "disclose" =>
                           /\ rcPass'[q].latest = CurrentCoverage(rcRows', ScopeOf[q], Anchor)
                           /\ NeedsDisclosure(rcRows', rcPass'[q].latest, rcPass'[q].missing,
                                              rcPass'[q].now)
    BY DEF QuietIsCurrent
  <2> DEFINE S == CoverageRows(rcRows, ScopeOf[q], Anchor)
  <2>1. CoverageRows(rcRows', ScopeOf[q], Anchor) = S /\ S \subseteq DOMAIN rcRows
    BY <1>2 DEF CoverageRows
  <2>2. /\ \A i \in S : rcRows[i].at <= rcPass[q].now
        /\ rcPass[q].pc = "disclose" =>
             /\ rcPass[q].latest = CurrentCoverage(rcRows, ScopeOf[q], Anchor)
             /\ NeedsDisclosure(rcRows, rcPass[q].latest, rcPass[q].missing, rcPass[q].now)
    BY <1>1, <1>2 DEF PassIsSound, QuietIsCurrent
  <2>3. CurrentCoverage(rcRows', ScopeOf[q], Anchor) = CurrentCoverage(rcRows, ScopeOf[q], Anchor)
    <3>1. Rows(rcRows, rcClock) /\ Rows(rcRows', rcClock')
      BY InvIsRows, StoreStaysSound
    <3> QED
      BY <1>1, <1>3, <2>1, <3>1, CurrentStays
  <2>4. rcPass[q].pc = "disclose" /\ rcPass[q].latest # 0 => rcPass[q].latest \in DOMAIN rcRows
    BY <1>1, InvIsRows DEF PassIsSound
  <2>5. rcPass[q].pc = "disclose" =>
          NeedsDisclosure(rcRows', rcPass[q].latest, rcPass[q].missing, rcPass[q].now)
    BY <1>3, <2>2, <2>4 DEF NeedsDisclosure
  <2> QED
    BY <1>2, <1>3, <2>1, <2>2, <2>3, <2>5
<1> QED
  BY <1>1, <1>2, <1>4, <1>5, <1>6 DEF PassIsSound
\* One pass moves and nothing is written.
LEMMA OnePassMoves ==
  ASSUME RecentIndInv, UNCHANGED <<rcClock, rcWorld, rcRows>>, NEW p \in Workers,
         rcChanges' \in 0..MaxChanges,
         NEW r \in Passes, rcPass' = [rcPass EXCEPT ![p] = r], PassIsSound(p)'
  PROVE  RecentIndInv'
<1>1. /\ StoreStep /\ rcClock' \in 0..MaxClock /\ rcClock' \in Nat /\ rcClock <= rcClock'
      /\ rcChanges' \in 0..MaxChanges
      /\ rcWorld' \in [missing : MissingSets, relation : Relations \union {NoRelation}]
  BY InvIsRows DEF StoreStep, RecentIndInv, RecentTypeOK
<1>2. rcPass \in [Workers -> Passes]
  BY DEF RecentIndInv
<1>3. rcPass' \in [Workers -> Passes]
  BY <1>2
<1>4. \A q \in Workers \ {p} : rcPass'[q] = rcPass[q]
  BY <1>2
<1>5. \A q \in Workers \ {p} : PassIsSound(q)'
  BY <1>1, <1>4, PassStays
<1> QED
  BY <1>1, <1>3, <1>5, InvFromParts

\* A pass may write in its own workspace: the others of that workspace are
\* disturbed by it.
LEMMA WriterMoves ==
  ASSUME RecentIndInv, UNCHANGED <<rcClock, rcWorld, rcChanges>>, NEW p \in Workers,
         \/ rcRows' = rcRows
         \/ \E row : Extends(row) /\ row.ws = ScopeOf[p],
         NEW r \in Passes, rcPass' = [Disturb(p, rcRows') EXCEPT ![p] = r], PassIsSound(p)'
  PROVE  RecentIndInv'
<1>1. /\ StoreStep /\ rcClock' \in 0..MaxClock /\ rcClock' \in Nat /\ rcClock <= rcClock'
      /\ rcChanges' \in 0..MaxChanges
      /\ rcWorld' \in [missing : MissingSets, relation : Relations \union {NoRelation}]
  BY InvIsRows DEF StoreStep, RecentIndInv, RecentTypeOK
<1>2. rcPass \in [Workers -> Passes]
  BY DEF RecentIndInv
<1>3. \A q \in Workers : [rcPass[q] EXCEPT !.alone = FALSE] \in Passes
  BY <1>2 DEF Passes
<1>4. \A q \in Workers : Disturb(p, rcRows')[q] \in {rcPass[q], [rcPass[q] EXCEPT !.alone = FALSE]}
  BY DEF Disturb
<1>5. rcPass' \in [Workers -> Passes]
  BY <1>2, <1>3, <1>4 DEF Disturb
<1>6. ASSUME NEW q \in Workers, q # p PROVE PassIsSound(q)'
  <2>1. rcPass'[q] = Disturb(p, rcRows')[q]
    BY <1>6 DEF Disturb
  <2>2. rcPass'[q] = rcPass[q] \/ rcPass'[q] = [rcPass[q] EXCEPT !.alone = FALSE]
    BY <1>4, <2>1
  <2>3. ASSUME rcPass'[q].alone, rcPass[q].pc # "idle"
        PROVE  CoverageRows(rcRows', ScopeOf[q], Anchor) = CoverageRows(rcRows, ScopeOf[q], Anchor)
    <3>1. CASE rcRows' = rcRows
      BY <3>1
    <3>2. CASE rcRows' # rcRows
      <4>1. PICK row : Extends(row) /\ row.ws = ScopeOf[p]
        BY <3>2
      <4>2. rcPass[q] \in Passes /\ [rcPass[q] EXCEPT !.alone = FALSE].alone = FALSE
        BY <1>2 DEF Passes
      <4>3. ScopeOf[q] # ScopeOf[p]
        BY <1>6, <2>1, <2>3, <3>2, <4>2 DEF Disturb
      <4> QED
        BY <4>1, <4>3, OtherCoverageStays
    <3> QED
      BY <3>1, <3>2
  <2> QED
    BY <1>1, <2>2, <2>3, PassStays
<1> QED
  BY <1>1, <1>5, <1>6, InvFromParts

(***************************************************************************)
(* The steps of a pass.                                                    *)
(***************************************************************************)

LEMMA IdleIsAPass == Idle \in Passes /\ Idle.pc = "idle" /\ Idle.now = 0 /\ Idle.latest = 0
BY DEF Idle, Passes

LEMMA IdleIsSound ==
  ASSUME NEW p \in Workers, rcPass'[p] = Idle, rcClock' \in Nat, Len(rcRows') \in Nat
  PROVE  PassIsSound(p)'
<1>1. ItsRelationIsStored(p)' /\ QuietIsCurrent(p)'
  BY IdleIsAPass DEF ItsRelationIsStored, QuietIsCurrent
<1> QED
  BY <1>1, IdleIsAPass DEF PassIsSound

LEMMA BeginKeeps ==
  ASSUME RecentIndInv, NEW p \in Workers, BeginPass(p)
  PROVE  RecentIndInv'
<1> DEFINE r == [Idle EXCEPT !.pc = "resolve", !.now = rcClock]
<1>1. rcPass' = [rcPass EXCEPT ![p] = r] /\ UNCHANGED <<rcClock, rcWorld, rcRows>>
      /\ rcChanges' \in 0..MaxChanges
  BY DEF BeginPass, RecentIndInv, RecentTypeOK
<1>2. rcClock \in Nat /\ Len(rcRows) \in Nat /\ Rows(rcRows, rcClock)
  BY InvIsRows
<1>3. r \in Passes /\ r.pc = "resolve" /\ r.now = rcClock /\ r.latest = 0
  BY <1>2 DEF Idle, Passes
<1>4. rcPass'[p] = r
  BY <1>1 DEF RecentIndInv
<1> HIDE DEF r
<1>5. QuietIsCurrent(p)'
  <2>1. \A i \in CoverageRows(rcRows', ScopeOf[p], Anchor) : rcRows'[i].at <= rcClock
    BY <1>1, <1>2 DEF Rows, CoverageRows
  <2> QED
    BY <1>3, <1>4, <2>1 DEF QuietIsCurrent
<1>6. PassIsSound(p)'
  BY <1>1, <1>2, <1>3, <1>4, <1>5 DEF PassIsSound, ItsRelationIsStored
<1> QED
  BY <1>1, <1>3, <1>6, OnePassMoves

LEMMA ResolveKeeps ==
  ASSUME RecentIndInv, NEW p \in Workers, ResolveAnchor(p)
  PROVE  RecentIndInv'
<1> DEFINE r == [rcPass[p] EXCEPT !.pc = IF rcWorld.relation = NoRelation THEN "read" ELSE "relate",
                                  !.missing = rcWorld.missing, !.relation = rcWorld.relation]
<1>1. rcPass' = [rcPass EXCEPT ![p] = r] /\ UNCHANGED <<rcClock, rcWorld, rcRows>>
      /\ rcChanges' \in 0..MaxChanges
  BY DEF ResolveAnchor, RecentIndInv, RecentTypeOK
<1>2. rcPass[p] \in Passes /\ rcPass[p].pc = "resolve" /\ PassIsSound(p)
  BY PassesAreSound DEF RecentIndInv, ResolveAnchor
<1>3. /\ r \in Passes /\ r.now = rcPass[p].now /\ r.latest = rcPass[p].latest
      /\ r.alone = rcPass[p].alone /\ r.relation = rcWorld.relation
      /\ r.pc = IF rcWorld.relation = NoRelation THEN "read" ELSE "relate"
  BY <1>2 DEF RecentIndInv, Passes
<1>4. rcPass'[p] = r
  BY <1>1 DEF RecentIndInv
<1> HIDE DEF r
<1>5. QuietIsCurrent(p)'
  BY <1>1, <1>2, <1>3, <1>4 DEF QuietIsCurrent, PassIsSound, CoverageRows
<1>6. PassIsSound(p)'
  BY <1>1, <1>2, <1>3, <1>4, <1>5 DEF PassIsSound, ItsRelationIsStored
<1> QED
  BY <1>1, <1>3, <1>6, OnePassMoves

LEMMA ReadKeeps ==
  ASSUME RecentIndInv, NEW p \in Workers, ReadCoverage(p)
  PROVE  RecentIndInv'
<1> DEFINE k == CurrentCoverage(rcRows, ScopeOf[p], Anchor)
           d == [rcPass[p] EXCEPT !.pc = "disclose", !.latest = k]
           r == IF NeedsDisclosure(rcRows, k, rcPass[p].missing, rcPass[p].now) THEN d ELSE Idle
<1>1. rcPass' = [rcPass EXCEPT ![p] = r] /\ UNCHANGED <<rcClock, rcWorld, rcRows>>
      /\ rcChanges' \in 0..MaxChanges
  BY DEF ReadCoverage, RecentIndInv, RecentTypeOK
<1>2. /\ rcPass[p] \in Passes /\ rcPass[p].pc = "read" /\ PassIsSound(p)
      /\ rcClock \in Nat /\ Len(rcRows) \in Nat
  BY PassesAreSound, InvIsRows DEF RecentIndInv, ReadCoverage
<1>3. k \in 0..Len(rcRows) /\ k \in Nat
  <2>1. k \in 0..Len(rcRows)
    BY InvIsRows, CurrentIsNewest
  <2> QED
    BY <1>2, <2>1
<1>4. /\ d \in Passes /\ d.now = rcPass[p].now /\ d.latest = k /\ d.pc = "disclose"
      /\ d.alone = rcPass[p].alone /\ d.relation = rcPass[p].relation
      /\ d.missing = rcPass[p].missing
  <2> HIDE DEF k
  <2> QED
    BY <1>2, <1>3 DEF Passes
<1>5. rcPass'[p] = r
  BY <1>1 DEF RecentIndInv
<1>6. CASE NeedsDisclosure(rcRows, k, rcPass[p].missing, rcPass[p].now)
  <2>1. rcPass'[p] = d /\ r = d
    BY <1>5, <1>6
  <2> HIDE DEF d, r
  <2>2. QuietIsCurrent(p)'
    BY <1>1, <1>2, <1>4, <1>6, <2>1 DEF QuietIsCurrent, PassIsSound, CoverageRows
  <2>3. PassIsSound(p)'
    BY <1>1, <1>2, <1>3, <1>4, <2>1, <2>2 DEF PassIsSound, ItsRelationIsStored
  <2> QED
    BY <1>1, <1>4, <2>1, <2>3, OnePassMoves
<1>7. CASE ~NeedsDisclosure(rcRows, k, rcPass[p].missing, rcPass[p].now)
  <2>1. rcPass'[p] = Idle /\ r = Idle
    BY <1>5, <1>7
  <2> HIDE DEF d, r
  <2> QED
    BY <1>1, <1>2, <2>1, IdleIsAPass, IdleIsSound, OnePassMoves
<1> QED
  BY <1>6, <1>7

LEMMA FailKeeps ==
  ASSUME RecentIndInv, NEW p \in Workers, FailPass(p)
  PROVE  RecentIndInv'
<1>1. rcPass' = [rcPass EXCEPT ![p] = Idle] /\ UNCHANGED <<rcClock, rcWorld, rcRows>>
      /\ rcChanges' \in 0..MaxChanges
  BY RecentAssumption DEF FailPass, RecentIndInv, RecentTypeOK
<1>2. rcPass'[p] = Idle /\ rcClock' \in Nat /\ Len(rcRows') \in Nat
  BY <1>1, InvIsRows DEF RecentIndInv
<1> QED
  BY <1>1, <1>2, IdleIsAPass, IdleIsSound, OnePassMoves
LEMMA SayingsAreSaid ==
  ASSUME NEW r \in Relations \union {NoRelation}
  PROVE  r = Saying(r)
BY RecentAssumption DEF NoRelation, Saying

\* A row under the current key of a relation publishes that relation.
LEMMA KeyNamesTheFact ==
  ASSUME RecentIndInv, NEW i \in DOMAIN rcRows, NEW ws, NEW a, NEW t, NEW r, r = Saying(r),
         rcRows[i].key = RelationKey(ws, a, t, r)
  PROVE  /\ rcRows[i].type = "relation_resolved"
         /\ rcRows[i].anchor = a /\ rcRows[i].target = t /\ rcRows[i].rel = r
<1>1. rcRows[i].type \in Kinds /\ KeyIsDerived(rcRows, i)
  BY DEF RecentIndInv, RecentTypeOK, RowsAreRows, Kinds
<1>2. rcRows[i].key[1] = "rel:v2"
  BY DEF RelationKey
<1>3. rcRows[i].type # "coverage_disclosure"
  BY <1>1, <1>2 DEF KeyIsDerived, CoverageKey, LegacyCoverageKeys
<1>4. rcRows[i].type # "retraction"
  BY <1>1, <1>2 DEF KeyIsDerived
<1>5. rcRows[i].type = "relation_resolved"
  BY <1>1, <1>3, <1>4 DEF Kinds
<1> DEFINE x == rcRows[i]
<1>6. x.rel = Saying(x.rel) /\ x.key = RelationKey(x.ws, x.anchor, x.target, x.rel)
  <2>1. /\ x.rel = Saying(x.rel)
        /\ x.key \in {RelationKey(x.ws, x.anchor, x.target, x.rel),
                       RelationKey065(x.ws, x.anchor, x.target, x.rel),
                       RelationKey063(x.ws, x.anchor, x.target, x.rel)}
    BY <1>1, <1>5 DEF KeyIsDerived, LegacyRelationKeys
  <2>2. RelationKey065(x.ws, x.anchor, x.target, x.rel)[1] = "rel:065"
    BY DEF RelationKey065
  <2>3. RelationKey063(x.ws, x.anchor, x.target, x.rel)[1] = "rel:063"
    BY DEF RelationKey063
  <2> QED
    BY <1>2, <2>1, <2>2, <2>3
<1>7. /\ x.anchor = a /\ x.target = t
      /\ x.rel.confidence = r.confidence /\ x.rel.evidence = r.evidence
  BY <1>6 DEF RelationKey
<1>8. x.rel = r
  BY <1>6, <1>7 DEF Saying
<1> QED
  BY <1>5, <1>7, <1>8

LEMMA AppendRelationKeeps ==
  ASSUME RecentIndInv, NEW p \in Workers, AppendRelation(p)
  PROVE  RecentIndInv'
<1> DEFINE ws == ScopeOf[p]
           x == rcPass[p].relation
           row == RelationRow(ws, RelationKey(ws, Anchor, Target, x), Anchor, Target, x,
                              rcPass[p].now, rcPass[p].missing)
           legacy == LegacyRelationKeys(ws, Anchor, Target, x)
           r == [rcPass[p] EXCEPT !.pc = "read"]
           Stands == \E i \in DOMAIN rcRows' :
                       /\ rcRows'[i].ws = ws
                       /\ rcRows'[i].type = "relation_resolved"
                       /\ rcRows'[i].anchor = Anchor /\ rcRows'[i].target = Target
                       /\ rcRows'[i].rel = x
<1>1. /\ rcPass[p] \in Passes /\ rcPass[p].pc = "relate" /\ PassIsSound(p)
      /\ rcPass \in [Workers -> Passes]
      /\ UNCHANGED <<rcClock, rcWorld, rcChanges>>
  BY PassesAreSound DEF RecentIndInv, AppendRelation
<1>2. /\ rcRows' = IF LegacyRowPublishesTheSameFact(rcRows, ws, legacy, row)
                   THEN rcRows ELSE AppendIfAbsent(rcRows, row)
      /\ rcPass' = [Disturb(p, rcRows') EXCEPT ![p].pc = "read"]
  BY DEF AppendRelation
<1>3. ws \in Workspaces /\ x = Saying(x)
  BY <1>1, RecentAssumption, SayingsAreSaid DEF Passes
<1>4. /\ row.ws = ws /\ row.type = "relation_resolved" /\ row.anchor = Anchor
      /\ row.target = Target /\ row.rel = x /\ row.at = rcPass[p].now
      /\ row.key = RelationKey(ws, Anchor, Target, x)
  BY DEF RelationRow, Row
<1>5. Len(rcRows) \in Nat /\ DOMAIN rcRows = 1..Len(rcRows) /\ rcRows \in Seq(Stored(rcRows))
      /\ rcClock \in Nat
  BY InvIsRows DEF Rows
<1>6. /\ Stands
      /\ rcRows' = rcRows \/ \E w : Extends(w) /\ w.ws = ScopeOf[p]
  <2> HIDE DEF row, x, ws, legacy
  <2>1. CASE LegacyRowPublishesTheSameFact(rcRows, ws, legacy, row)
    <3>1. rcRows' = rcRows
      BY <1>2, <2>1
    <3>2. Stands
      BY <1>4, <2>1, <3>1 DEF LegacyRowPublishesTheSameFact, SamePublishedFact
    <3> QED
      BY <3>1, <3>2
  <2>2. CASE /\ ~LegacyRowPublishesTheSameFact(rcRows, ws, legacy, row)
             /\ Published(rcRows, row.ws, row.key)
    <3>1. rcRows' = rcRows
      BY <1>2, <2>2 DEF AppendIfAbsent
    <3>2. PICK i \in DOMAIN rcRows : rcRows[i].ws = ws /\ rcRows[i].key = row.key
      BY <1>4, <2>2 DEF Published
    <3>3. /\ rcRows[i].type = "relation_resolved" /\ rcRows[i].anchor = Anchor
          /\ rcRows[i].target = Target /\ rcRows[i].rel = x
      BY <1>3, <1>4, <3>2, KeyNamesTheFact
    <3> QED
      BY <3>1, <3>2, <3>3
  <2>3. CASE /\ ~LegacyRowPublishesTheSameFact(rcRows, ws, legacy, row)
             /\ ~Published(rcRows, row.ws, row.key)
    <3>1. rcRows' = Append(rcRows, row)
      BY <1>2, <2>3 DEF AppendIfAbsent
    <3>2. /\ DOMAIN rcRows' = 1..(Len(rcRows) + 1) /\ rcRows'[Len(rcRows) + 1] = row
          /\ Len(rcRows) + 1 \in DOMAIN rcRows'
      BY <1>5, <3>1, Appended
    <3>3. Stands
      BY <1>4, <3>2
    <3>4. KeyIsDerived(rcRows', Len(rcRows) + 1)
      BY <1>3, <1>4, <3>2 DEF KeyIsDerived
    <3>5. ASSUME NEW i \in DOMAIN rcRows, rcRows[i].ws = row.ws, SamePublishedFact(rcRows[i], row)
          PROVE  FALSE
      <4>1. /\ rcRows[i].type = "relation_resolved" /\ rcRows[i].anchor = Anchor
            /\ rcRows[i].target = Target /\ rcRows[i].rel = x
        BY <1>4, <3>5 DEF SamePublishedFact
      <4>2. KeyIsDerived(rcRows, i)
        BY DEF RecentIndInv, RowsAreRows
      <4>3. rcRows[i].key \in {RelationKey(ws, Anchor, Target, x)}
                                \union LegacyRelationKeys(ws, Anchor, Target, x)
        BY <1>4, <3>5, <4>1, <4>2 DEF KeyIsDerived
      <4>4. rcRows[i].key = row.key \/ rcRows[i].key \in legacy
        BY <1>4, <4>3 DEF legacy
      <4> QED
        BY <1>4, <2>3, <3>5, <4>4 DEF Published, LegacyRowPublishesTheSameFact
    <3>6. row.at \in 0..rcClock
      BY <1>1, <1>4 DEF PassIsSound
    <3>7. Extends(row)
      BY <1>3, <1>4, <3>1, <3>4, <3>5, <3>6 DEF Extends, Kinds
    <3> QED
      BY <1>4, <3>3, <3>7 DEF ws
  <2> QED
    BY <2>1, <2>2, <2>3
<1>7. /\ r \in Passes /\ r.pc = "read" /\ r.now = rcPass[p].now /\ r.latest = rcPass[p].latest
      /\ r.alone = rcPass[p].alone /\ r.relation = x
  BY <1>1 DEF Passes
<1>8. rcPass' = [Disturb(p, rcRows') EXCEPT ![p] = r] /\ rcPass'[p] = r
  <2>1. Disturb(p, rcRows')[p] = rcPass[p] /\ DOMAIN Disturb(p, rcRows') = Workers
    BY DEF Disturb
  <2> QED
    BY <1>2, <2>1
<1>9. /\ StoreStep
      /\ CoverageRows(rcRows', ws, Anchor) = CoverageRows(rcRows, ws, Anchor)
  <2>1. CASE rcRows' = rcRows
    BY <2>1 DEF StoreStep
  <2>2. CASE rcRows' # rcRows
    <3> HIDE DEF row
    <3>1. PICK w : Extends(w)
      BY <1>6, <2>2
    <3>2. rcRows' = Append(rcRows, row)
      BY <1>2, <2>2 DEF AppendIfAbsent
    <3>3. w = row
      <4>1. Append(rcRows, w)[Len(rcRows) + 1] = w
        BY <1>5, Appended
      <4>2. Append(rcRows, row)[Len(rcRows) + 1] = row
        BY <1>5, Appended
      <4>3. Append(rcRows, w) = Append(rcRows, row)
        BY <3>1, <3>2 DEF Extends
      <4> HIDE DEF ws, x
      <4> QED
        BY <4>1, <4>2, <4>3
    <3> QED
      BY <1>4, <3>1, <3>3, OtherCoverageStays DEF StoreStep
  <2> QED
    BY <2>1, <2>2
<1> HIDE DEF r, row, legacy
<1>10. PassIsSound(p)'
  <2>1. ItsRelationIsStored(p)'
    BY <1>6, <1>7, <1>8 DEF ItsRelationIsStored
  <2>2. /\ DOMAIN rcRows \subseteq DOMAIN rcRows' /\ \A i \in DOMAIN rcRows : rcRows'[i] = rcRows[i]
        /\ Len(rcRows') \in Nat /\ Len(rcRows) <= Len(rcRows')
    BY <1>9, RowsStay
  <2>3. rcPass[p].alone => \A i \in CoverageRows(rcRows, ws, Anchor) : rcRows[i].at <= rcPass[p].now
    BY <1>1 DEF PassIsSound, QuietIsCurrent
  <2>4. rcPass[p].alone => \A i \in CoverageRows(rcRows', ws, Anchor) : rcRows'[i].at <= rcPass[p].now
    BY <1>9, <2>2, <2>3 DEF CoverageRows
  <2>5. QuietIsCurrent(p)'
    BY <1>7, <1>8, <2>4 DEF QuietIsCurrent
  <2>6. rcPass'[p].now \in 0..rcClock' /\ rcPass'[p].latest \in 0..Len(rcRows')
    BY <1>1, <1>5, <1>7, <1>8, <2>2 DEF PassIsSound
  <2> QED
    BY <1>7, <1>8, <2>1, <2>5, <2>6 DEF PassIsSound
<1> QED
  BY <1>1, <1>6, <1>7, <1>8, <1>10, WriterMoves
\* A row under one of the keys of a transition states its set and came after
\* the row it supersedes.
LEMMA KeyNamesTheTransition ==
  ASSUME RecentIndInv, NEW i \in DOMAIN rcRows, NEW ws, NEW m, NEW b, NEW k,
         \/ rcRows[i].key = CoverageKey(ws, Anchor, m, b, k)
         \/ rcRows[i].key \in LegacyCoverageKeys(ws, Anchor, m, b, k)
  PROVE  /\ rcRows[i].type = "coverage_disclosure" /\ rcRows[i].anchor = Anchor
         /\ rcRows[i].missing = m /\ k \in 0..(i - 1)
<1> DEFINE x == rcRows[i]
<1>1. x.type \in Kinds /\ KeyIsDerived(rcRows, i)
  BY DEF RecentIndInv, RecentTypeOK, RowsAreRows, Kinds
<1>2. x.key[1] \in {"cov:v2", "cov:065", "cov:063"}
  BY DEF CoverageKey, LegacyCoverageKeys
<1>3. x.type # "relation_resolved"
  <2> SUFFICES ASSUME x.type = "relation_resolved" PROVE FALSE
    OBVIOUS
  <2>1. x.key \in {RelationKey(x.ws, x.anchor, x.target, x.rel),
                   RelationKey065(x.ws, x.anchor, x.target, x.rel),
                   RelationKey063(x.ws, x.anchor, x.target, x.rel)}
    BY <1>1 DEF KeyIsDerived, LegacyRelationKeys
  <2>2. /\ RelationKey(x.ws, x.anchor, x.target, x.rel)[1] = "rel:v2"
        /\ RelationKey065(x.ws, x.anchor, x.target, x.rel)[1] = "rel:065"
        /\ RelationKey063(x.ws, x.anchor, x.target, x.rel)[1] = "rel:063"
    BY DEF RelationKey, RelationKey065, RelationKey063
  <2> QED
    BY <1>2, <2>1, <2>2
<1>4. x.type # "retraction"
  BY <1>1, <1>2 DEF KeyIsDerived
<1>5. x.type = "coverage_disclosure"
  BY <1>1, <1>3, <1>4 DEF Kinds
<1>6. PICK bucket \in Nat, pred \in 0..(i - 1) :
        x.key \in {CoverageKey(x.ws, x.anchor, x.missing, bucket, pred)}
                     \union LegacyCoverageKeys(x.ws, x.anchor, x.missing, bucket, pred)
  BY <1>1, <1>5 DEF KeyIsDerived
<1>7. x.anchor = Anchor /\ x.missing = m /\ pred = k
  <2>1. x.key[3] = x.anchor /\ x.key[4] = x.missing /\ x.key[6] = pred
    BY <1>6 DEF CoverageKey, LegacyCoverageKeys
  <2>2. x.key[3] = Anchor /\ x.key[4] = m /\ x.key[6] = k
    BY DEF CoverageKey, LegacyCoverageKeys
  <2> QED
    BY <2>1, <2>2
<1> QED
  BY <1>5, <1>7

\* A disclosure appends the state the pass saw, or finds it recorded already.
LEMMA DiscloseEffect ==
  ASSUME RecentIndInv, NEW p \in Workers, DiscloseCoverage(p)
  PROVE  \/ /\ rcRows' = rcRows
            /\ \E i \in DOMAIN rcRows :
                 /\ rcRows[i].ws = ScopeOf[p] /\ rcRows[i].anchor = Anchor
                 /\ rcRows[i].type = "coverage_disclosure"
                 /\ rcRows[i].missing = rcPass[p].missing
                 /\ rcPass[p].latest < i
         \/ \E row :
              /\ Extends(row)
              /\ row.ws = ScopeOf[p] /\ row.anchor = Anchor
              /\ row.type = "coverage_disclosure"
              /\ row.missing = rcPass[p].missing /\ row.at = rcPass[p].now
<1> DEFINE ws == ScopeOf[p]
           m == rcPass[p].missing
           b == rcPass[p].now \div RefreshSeconds
           k == rcPass[p].latest
           key == CoverageKey(ws, Anchor, m, b, k)
           legacy == LegacyCoverageKeys(ws, Anchor, m, b, k)
           row == CoverageRow(ws, key, Anchor, rcPass[p].now, m)
<1>1. rcPass[p] \in Passes /\ PassIsSound(p)
  BY PassesAreSound DEF RecentIndInv
<1>2. rcRows' = IF LegacyRowPublishesTheSameFact(rcRows, ws, legacy, row)
                THEN rcRows ELSE AppendIfAbsent(rcRows, row)
  BY DEF DiscloseCoverage
<1>3. ws \in Workspaces
  BY RecentAssumption
<1>4. b \in Nat
  <2>1. rcPass[p].now \in Nat /\ RefreshSeconds \in Nat /\ RefreshSeconds # 0
    BY <1>1, RecentAssumption DEF Passes
  <2> QED
    BY <2>1
<1>5. Len(rcRows) \in Nat /\ DOMAIN rcRows = 1..Len(rcRows) /\ rcRows \in Seq(Stored(rcRows))
      /\ rcClock \in Nat
  BY InvIsRows DEF Rows
<1>6. k \in 0..Len(rcRows) /\ k \in Nat
  BY <1>1 DEF PassIsSound, Passes
<1>7. /\ row.ws = ws /\ row.type = "coverage_disclosure" /\ row.anchor = Anchor
      /\ row.missing = m /\ row.at = rcPass[p].now /\ row.key = key
  BY DEF CoverageRow, Row
<1> HIDE DEF row, b
<1>8. ASSUME NEW i \in DOMAIN rcRows, rcRows[i].ws = ws,
             rcRows[i].key = key \/ rcRows[i].key \in legacy
      PROVE  /\ rcRows[i].ws = ScopeOf[p] /\ rcRows[i].anchor = Anchor
             /\ rcRows[i].type = "coverage_disclosure"
             /\ rcRows[i].missing = rcPass[p].missing
             /\ rcPass[p].latest < i
  <2>1. /\ rcRows[i].type = "coverage_disclosure" /\ rcRows[i].anchor = Anchor
        /\ rcRows[i].missing = m /\ k \in 0..(i - 1)
    BY <1>8, KeyNamesTheTransition
  <2>2. i \in Nat
    BY <1>5
  <2> QED
    BY <1>6, <1>8, <2>1, <2>2
<1>9. CASE LegacyRowPublishesTheSameFact(rcRows, ws, legacy, row)
  BY <1>2, <1>8, <1>9 DEF LegacyRowPublishesTheSameFact
<1>10. CASE /\ ~LegacyRowPublishesTheSameFact(rcRows, ws, legacy, row)
            /\ Published(rcRows, row.ws, row.key)
  BY <1>2, <1>7, <1>8, <1>10 DEF Published, AppendIfAbsent
<1>11. CASE /\ ~LegacyRowPublishesTheSameFact(rcRows, ws, legacy, row)
            /\ ~Published(rcRows, row.ws, row.key)
  <2>1. rcRows' = Append(rcRows, row)
    BY <1>2, <1>11 DEF AppendIfAbsent
  <2>2. rcRows'[Len(rcRows) + 1] = row
    BY <1>5, <2>1, Appended
  <2>3. KeyIsDerived(rcRows', Len(rcRows) + 1)
    <3>1. k \in 0..((Len(rcRows) + 1) - 1)
      BY <1>5, <1>6
    <3> QED
      BY <1>4, <1>7, <2>2, <3>1 DEF KeyIsDerived
  <2>4. row.at \in 0..rcClock
    BY <1>1, <1>7 DEF PassIsSound
  <2>5. Extends(row)
    BY <1>3, <1>7, <2>1, <2>3, <2>4 DEF Extends, Kinds
  <2> QED
    BY <1>7, <2>5
<1> QED
  BY <1>9, <1>10, <1>11

LEMMA DiscloseKeeps ==
  ASSUME RecentIndInv, NEW p \in Workers, DiscloseCoverage(p)
  PROVE  RecentIndInv'
<1>1. rcPass' = [Disturb(p, rcRows') EXCEPT ![p] = Idle] /\ UNCHANGED <<rcClock, rcWorld, rcChanges>>
  BY DEF DiscloseCoverage
<1>2. rcRows' = rcRows \/ \E row : Extends(row) /\ row.ws = ScopeOf[p]
  BY DiscloseEffect
<1>3. rcPass'[p] = Idle
  BY <1>1 DEF Disturb
<1>4. rcClock' \in Nat /\ Len(rcRows') \in Nat
  <2>1. StoreStep
    BY <1>2 DEF StoreStep
  <2> QED
    BY <1>1, <2>1, InvIsRows, RowsStay
<1> QED
  BY <1>1, <1>2, <1>3, <1>4, IdleIsAPass, IdleIsSound, WriterMoves

(***************************************************************************)
(* The other steps.                                                        *)
(***************************************************************************)

\* A retraction row changes no pass and no disclosure.
LEMMA RetractionKeeps ==
  ASSUME RecentIndInv, AppendRetraction
  PROVE  RecentIndInv'
<1>1. PICK i \in DOMAIN rcRows, t \in Retractions :
        rcRows' = AppendIfAbsent(rcRows,
          Row(rcRows[i].ws, <<"retraction", i>>, "retraction", t.anchor, <<>>, NoRelation,
              rcClock, {}, t.truth, [target |-> rcRows[i].key, status |-> t.status]))
  BY DEF AppendRetraction
<1> DEFINE row == Row(rcRows[i].ws, <<"retraction", i>>, "retraction", t.anchor, <<>>, NoRelation,
                      rcClock, {}, t.truth, [target |-> rcRows[i].key, status |-> t.status])
<1>2. row.ws = rcRows[i].ws /\ row.type = "retraction" /\ row.at = rcClock /\ row.key = <<"retraction", i>>
  BY DEF Row
<1>3. rcRows' = rcRows \/ rcRows' = Append(rcRows, row)
  BY <1>1 DEF AppendIfAbsent
<1> HIDE DEF row
<1>4. Len(rcRows) \in Nat /\ DOMAIN rcRows = 1..Len(rcRows) /\ rcRows \in Seq(Stored(rcRows))
      /\ rcClock \in Nat
  BY InvIsRows DEF Rows
<1>5. ASSUME rcRows' = Append(rcRows, row) PROVE Extends(row)
  <2>1. rcRows'[Len(rcRows) + 1] = row
    BY <1>4, <1>5, Appended
  <2>2. KeyIsDerived(rcRows', Len(rcRows) + 1)
    <3>1. i \in Nat
      BY <1>4
    <3> QED
      BY <1>2, <2>1, <3>1 DEF KeyIsDerived
  <2>3. rcRows[i].ws \in Workspaces
    BY DEF RecentIndInv, RecentTypeOK
  <2>4. row.at \in 0..rcClock
    BY <1>2, <1>4
  <2> QED
    BY <1>2, <1>5, <2>2, <2>3, <2>4 DEF Extends, Kinds
<1>6. StoreStep
  BY <1>3, <1>5 DEF StoreStep
<1>7. UNCHANGED <<rcClock, rcWorld, rcPass, rcChanges>>
  BY DEF AppendRetraction
<1>8. \A ws : CoverageRows(rcRows', ws, Anchor) = CoverageRows(rcRows, ws, Anchor)
  <2>1. CASE rcRows' = rcRows
    BY <2>1
  <2>2. CASE rcRows' = Append(rcRows, row)
    BY <1>2, <1>5, <2>2, OtherCoverageStays
  <2> QED
    BY <1>3, <2>1, <2>2
<1>9. rcClock' \in 0..MaxClock /\ rcClock' \in Nat /\ rcClock <= rcClock'
      /\ rcChanges' \in 0..MaxChanges
  BY <1>4, <1>7 DEF RecentIndInv, RecentTypeOK
<1>10. \A q \in Workers : PassIsSound(q)'
  BY <1>6, <1>7, <1>8, <1>9, PassStays
<1>11. /\ rcWorld' \in [missing : MissingSets, relation : Relations \union {NoRelation}]
       /\ rcPass' \in [Workers -> Passes]
  BY <1>7 DEF RecentIndInv
<1> QED
  BY <1>6, <1>9, <1>10, <1>11, InvFromParts

\* The evidence changes, or time passes.
LEMMA OutsideKeeps ==
  ASSUME RecentIndInv, ChangeEvidence \/ RecentTick \/ UNCHANGED rcVars
  PROVE  RecentIndInv'
<1>1. rcRows' = rcRows /\ rcPass' = rcPass
  BY DEF ChangeEvidence, RecentTick, rcVars
<1>2. StoreStep
  BY <1>1 DEF StoreStep
<1>3. rcClock \in 0..MaxClock /\ rcClock \in Nat /\ MaxClock \in Nat
      /\ rcChanges \in 0..MaxChanges /\ MaxChanges \in Nat
  BY InvIsRows, RecentAssumption DEF RecentIndInv, RecentTypeOK
<1>4. rcClock' \in 0..MaxClock /\ rcClock' \in Nat /\ rcClock <= rcClock'
      /\ rcChanges' \in 0..MaxChanges
  BY <1>3 DEF ChangeEvidence, RecentTick, rcVars
<1>5. rcWorld' \in [missing : MissingSets, relation : Relations \union {NoRelation}]
  <2>1. rcWorld \in [missing : MissingSets, relation : Relations \union {NoRelation}]
    BY DEF RecentIndInv
  <2>2. CASE ChangeEvidence
    BY <2>1, <2>2 DEF ChangeEvidence
  <2> QED
    BY <2>1, <2>2 DEF RecentTick, rcVars
<1>6. \A q \in Workers : PassIsSound(q)'
  BY <1>1, <1>2, <1>4, PassStays
<1> QED
  BY <1>1, <1>2, <1>4, <1>5, <1>6, InvFromParts DEF RecentIndInv
(***************************************************************************)
(* The theorems.                                                           *)
(***************************************************************************)

\* A database of an earlier release holds at most one row, under its own key.
LEMMA InitHolds == RecentInit => RecentIndInv
<1> SUFFICES ASSUME RecentInit PROVE RecentIndInv
  OBVIOUS
<1>1. /\ rcClock \in 0..MaxClock /\ rcChanges \in 0..MaxChanges /\ rcClock = 0
      /\ rcWorld \in [missing : MissingSets, relation : Relations \union {NoRelation}]
  BY RecentAssumption DEF RecentInit
<1>2. rcPass \in [Workers -> Passes] /\ \A p \in Workers : rcPass[p] = Idle
  BY IdleIsAPass DEF RecentInit
<1>3. ASSUME NEW row, rcRows = <<row>>, row.ws \in Workspaces, row.at = 0, row.type \in Kinds,
             KeyIsDerived(<<row>>, 1)
      PROVE  /\ RowsAreRows /\ OneRowPerFact /\ Len(rcRows) \in Nat
             /\ \A i \in DOMAIN rcRows : /\ rcRows[i].ws \in Workspaces
                                         /\ rcRows[i].at \in 0..rcClock
                                         /\ rcRows[i].type \in Kinds
  <2>1. DOMAIN rcRows = {1} /\ rcRows[1] = row /\ Len(rcRows) = 1
    BY <1>3
  <2>2. rcRows \in Seq({rcRows[i] : i \in DOMAIN rcRows})
    <3>1. {rcRows[i] : i \in DOMAIN rcRows} = {row}
      BY <2>1
    <3> QED
      BY <1>3, <3>1
  <2>3. RowsAreRows
    BY <1>3, <2>1, <2>2 DEF RowsAreRows
  <2>4. OneRowPerFact
    BY <2>1 DEF OneRowPerFact
  <2> QED
    BY <1>1, <1>3, <2>1, <2>3, <2>4
<1>4. /\ RowsAreRows /\ OneRowPerFact /\ Len(rcRows) \in Nat
      /\ \A i \in DOMAIN rcRows : /\ rcRows[i].ws \in Workspaces
                                  /\ rcRows[i].at \in 0..rcClock
                                  /\ rcRows[i].type \in Kinds
  <2>1. CASE rcRows = <<>>
    <3>1. DOMAIN rcRows = {} /\ Len(rcRows) = 0
      BY <2>1
    <3>2. rcRows \in Seq({rcRows[i] : i \in DOMAIN rcRows})
      BY <2>1
    <3> QED
      BY <3>1, <3>2 DEF RowsAreRows, OneRowPerFact
  <2>2. ASSUME NEW ws \in Workspaces, NEW f \in LegacyFacts,
               rcRows = <<RelationRow(ws, LegacyKey(ws, f), f.anchor, f.target, f.rel, 0, {})>>
        PROVE  /\ RowsAreRows /\ OneRowPerFact /\ Len(rcRows) \in Nat
               /\ \A i \in DOMAIN rcRows : /\ rcRows[i].ws \in Workspaces
                                           /\ rcRows[i].at \in 0..rcClock
                                           /\ rcRows[i].type \in Kinds
    <3> DEFINE row == RelationRow(ws, LegacyKey(ws, f), f.anchor, f.target, f.rel, 0, {})
    <3>1. /\ row.ws = ws /\ row.type = "relation_resolved" /\ row.anchor = f.anchor
          /\ row.target = f.target /\ row.rel = f.rel /\ row.at = 0 /\ row.key = LegacyKey(ws, f)
      BY DEF RelationRow, Row
    <3>2. f.rel = Saying(f.rel)
      BY RecentAssumption
    <3> HIDE DEF row
    <3>3. row.key \in LegacyRelationKeys(row.ws, row.anchor, row.target, row.rel)
      BY <3>1 DEF LegacyKey, LegacyRelationKeys
    <3>4. <<row>>[1] = row
      OBVIOUS
    <3>5. KeyIsDerived(<<row>>, 1)
      BY <3>1, <3>2, <3>3, <3>4 DEF KeyIsDerived
    <3> QED
      BY <1>3, <2>2, <3>1, <3>5 DEF Kinds, row
  <2>3. ASSUME NEW ws \in Workspaces, NEW m \in MissingSets,
               rcRows = <<CoverageRow(ws, <<"cov:065", ws, Anchor, m, 0, 0>>, Anchor, 0, m)>>
        PROVE  /\ RowsAreRows /\ OneRowPerFact /\ Len(rcRows) \in Nat
               /\ \A i \in DOMAIN rcRows : /\ rcRows[i].ws \in Workspaces
                                           /\ rcRows[i].at \in 0..rcClock
                                           /\ rcRows[i].type \in Kinds
    <3> DEFINE row == CoverageRow(ws, <<"cov:065", ws, Anchor, m, 0, 0>>, Anchor, 0, m)
    <3>1. /\ row.ws = ws /\ row.type = "coverage_disclosure" /\ row.anchor = Anchor
          /\ row.missing = m /\ row.at = 0 /\ row.key = <<"cov:065", ws, Anchor, m, 0, 0>>
      BY DEF CoverageRow, Row
    <3> HIDE DEF row
    <3>2. row.key \in LegacyCoverageKeys(row.ws, row.anchor, row.missing, 0, 0)
      BY <3>1 DEF LegacyCoverageKeys
    <3>3. <<row>>[1] = row /\ 0 \in 0..(1 - 1)
      OBVIOUS
    <3>4. KeyIsDerived(<<row>>, 1)
      BY <3>1, <3>2, <3>3 DEF KeyIsDerived
    <3> QED
      BY <1>3, <2>3, <3>1, <3>4 DEF Kinds, row
  <2>4. \/ rcRows = <<>>
        \/ \E ws \in Workspaces, f \in LegacyFacts :
             rcRows = <<RelationRow(ws, LegacyKey(ws, f), f.anchor, f.target, f.rel, 0, {})>>
        \/ \E ws \in Workspaces, m \in MissingSets :
             rcRows = <<CoverageRow(ws, <<"cov:065", ws, Anchor, m, 0, 0>>, Anchor, 0, m)>>
    BY DEF RecentInit
  <2> QED
    BY <2>1, <2>2, <2>3, <2>4
<1>5. \A p \in Workers : PassIsSound(p)
  <2>1. rcClock \in Nat /\ Len(rcRows) \in Nat
    BY <1>1, <1>4
  <2> SUFFICES ASSUME NEW p \in Workers PROVE PassIsSound(p)
    OBVIOUS
  <2>2. ItsRelationIsStored(p) /\ QuietIsCurrent(p)
    BY <1>2, IdleIsAPass DEF ItsRelationIsStored, QuietIsCurrent
  <2> QED
    BY <1>2, <2>1, <2>2, IdleIsAPass DEF PassIsSound
<1>6. RecentTypeOK
  BY <1>1, <1>4, <1>5 DEF RecentTypeOK, PassIsSound, Kinds
<1>7. ResolvedIsPublished
  BY <1>5 DEF ResolvedIsPublished, PassIsSound, ItsRelationIsStored
<1> QED
  BY <1>1, <1>2, <1>4, <1>5, <1>6, <1>7 DEF RecentIndInv, PassIsSound

LEMMA NextKeeps == RecentIndInv /\ [RecentNext]_rcVars => RecentIndInv'
BY BeginKeeps, ResolveKeeps, AppendRelationKeeps, ReadKeeps, DiscloseKeeps, FailKeeps,
   RetractionKeeps, OutsideKeeps DEF RecentNext, PassStep

\* A fact is stored once and shown once, for any workers, workspaces, relations,
\* legacy rows, retractions and refresh interval (run_for_anchor,
\* append_recent_event_if_absent, fetch_relations, fetch_recent_timeline).
THEOREM StoredOnce == RecentSpec => []FactsAreStoredOnce
<1>1. RecentSpec => []RecentIndInv
  BY InitHolds, NextKeeps, PTL DEF RecentSpec
<1> QED
  BY <1>1, IndInvSuffices, PTL

-----------------------------------------------------------------------------
(* What a step may do to the views.                                        *)

\* Every step is a step of the store.
LEMMA NextStores ==
  ASSUME RecentIndInv, [RecentNext]_rcVars
  PROVE  rcRows' = rcRows \/ \E row : rcRows' = Append(rcRows, row)
<1>1. ASSUME NEW p \in Workers, PassStep(p) \/ FailPass(p)
      PROVE  rcRows' = rcRows \/ \E row : rcRows' = Append(rcRows, row)
  <2>1. CASE AppendRelation(p)
    BY <2>1 DEF AppendRelation, AppendIfAbsent
  <2>2. CASE DiscloseCoverage(p)
    BY <2>2 DEF DiscloseCoverage, AppendIfAbsent
  <2> QED
    BY <1>1, <2>1, <2>2 DEF PassStep, BeginPass, ResolveAnchor, ReadCoverage, FailPass
<1>2. CASE AppendRetraction
  BY <1>2 DEF AppendRetraction, AppendIfAbsent
<1>3. CASE ChangeEvidence \/ RecentTick \/ UNCHANGED rcVars
  BY <1>3 DEF ChangeEvidence, RecentTick, rcVars
<1> QED
  BY <1>1, <1>2, <1>3 DEF RecentNext

LEMMA HidingIsValid ==
  ASSUME RecentIndInv, [RecentNext]_rcVars
  PROVE  OnlyValidRetractionsHide
<1> SUFFICES ASSUME NEW ws \in Workspaces,
                    NEW i \in VisibleRelations(rcRows, ws, Anchor),
                    i \notin VisibleRelations(rcRows', ws, Anchor)
             PROVE  /\ rcRows'[Len(rcRows')].retraction.target = rcRows[i].key
                    /\ rcRows'[Len(rcRows')].anchor = Anchor
                    /\ rcRows'[Len(rcRows')].truth = "confirmed"
                    /\ rcRows'[Len(rcRows')].retraction.status # "unknown"
  BY DEF OnlyValidRetractionsHide
<1>1. PICK row : rcRows' = Append(rcRows, row)
  <2>1. rcRows' # rcRows
    OBVIOUS
  <2> QED
    BY <2>1, NextStores
<1>2. Len(rcRows) \in Nat /\ DOMAIN rcRows = 1..Len(rcRows) /\ rcRows \in Seq(Stored(rcRows))
  BY InvIsRows DEF Rows
<1> DEFINE n == Len(rcRows) + 1
<1>3. /\ DOMAIN rcRows' = 1..n /\ Len(rcRows') = n /\ rcRows'[n] = row
      /\ \A j \in 1..Len(rcRows) : rcRows'[j] = rcRows[j]
  BY <1>1, <1>2, Appended
<1>4. \A j \in 1..n : j \in DOMAIN rcRows \/ j = n
  BY <1>2
<1>5. DOMAIN rcRows \subseteq DOMAIN rcRows'
  BY <1>2, <1>3
<1>6. /\ i \in DOMAIN rcRows /\ i \in DOMAIN rcRows' /\ rcRows'[i] = rcRows[i]
      /\ rcRows[i].anchor = Anchor /\ ~Retracted(rcRows, i)
  BY <1>2, <1>3, <1>5 DEF VisibleRelations
<1>7. Retracted(rcRows', i)
  BY <1>6 DEF VisibleRelations
<1>8. PICK j \in DOMAIN rcRows' :
        /\ rcRows'[j].ws = rcRows'[i].ws
        /\ rcRows'[j].anchor = rcRows'[i].anchor
        /\ rcRows'[j].retraction.target = rcRows'[i].key
        /\ rcRows'[j].retraction.status \in {"superseded", "erroneous"}
        /\ rcRows'[j].truth = "confirmed"
  BY <1>7 DEF Retracted
<1>9. j \notin DOMAIN rcRows
  BY <1>2, <1>3, <1>6, <1>8 DEF Retracted
<1>10. j = Len(rcRows')
  BY <1>3, <1>4, <1>8, <1>9
<1> QED
  BY <1>6, <1>8, <1>10

\* Only its own last statement ends a pass without a failure.
LEMMA WhoEndsQuietly ==
  ASSUME RecentIndInv, [RecentNext]_rcVars, NEW p \in Workers, EndsQuietly(p)
  PROVE  ReadCoverage(p) \/ DiscloseCoverage(p)
<1>1. rcPass[p].pc \in {"read", "disclose"} /\ rcPass'[p].pc = "idle" /\ rcChanges' = rcChanges
  BY IdleIsAPass DEF EndsQuietly
<1>2. rcPass \in [Workers -> Passes] /\ rcChanges \in Nat
  BY RecentAssumption DEF RecentIndInv, RecentTypeOK
<1>3. \A q \in Workers : ~FailPass(q)
  BY <1>1, <1>2 DEF FailPass
<1>4. ~(AppendRetraction \/ ChangeEvidence \/ RecentTick \/ UNCHANGED rcVars)
  BY <1>1 DEF AppendRetraction, ChangeEvidence, RecentTick, rcVars
<1>5. PICK q \in Workers : PassStep(q)
  BY <1>3, <1>4 DEF RecentNext
<1>6. ASSUME q # p PROVE FALSE
  <2>1. [rcPass[p] EXCEPT !.alone = FALSE].pc = rcPass[p].pc
    BY <1>2 DEF Passes
  <2>2. \A rows : Disturb(q, rows)[p].pc = rcPass[p].pc
    BY <2>1 DEF Disturb
  <2>3. CASE BeginPass(q) \/ ResolveAnchor(q) \/ ReadCoverage(q)
    BY <1>1, <1>2, <1>6, <2>3 DEF BeginPass, ResolveAnchor, ReadCoverage
  <2>4. CASE AppendRelation(q)
    <3>1. rcPass'[p] = Disturb(q, rcRows')[p]
      BY <1>6, <2>4 DEF AppendRelation, Disturb
    <3> QED
      BY <1>1, <2>2, <3>1
  <2>5. CASE DiscloseCoverage(q)
    <3>1. rcPass'[p] = Disturb(q, rcRows')[p]
      BY <1>6, <2>5 DEF DiscloseCoverage, Disturb
    <3> QED
      BY <1>1, <2>2, <3>1
  <2> QED
    BY <1>5, <2>3, <2>4, <2>5 DEF PassStep
<1> QED
  BY <1>1, <1>5, <1>6 DEF PassStep, BeginPass, ResolveAnchor, AppendRelation

\* The disclosure of a pass nobody disturbed comes into force, or a row stamped
\* earlier than the one in force already records the same transition.
LEMMA QuietDiscloses ==
  ASSUME RecentIndInv, NEW p \in Workers, DiscloseCoverage(p), rcPass[p].alone
  PROVE  \/ CoverageInForce(rcRows', ScopeOf[p]) = rcPass[p].missing
         \/ SaidTooEarly(rcRows', ScopeOf[p], rcPass[p].missing)
<1> DEFINE ws == ScopeOf[p]
           S == CoverageRows(rcRows, ws, Anchor)
           k == CurrentCoverage(rcRows, ws, Anchor)
<1>1. /\ rcPass[p].latest = k
      /\ \A i \in S : rcRows[i].at <= rcPass[p].now
      /\ rcPass[p] \in Passes
  BY PassesAreSound DEF PassIsSound, QuietIsCurrent, DiscloseCoverage, RecentIndInv
<1>2. /\ Len(rcRows) \in Nat /\ DOMAIN rcRows = 1..Len(rcRows) /\ rcRows \in Seq(Stored(rcRows))
      /\ rcClock \in Nat /\ Rows(rcRows, rcClock)
  BY InvIsRows DEF Rows
<1>3. CASE rcRows' = rcRows
  <2>1. PICK i \in S : rcRows[i].missing = rcPass[p].missing /\ k < i
    <3>1. \/ \E i \in S : rcRows[i].missing = rcPass[p].missing /\ k < i
          \/ \E row : Extends(row)
      BY <1>1, DiscloseEffect DEF CoverageRows
    <3>2. ~ \E row : Extends(row)
      <4> SUFFICES ASSUME NEW row, Extends(row) PROVE FALSE
        OBVIOUS
      <4>1. Len(rcRows') = Len(rcRows) + 1
        BY <1>2, Appended DEF Extends
      <4> QED
        BY <1>2, <1>3, <4>1
    <3> QED
      BY <3>1, <3>2
  <2>2. k \in S /\ Newer(rcRows, k, i)
    BY <1>2, <2>1, CurrentIsNewest
  <2>3. rcRows[i].at \in Nat /\ rcRows[k].at \in Nat /\ i \in Nat /\ k \in Nat
    BY <1>2, <2>1, <2>2 DEF Rows, CoverageRows
  <2>4. i > k /\ rcRows[i].at < rcRows[k].at
    <3> HIDE DEF k
    <3> QED
      BY <2>1, <2>2, <2>3 DEF Newer
  <2> QED
    BY <1>3, <2>1, <2>4 DEF SaidTooEarly
<1>4. CASE rcRows' # rcRows
  <2>1. PICK row : /\ Extends(row)
                   /\ row.ws = ws /\ row.anchor = Anchor
                   /\ row.type = "coverage_disclosure"
                   /\ row.missing = rcPass[p].missing /\ row.at = rcPass[p].now
    BY <1>4, DiscloseEffect
  <2> DEFINE n == Len(rcRows) + 1
             T == CoverageRows(rcRows', ws, Anchor)
  <2>2. /\ DOMAIN rcRows' = 1..n /\ rcRows'[n] = row
        /\ \A i \in 1..Len(rcRows) : rcRows'[i] = rcRows[i]
    BY <1>2, <2>1, Appended DEF Extends
  <2>3. n \in T /\ T \subseteq 1..n /\ T \subseteq Nat
    BY <1>2, <2>1, <2>2 DEF CoverageRows
  <2>4. \A i \in T : i # n => i \in S /\ rcRows'[i] = rcRows[i] /\ i \in 1..Len(rcRows)
    <3> SUFFICES ASSUME NEW i \in T, i # n
                 PROVE  i \in S /\ rcRows'[i] = rcRows[i] /\ i \in 1..Len(rcRows)
      OBVIOUS
    <3>1. i \in 1..Len(rcRows)
      BY <1>2, <2>3
    <3>2. rcRows'[i] = rcRows[i]
      BY <2>2, <3>1
    <3>3. i \in S
      BY <1>2, <3>1, <3>2 DEF CoverageRows
    <3> QED
      BY <3>1, <3>2, <3>3
  <2>5. rcPass[p].now \in Nat
    BY <1>1 DEF Passes
  <2>6. \A i \in S : rcRows[i].at \in Nat
    BY <1>2 DEF Rows, CoverageRows
  <2>7. \A i \in T : rcRows'[i].at \in Nat /\ rcRows'[i].at <= rcPass[p].now
    BY <1>1, <2>1, <2>2, <2>4, <2>5, <2>6
  <2>8. \A i \in T : Newer(rcRows', n, i)
    <3>1. \A i \in T : i \in Nat /\ i <= n /\ n \in Nat
      BY <1>2, <2>3
    <3> QED
      BY <2>1, <2>2, <2>5, <2>7, <3>1 DEF Newer
  <2>9. LatestOf(rcRows', T) = n
    <3> HIDE DEF T, n
    <3> QED
      BY <2>3, <2>7, <2>8, LatestUnique
  <2>10. CurrentCoverage(rcRows', ws, Anchor) = n /\ n # 0
    BY <1>2, <2>9 DEF CurrentCoverage
  <2> QED
    BY <2>1, <2>2, <2>10 DEF CoverageInForce
<1> QED
  BY <1>3, <1>4

LEMMA QuietDecides ==
  ASSUME RecentIndInv, [RecentNext]_rcVars
  PROVE  QuietPassDecidesCoverage
<1> SUFFICES ASSUME NEW p \in Workers, EndsQuietly(p)
             PROVE  \/ CoverageInForce(rcRows', ScopeOf[p]) = rcPass[p].missing
                    \/ SaidTooEarly(rcRows', ScopeOf[p], rcPass[p].missing)
  BY DEF QuietPassDecidesCoverage
<1>1. CASE DiscloseCoverage(p)
  BY <1>1, QuietDiscloses DEF EndsQuietly
<1>2. CASE ReadCoverage(p)
  <2> DEFINE k == CurrentCoverage(rcRows, ScopeOf[p], Anchor)
  <2>1. rcRows' = rcRows /\ rcPass'[p].pc = "idle"
    BY <1>2, IdleIsAPass DEF ReadCoverage, EndsQuietly
  <2>2. ~NeedsDisclosure(rcRows, k, rcPass[p].missing, rcPass[p].now)
    <3> SUFFICES ASSUME NeedsDisclosure(rcRows, k, rcPass[p].missing, rcPass[p].now)
                 PROVE  FALSE
      OBVIOUS
    <3>1. rcPass \in [Workers -> Passes] /\ rcPass[p] \in Passes
      BY DEF RecentIndInv
    <3>2. rcPass'[p] = [rcPass[p] EXCEPT !.pc = "disclose", !.latest = k]
      BY <1>2, <3>1 DEF ReadCoverage
    <3>3. [rcPass[p] EXCEPT !.pc = "disclose", !.latest = k].pc = "disclose"
      BY <3>1 DEF Passes
    <3> QED
      BY <2>1, <3>2, <3>3
  <2>3. IF k = 0 THEN rcPass[p].missing = {} ELSE rcRows[k].missing = rcPass[p].missing
    BY <2>2 DEF NeedsDisclosure
  <2> QED
    BY <2>1, <2>3 DEF CoverageInForce
<1> QED
  BY <1>1, <1>2, WhoEndsQuietly

\* No step hides a relation except by a valid retraction, and a pass that nobody
\* disturbed leaves the coverage it saw in force, or finds the transition
\* recorded by a late pass (run_for_anchor, fetch_relations).
THEOREM HonestViews == RecentSpec => ViewsAreHonest
<1>1. RecentSpec => []RecentIndInv
  BY InitHolds, NextKeeps, PTL DEF RecentSpec
<1>2. RecentIndInv /\ [RecentNext]_rcVars =>
        [QuietPassDecidesCoverage /\ OnlyValidRetractionsHide]_rcVars
  BY HidingIsValid, QuietDecides
<1> QED
  BY <1>1, <1>2, PTL DEF RecentSpec, ViewsAreHonest

=============================================================================
