--------------------------- MODULE RecentPipeline ---------------------------
(***************************************************************************)
(* Token Recent intelligence: the pass that resolves one anchor token and  *)
(* appends what it found (sf/recent_pipeline.rs run_for_anchor, called by  *)
(* workers.rs resolve_recent_for_token), the append-only recent_events     *)
(* store (sf/recent_store.rs) and the two projections the API serves.      *)
(*                                                                         *)
(* A pass is a sequence of database statements; passes of several workers  *)
(* interleave between them.  A string is a non-empty sequence of pieces    *)
(* separated by the old "|" delimiter, so that the delimiter-joined keys   *)
(* of the previous releases keep their ambiguity; sha256 is injective.     *)
(***************************************************************************)
EXTENDS Integers, Sequences, FiniteSets

CONSTANTS
  Workers,          \* worker processes that may run a pass for the anchor
  Workspaces,       \* tenants; worker p runs in ScopeOf[p]
  ScopeOf,          \* [Workers -> Workspaces]
  Anchor,           \* the token being resolved
  Target,           \* the identity the resolver relates it to
  Relations,        \* what the resolver may say of Target: [confidence, evidence]
  MissingSets,      \* the sets of missing actor inputs an anchor can have
  LegacyFacts,      \* facts an earlier release may have published: [anchor, target, rel, enc]
  Retractions,      \* retraction rows a caller may append: [anchor, status, truth]
  RefreshSeconds,   \* COVERAGE_REFRESH_SECONDS
  WindowSeconds,    \* the default view of fetch_recent_timeline
  MaxClock,         \* bound on time
  MaxChanges        \* bound on changes of the evidence and failed passes

\* What a resolver says of a target: how sure it is, and on which evidence.
Saying(r) == [confidence |-> r.confidence, evidence |-> r.evidence]

ASSUME RecentAssumption ==
  /\ ScopeOf \in [Workers -> Workspaces]
  /\ \A r \in Relations \union {f.rel : f \in LegacyFacts} : r = Saying(r)
  /\ RefreshSeconds \in Nat \ {0} /\ WindowSeconds \in Nat
  /\ MaxClock \in Nat /\ MaxChanges \in Nat

VARIABLES
  rcClock,     \* the database's and the workers' clock
  rcWorld,     \* [missing, relation]: evidence the store holds for the anchor now
  rcRows,      \* recent_events in insertion order; a row's id is its position
  rcPass,      \* [Workers -> the pass in flight]
  rcChanges    \* changes of the evidence and failed passes so far

rcVars == <<rcClock, rcWorld, rcRows, rcPass, rcChanges>>

NoRelation == [confidence |-> "none", evidence |-> {}]
NoRetraction == [target |-> <<>>, status |-> "none"]

-----------------------------------------------------------------------------
(* Event keys.  relation_event_key frames every field, so the key is the   *)
(* tuple itself; the tag stands for the encoding's version field.          *)

Kind == <<"token">>
Relation == <<"rel">>

RelationKey(ws, anchor, target, r) ==
  <<"rel:v2", ws, anchor, Relation, target, Kind, r.confidence, r.evidence>>

RelationKey065(ws, anchor, target, r) ==
  <<"rel:065", ws, anchor, Relation, target, Kind, r.confidence, r.evidence>>

\* Joined with a bare delimiter: the field boundaries of anchor, relation
\* and target are lost.
RelationKey063(ws, anchor, target, r) ==
  <<"rel:063", ws, anchor \o Relation \o target \o Kind, r.confidence, r.evidence>>

LegacyRelationKeys(ws, anchor, target, r) ==
  {RelationKey065(ws, anchor, target, r), RelationKey063(ws, anchor, target, r)}

\* Mutant: a state is identified by its bucket alone.
CoverageKeyByBucket(ws, anchor, missing, bucket, predecessor) ==
  <<"cov:v2", ws, anchor, missing, bucket>>

\* refresh_bucket and the event id of the state being superseded make every
\* transition a row of its own.  The predecessor's id stands for its key.
CoverageKey(ws, anchor, missing, bucket, predecessor) ==
  <<"cov:v2", ws, anchor, missing, bucket, predecessor>>

LegacyCoverageKeys(ws, anchor, missing, bucket, predecessor) ==
  {<<"cov:065", ws, anchor, missing, bucket, predecessor>>,
   <<"cov:063", ws, anchor, missing, bucket, predecessor>>}

-----------------------------------------------------------------------------
(* The store.                                                              *)

Row(ws, key, type, anchor, target, r, at, missing, truth, retraction) ==
  [ws |-> ws, key |-> key, type |-> type, anchor |-> anchor, target |-> target,
   rel |-> r, at |-> at, missing |-> missing, truth |-> truth,
   retraction |-> retraction]

RelationRow(ws, key, anchor, target, r, at, missing) ==
  Row(ws, key, "relation_resolved", anchor, target, r, at, missing, "confirmed",
      NoRetraction)

CoverageRow(ws, key, anchor, at, missing) ==
  Row(ws, key, "coverage_disclosure", anchor, <<>>,
      [confidence |-> IF missing = {} THEN "exact" ELSE "insufficient",
       evidence |-> {}],
      at, missing, "confirmed", NoRetraction)

Published(rows, ws, key) == \E i \in DOMAIN rows : rows[i].ws = ws /\ rows[i].key = key

\* INSERT ... ON CONFLICT (workspace_id, event_id) DO NOTHING RETURNING id.
AppendIfAbsent(rows, row) ==
  IF Published(rows, row.ws, row.key) THEN rows ELSE Append(rows, row)

\* Mutant: a legacy key is taken as proof of the fact.
TrustTheKey(stored, candidate) == stored.type = candidate.type

\* Timestamps are not part of a fact; the missing set is only for a disclosure.
SamePublishedFact(stored, candidate) ==
  /\ stored.type = candidate.type
  /\ stored.anchor = candidate.anchor
  /\ stored.target = candidate.target
  /\ stored.rel = candidate.rel
  /\ candidate.type = "coverage_disclosure" => stored.missing = candidate.missing

LegacyRowPublishesTheSameFact(rows, ws, legacyKeys, candidate) ==
  \E i \in DOMAIN rows :
    /\ rows[i].ws = ws
    /\ rows[i].key \in legacyKeys
    /\ SamePublishedFact(rows[i], candidate)

\* ORDER BY occurred_at DESC, id DESC LIMIT 1; 0 when there is no row.
Newer(rows, i, j) == rows[i].at > rows[j].at \/ (rows[i].at = rows[j].at /\ i >= j)
LatestOf(rows, S) == IF S = {} THEN 0 ELSE CHOOSE i \in S : \A j \in S : Newer(rows, i, j)

CoverageRows(rows, ws, anchor) ==
  {i \in DOMAIN rows : /\ rows[i].ws = ws
                       /\ rows[i].anchor = anchor
                       /\ rows[i].type = "coverage_disclosure"}

CurrentCoverage(rows, ws, anchor) == LatestOf(rows, CoverageRows(rows, ws, anchor))

-----------------------------------------------------------------------------
(* The projections.                                                        *)

\* fetch_recent_timeline over a bounded window: relations by age, and the
\* current disclosure whatever its age.
Timeline(rows, ws, anchor, now) ==
  {i \in DOMAIN rows :
     /\ rows[i].ws = ws
     /\ rows[i].anchor = anchor
     /\ \/ i = CurrentCoverage(rows, ws, anchor)
        \/ rows[i].at >= now - WindowSeconds /\ rows[i].type # "coverage_disclosure"}

\* A retraction counts when it is itself confirmed, of the same token, and
\* declares a legal status.
Retracted(rows, i) ==
  \E j \in DOMAIN rows :
    /\ rows[j].ws = rows[i].ws
    /\ rows[j].anchor = rows[i].anchor
    /\ rows[j].retraction.target = rows[i].key
    /\ rows[j].retraction.status \in {"superseded", "erroneous"}
    /\ rows[j].truth = "confirmed"

VisibleRelations(rows, ws, anchor) ==
  {i \in DOMAIN rows : /\ rows[i].ws = ws
                       /\ rows[i].anchor = anchor
                       /\ rows[i].type = "relation_resolved"
                       /\ rows[i].truth = "confirmed"
                       /\ ~Retracted(rows, i)}

\* One row per (relation, kind, target): the first in occurred_at DESC, id DESC.
FetchRelations(rows, ws, anchor) ==
  {i \in VisibleRelations(rows, ws, anchor) :
     \A j \in VisibleRelations(rows, ws, anchor) :
        rows[j].target = rows[i].target => Newer(rows, i, j)}

-----------------------------------------------------------------------------
Idle == [pc |-> "idle", now |-> 0, missing |-> {}, relation |-> NoRelation,
         latest |-> 0, alone |-> TRUE]

LegacyKey(ws, f) == IF f.enc = "065" THEN RelationKey065(ws, f.anchor, f.target, f.rel)
                                     ELSE RelationKey063(ws, f.anchor, f.target, f.rel)

\* A database upgraded from an earlier release holds the rows it wrote.
RecentInit ==
  /\ rcClock = 0
  /\ rcWorld \in [missing : MissingSets, relation : {NoRelation}]
  /\ \/ rcRows = <<>>
     \/ \E ws \in Workspaces, f \in LegacyFacts :
          rcRows = <<RelationRow(ws, LegacyKey(ws, f), f.anchor, f.target, f.rel, 0, {})>>
     \/ \E ws \in Workspaces, m \in MissingSets \ {{}} :
          rcRows = <<CoverageRow(ws, <<"cov:065", ws, Anchor, m, 0, 0>>, Anchor, 0, m)>>
  /\ rcPass = [p \in Workers |-> Idle]
  /\ rcChanges = 0

\* Another worker's pass is no longer undisturbed once this one writes.
Disturb(p, rows) ==
  [q \in Workers |-> IF /\ q # p /\ rows # rcRows
                        /\ ScopeOf[q] = ScopeOf[p] /\ rcPass[q].pc # "idle"
                     THEN [rcPass[q] EXCEPT !.alone = FALSE] ELSE rcPass[q]]

\* discover_tokens_once stamps observed_at before it reads anything.
BeginPass(p) ==
  /\ rcPass[p].pc = "idle"
  /\ rcPass' = [rcPass EXCEPT ![p] = [Idle EXCEPT !.pc = "resolve", !.now = rcClock]]
  /\ UNCHANGED <<rcClock, rcWorld, rcRows, rcChanges>>

\* The activation gate passes (the only caller says Active and FirstLiquidity).
\* The evidence is read and resolved; coverage is derived from what was there.
ResolveAnchor(p) ==
  /\ rcPass[p].pc = "resolve"
  /\ rcPass' = [rcPass EXCEPT ![p].pc = IF rcWorld.relation = NoRelation
                                        THEN "read" ELSE "relate",
                              ![p].missing = rcWorld.missing,
                              ![p].relation = rcWorld.relation]
  /\ UNCHANGED <<rcClock, rcWorld, rcRows, rcChanges>>

\* Legacy rows are history, so the lookup and the atomic append are one step.
AppendRelation(p) ==
  /\ rcPass[p].pc = "relate"
  /\ LET ws == ScopeOf[p]
         r == rcPass[p].relation
         row == RelationRow(ws, RelationKey(ws, Anchor, Target, r), Anchor, Target, r,
                            rcPass[p].now, rcPass[p].missing)
         legacy == LegacyRelationKeys(ws, Anchor, Target, r)
         rows == IF LegacyRowPublishesTheSameFact(rcRows, ws, legacy, row)
                 THEN rcRows ELSE AppendIfAbsent(rcRows, row)
     IN /\ rcRows' = rows
        /\ rcPass' = [Disturb(p, rows) EXCEPT ![p].pc = "read"]
  /\ UNCHANGED <<rcClock, rcWorld, rcChanges>>

\* Mutant: an unchanged refresh interval suppresses a changed state.
DiscloseWhenStale(rows, latest, missing, now) ==
  IF latest = 0 THEN missing # {} ELSE now - rows[latest].at >= RefreshSeconds

\* Publish a changed state at once, refresh an unchanged one when stale, and
\* say nothing about full coverage that was never limited.
NeedsDisclosure(rows, latest, missing, now) ==
  /\ \/ latest = 0
     \/ rows[latest].missing # missing
     \/ now - rows[latest].at >= RefreshSeconds
  /\ ~(latest = 0 /\ missing = {})

ReadCoverage(p) ==
  /\ rcPass[p].pc = "read"
  /\ LET latest == CurrentCoverage(rcRows, ScopeOf[p], Anchor)
     IN rcPass' = [rcPass EXCEPT ![p] =
          IF NeedsDisclosure(rcRows, latest, @.missing, @.now)
          THEN [@ EXCEPT !.pc = "disclose", !.latest = latest]
          ELSE Idle]
  /\ UNCHANGED <<rcClock, rcWorld, rcRows, rcChanges>>

DiscloseCoverage(p) ==
  /\ rcPass[p].pc = "disclose"
  /\ LET ws == ScopeOf[p]
         key == CoverageKey(ws, Anchor, rcPass[p].missing,
                            rcPass[p].now \div RefreshSeconds, rcPass[p].latest)
         legacy == LegacyCoverageKeys(ws, Anchor, rcPass[p].missing,
                            rcPass[p].now \div RefreshSeconds, rcPass[p].latest)
         row == CoverageRow(ws, key, Anchor, rcPass[p].now, rcPass[p].missing)
         rows == IF LegacyRowPublishesTheSameFact(rcRows, ws, legacy, row)
                 THEN rcRows ELSE AppendIfAbsent(rcRows, row)
     IN /\ rcRows' = rows
        /\ rcPass' = [Disturb(p, rows) EXCEPT ![p] = Idle]
  /\ UNCHANGED <<rcClock, rcWorld, rcChanges>>

\* A statement that fails ends the pass; discovery logs it and goes on.  The
\* environment (failures and changes together) quietens down after MaxChanges.
FailPass(p) ==
  /\ rcPass[p].pc # "idle"
  /\ rcChanges < MaxChanges
  /\ rcChanges' = rcChanges + 1
  /\ rcPass' = [rcPass EXCEPT ![p] = Idle]
  /\ UNCHANGED <<rcClock, rcWorld, rcRows>>

\* A retraction is a new append-only row naming the event it retracts.
AppendRetraction ==
  /\ \A i \in DOMAIN rcRows : rcRows[i].type # "retraction"
  /\ \E i \in DOMAIN rcRows, t \in Retractions :
       /\ rcRows[i].type = "relation_resolved"
       /\ rcRows' = AppendIfAbsent(rcRows,
            Row(rcRows[i].ws, <<"retraction", i>>, "retraction", t.anchor, <<>>, NoRelation,
                rcClock, {}, t.truth, [target |-> rcRows[i].key, status |-> t.status]))
  /\ UNCHANGED <<rcClock, rcWorld, rcPass, rcChanges>>

\* The evidence behind the anchor changes: an actor becomes known or lost,
\* an edge is corroborated or expires.
ChangeEvidence ==
  /\ rcChanges < MaxChanges
  /\ rcChanges' = rcChanges + 1
  /\ \/ \E m \in MissingSets \ {rcWorld.missing} :
            rcWorld' = [rcWorld EXCEPT !.missing = m]
     \/ \E r \in (Relations \union {NoRelation}) \ {rcWorld.relation} :
            rcWorld' = [rcWorld EXCEPT !.relation = r]
  /\ UNCHANGED <<rcClock, rcRows, rcPass>>

RecentTick ==
  /\ rcClock < MaxClock
  /\ rcClock' = rcClock + 1
  /\ UNCHANGED <<rcWorld, rcRows, rcPass, rcChanges>>

PassStep(p) == \/ BeginPass(p) \/ ResolveAnchor(p) \/ AppendRelation(p)
               \/ ReadCoverage(p) \/ DiscloseCoverage(p)

RecentNext == \/ \E p \in Workers : PassStep(p) \/ FailPass(p)
              \/ AppendRetraction \/ ChangeEvidence \/ RecentTick

RecentSpec == RecentInit /\ [][RecentNext]_rcVars
\* Every worker's discovery loop runs forever, one statement after another, and
\* time passes.
RecentFairSpec ==
  RecentSpec /\ WF_rcVars(RecentTick) /\ \A p \in Workers : WF_rcVars(PassStep(p))
-----------------------------------------------------------------------------
RecentTypeOK ==
  /\ rcClock \in 0..MaxClock /\ rcChanges \in 0..MaxChanges
  /\ rcWorld.missing \in MissingSets
  /\ rcWorld.relation \in Relations \union {NoRelation}
  /\ \A i \in DOMAIN rcRows :
       /\ rcRows[i].ws \in Workspaces
       /\ rcRows[i].at \in 0..rcClock
       /\ rcRows[i].type \in {"relation_resolved", "coverage_disclosure", "retraction"}
  /\ \A p \in Workers :
       /\ rcPass[p].pc \in {"idle", "resolve", "relate", "read", "disclose"}
       /\ rcPass[p].now \in 0..rcClock
       /\ rcPass[p].latest \in 0..Len(rcRows)

\* No relation is published twice in a workspace: not by a retry, not by two
\* workers that resolve the same token at once, and not because an upgrade
\* changed how keys are derived (relation_event_key, legacy_relation_event_keys).
OneRowPerFact ==
  \A i, j \in DOMAIN rcRows :
    /\ i # j
    /\ rcRows[i].ws = rcRows[j].ws
    /\ rcRows[i].type = "relation_resolved"
    => ~SamePublishedFact(rcRows[i], rcRows[j])

\* A pass that got past its appends has its relation in the store: neither
\* another worker's row nor an ambiguous key of an earlier release made the
\* store swallow a new fact (run_for_anchor, legacy_row_publishes_the_same_fact).
ResolvedIsPublished ==
  \A p \in Workers :
    rcPass[p].pc \in {"read", "disclose"} /\ rcPass[p].relation # NoRelation =>
      \E i \in DOMAIN rcRows :
        /\ rcRows[i].ws = ScopeOf[p]
        /\ rcRows[i].type = "relation_resolved"
        /\ rcRows[i].anchor = Anchor /\ rcRows[i].target = Target
        /\ rcRows[i].rel = rcPass[p].relation

CoverageInForce(rows, ws) ==
  LET i == CurrentCoverage(rows, ws, Anchor) IN IF i = 0 THEN {} ELSE rows[i].missing

\* Pass p ends without a failure, and no other pass of its workspace wrote since
\* it began.
EndsQuietly(p) ==
  /\ rcPass[p].pc \in {"read", "disclose"}
  /\ rcPass[p].alone
  /\ rcPass'[p] = Idle /\ rcChanges' = rcChanges

\* "A CHANGED set must be published immediately" (run_for_anchor): a pass that
\* nobody disturbed leaves in force exactly the coverage it saw.
ChangedIsPublishedAtOnce ==
  [][\A p \in Workers :
       EndsQuietly(p) => CoverageInForce(rcRows', ScopeOf[p]) = rcPass[p].missing]_rcVars

\* A pass that began before the one whose state is in force wrote after it, and
\* its row, stamped earlier, already says what is missing.
SaidTooEarly(rows, ws, missing) ==
  LET current == CurrentCoverage(rows, ws, Anchor)
  IN \E i \in CoverageRows(rows, ws, Anchor) :
       i > current /\ rows[i].at < rows[current].at /\ rows[i].missing = missing

\* A pass that nobody disturbed leaves in force exactly the coverage it saw,
\* also when the state has been in force before in the same refresh bucket
\* (coverage_event_key's predecessor, the changed/stale/first_and_full rules).
\* The one exception is a state that a late pass of the same bucket recorded
\* as the successor of the one in force, under an earlier timestamp.
QuietPassDecidesCoverage ==
  \A p \in Workers :
    EndsQuietly(p) => \/ CoverageInForce(rcRows', ScopeOf[p]) = rcPass[p].missing
                      \/ SaidTooEarly(rcRows', ScopeOf[p], rcPass[p].missing)

\* Once the evidence stops changing and a new refresh interval begins, the
\* coverage in force in every workspace comes to agree with it for good, whatever
\* stale passes were under way (the bucket of coverage_event_key).
CoverageConverges ==
  \A ws \in {ScopeOf[p] : p \in Workers} :
    rcChanges = MaxChanges ~> [](CoverageInForce(rcRows, ws) = rcWorld.missing)

\* The default view states the coverage in force however old it is: a stalled
\* worker never turns a disclosed limitation into an empty, clean-looking
\* timeline (fetch_recent_timeline).
TimelineStatesCoverage ==
  \A ws \in Workspaces :
    LET shown == {i \in Timeline(rcRows, ws, Anchor, rcClock) :
                    rcRows[i].type = "coverage_disclosure"}
    IN CoverageRows(rcRows, ws, Anchor) # {} =>
         \E i \in shown : /\ shown = {i}
                          /\ rcRows[i].missing = CoverageInForce(rcRows, ws)

\* fetch_relations names one current row per target, whatever rows share a
\* timestamp.
OneCurrentRowPerTarget ==
  \A ws \in Workspaces :
    \A i, j \in FetchRelations(rcRows, ws, Anchor) :
      rcRows[i].target = rcRows[j].target => i = j

\* A new row hides a relation from the current view only by retracting it
\* validly; a retraction of another token or one that is not itself confirmed
\* hides nothing (fetch_relations).
OnlyValidRetractionsHide ==
  \A ws \in Workspaces :
    \A i \in VisibleRelations(rcRows, ws, Anchor) \ VisibleRelations(rcRows', ws, Anchor) :
      LET new == rcRows'[Len(rcRows')]
      IN /\ new.retraction.target = rcRows[i].key
         /\ new.anchor = Anchor
         /\ new.truth = "confirmed"
         /\ new.retraction.status # "unknown"

\* Every step leaves views that tell what is known and what is missing: coverage
\* follows the evidence, relations vanish for a valid reason only.
ViewsAreHonest == [][QuietPassDecidesCoverage /\ OnlyValidRetractionsHide]_rcVars

\* A fact is in the store once and in the views once, however passes, retries
\* and the keys of earlier releases meet.
FactsAreStoredOnce ==
  /\ RecentTypeOK
  /\ OneRowPerFact /\ ResolvedIsPublished
  /\ OneCurrentRowPerTarget /\ TimelineStatesCoverage

-----------------------------------------------------------------------------
(* The inductive invariant behind FactsAreStoredOnce and ViewsAreHonest.   *)

\* The key of a row is derived from what the row says, under one of the three
\* encodings; a disclosure names the older row it supersedes.
KeyIsDerived(rows, i) ==
  LET r == rows[i]
  IN /\ r.type = "relation_resolved" =>
          /\ r.rel = Saying(r.rel)
          /\ r.key \in {RelationKey(r.ws, r.anchor, r.target, r.rel)}
                         \union LegacyRelationKeys(r.ws, r.anchor, r.target, r.rel)
     /\ r.type = "coverage_disclosure" =>
          \E bucket \in Nat, pred \in 0..(i - 1) :
            r.key \in {CoverageKey(r.ws, r.anchor, r.missing, bucket, pred)}
                         \union LegacyCoverageKeys(r.ws, r.anchor, r.missing, bucket, pred)
     /\ r.type = "retraction" => \E n \in Nat : r.key = <<"retraction", n>>

RowsAreRows ==
  /\ rcRows \in Seq({rcRows[i] : i \in DOMAIN rcRows})
  /\ \A i \in DOMAIN rcRows : KeyIsDerived(rcRows, i)

Passes == [pc : {"idle", "resolve", "relate", "read", "disclose"}, now : Nat,
           missing : MissingSets \union {{}}, relation : Relations \union {NoRelation},
           latest : Nat, alone : BOOLEAN]

\* A pass nobody disturbed is the newest of its workspace, and what it read of
\* the coverage still stands.
QuietIsCurrent(p) ==
  LET pass == rcPass[p]
  IN pass.alone =>
       /\ pass.pc # "idle" =>
            \A i \in CoverageRows(rcRows, ScopeOf[p], Anchor) : rcRows[i].at <= pass.now
       /\ pass.pc = "disclose" =>
            /\ pass.latest = CurrentCoverage(rcRows, ScopeOf[p], Anchor)
            /\ NeedsDisclosure(rcRows, pass.latest, pass.missing, pass.now)

RecentIndInv ==
  /\ RecentTypeOK
  /\ rcWorld \in [missing : MissingSets, relation : Relations \union {NoRelation}]
  /\ rcPass \in [Workers -> Passes]
  /\ RowsAreRows
  /\ OneRowPerFact /\ ResolvedIsPublished
  /\ \A p \in Workers : QuietIsCurrent(p)

\* What the module's header promises of a revision: the current view shows the
\* version the latest undisturbed pass resolved.
RelationsShowTheLatestPass ==
  [][\A p \in Workers :
       /\ rcPass[p].pc = "relate" /\ rcPass'[p].pc = "read" /\ rcPass[p].alone
       => \A i \in FetchRelations(rcRows', ScopeOf[p], Anchor) :
            rcRows'[i].target = Target => rcRows'[i].rel = rcPass[p].relation]_rcVars
=============================================================================
