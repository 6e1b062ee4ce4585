----------------------------- MODULE CaseRepair -----------------------------
(***************************************************************************)
(* preflight_repair_funding_case_identity (db.rs): duplicate funding cases *)
(* of one (workspace, chain, recipient) are merged onto the lowest id      *)
(* before migration 1037 runs, in one transaction.                         *)
(*                                                                         *)
(* A store is [cases, events, alerts, uidx, caseColumn]:                   *)
(*   cases   id -> [group, first, facts, stage, score, evidence], where    *)
(*           facts names the first funding (usd, native, source), score    *)
(*           the columns merged by max, evidence is a set of               *)
(*           <<key, value>> or the scalar the column defaults to;          *)
(*   events  event -> case id;                                             *)
(*   alerts  set of [subject, dest, state, case]: the dedup key is         *)
(*           (subject, dest), the primary key, and case is funding_case_id *)
(***************************************************************************)
EXTENDS Naturals, FiniteSets, FiniteSetsExt

ScalarEvidence == {<<"", 0>>}   \* a pair without a key: the column is not an object
StageRank == [funded |-> 1, preparation |-> 2, deployed |-> 3, dismissed |-> 4]

Group(s, id) == {k \in DOMAIN s.cases : s.cases[k].group = s.cases[id].group}
Keep(s, id) == Min(Group(s, id))
MergedAway(s) == {id \in DOMAIN s.cases : Keep(s, id) # id}

\* 1037 not run, and a scalar evidence or a duplicate group: else untouched.
NeedsRepair(s) ==
  /\ ~s.uidx
  /\ MergedAway(s) # {} \/ \E id \in DOMAIN s.cases : s.cases[id].evidence = ScalarEvidence

\* The data is kept under a key of its own.
Normalized(e) == IF e = ScalarEvidence THEN {<<"legacy_evidence", 0>>} ELSE e

\* The first-funding facts travel with the earliest row, not with the survivor.
FirstRow(s, g) ==
  CHOOSE id \in g : \A k \in g : \/ s.cases[id].first < s.cases[k].first
                                 \/ s.cases[id].first = s.cases[k].first /\ id <= k

LastStage(s, g) ==
  s.cases[CHOOSE id \in g : \A k \in g :
            LET a == StageRank[s.cases[id].stage]
                b == StageRank[s.cases[k].stage]
            IN a > b \/ (a = b /\ id >= k)].stage

\* Per key the value of the newest row (jsonb_object_agg over DISTINCT ON).
MergedEvidence(s, g) ==
  LET Of(id) == Normalized(s.cases[id].evidence)
  IN UNION {{kv \in Of(id) : \A k \in g : k > id => \A kw \in Of(k) : kw[1] # kv[1]} : id \in g}

\* Every semantic column onto the survivor.
MergedCase(s, id) ==
  LET g == Group(s, id)
  IN [s.cases[id] EXCEPT !.first = s.cases[FirstRow(s, g)].first,
                         !.facts = s.cases[FirstRow(s, g)].facts,
                         !.stage = LastStage(s, g),
                         !.score = Max({s.cases[k].score : k \in g}),
                         !.evidence = MergedEvidence(s, g)]

-----------------------------------------------------------------------------
(* The alerts: the key's subject segment becomes the survivor.             *)

Stale(s, a) == a.subject \in MergedAway(s)
NewSubject(s, a) == IF Stale(s, a) THEN Keep(s, a.subject) ELSE a.subject
Repointed(s, a) == [a EXCEPT !.case = IF @ \in MergedAway(s) THEN Keep(s, @) ELSE @]

SameNewKey(s, a, t) == NewSubject(s, a) = t.subject /\ a.dest = t.dest

\* Mutant: the stale row is dropped without its delivery fact.
FoldedWithoutSent(s, t) == t

\* The row that already holds the survivor's key wins, and learns that a
\* stale-keyed copy was sent.
Folded(s, t) ==
  IF \E a \in s.alerts : Stale(s, a) /\ SameNewKey(s, a, t) /\ a.state = "sent"
  THEN [t EXCEPT !.state = "sent"] ELSE t

Superseded(s, a) == Stale(s, a) /\ \E t \in s.alerts : SameNewKey(s, a, t)

\* What is left is rekeyed; two stale rows that get one key violate the
\* primary key, and the transaction with everything in it is rolled back.
Rekeyed(s, a) == [Repointed(s, Folded(s, a)) EXCEPT !.subject = NewSubject(s, a)]
RekeyCollides(s) ==
  \E a, b \in {x \in s.alerts : Stale(s, x) /\ ~Superseded(s, x)} :
    a # b /\ NewSubject(s, a) = NewSubject(s, b) /\ a.dest = b.dest

RepairedAlerts(s) ==
  IF ~s.caseColumn THEN s.alerts
  ELSE {Rekeyed(s, a) : a \in {x \in s.alerts : ~Superseded(s, x)}}

RepairedEvents(s) == [e \in DOMAIN s.events |->
                        IF s.events[e] \in MergedAway(s) THEN Keep(s, s.events[e]) ELSE s.events[e]]

NormalizedCases(s) ==
  [id \in DOMAIN s.cases |-> [s.cases[id] EXCEPT !.evidence = Normalized(@)]]

RepairFundingCases(s) ==
  IF ~NeedsRepair(s) \/ (s.caseColumn /\ RekeyCollides(s)) THEN s
  ELSE IF MergedAway(s) = {} THEN [s EXCEPT !.cases = NormalizedCases(s)]
  ELSE [s EXCEPT !.cases = [id \in DOMAIN s.cases \ MergedAway(s) |-> MergedCase(s, id)],
                 !.events = RepairedEvents(s),
                 !.alerts = RepairedAlerts(s)]

-----------------------------------------------------------------------------
(* What the repair promises, for every store s.                            *)

Subjects(s, group) == {id \in DOMAIN s.cases : s.cases[id].group = group}

\* No history is lost: every event survives, on a case of the same identity,
\* and so does every key of the evidence; the earliest funding keeps its facts.
RepairKeepsHistory(s) ==
  LET t == RepairFundingCases(s)
  IN /\ DOMAIN t.events = DOMAIN s.events
     /\ \A e \in DOMAIN s.events :
          /\ t.events[e] \in DOMAIN t.cases
          /\ t.cases[t.events[e]].group = s.cases[s.events[e]].group
     /\ \A id \in DOMAIN s.cases : \E k \in Subjects(t, s.cases[id].group) :
          /\ {kv[1] : kv \in Normalized(s.cases[id].evidence)}
               \subseteq {kv[1] : kv \in Normalized(t.cases[k].evidence)}
          /\ s.cases[id].first = t.cases[k].first =>
               \/ s.cases[id].facts = t.cases[k].facts
               \/ \E other \in Group(s, id) : other < id /\ s.cases[other].first = s.cases[id].first

\* A delivery that happened stays known: when any alert of an identity was
\* sent to a destination, the alert that stands for it afterwards is sent, so
\* the outbox never repeats the send.
RepairKeepsSent(s) ==
  LET t == RepairFundingCases(s)
  IN \A a \in s.alerts : s.caseColumn /\ a.state = "sent" =>
       \E b \in t.alerts :
         /\ b.dest = a.dest /\ b.state = "sent"
         /\ b.subject = a.subject \/ b.subject \in Subjects(t, s.cases[a.subject].group)

\* One outbox row per case and destination: keys stay unique, and none that a
\* completed repair leaves names a case that is gone.
RepairKeysUnique(s) ==
  LET t == RepairFundingCases(s)
  IN /\ \A a, b \in t.alerts : a.subject = b.subject /\ a.dest = b.dest => a = b
     /\ s.caseColumn /\ MergedAway(t) = {} => \A a \in t.alerts : a.subject \in DOMAIN t.cases

\* "Afterwards 1037 finds zero duplicate groups and is a no-op" (db.rs).
RepairLeavesNoDuplicates(s) == s.uidx \/ MergedAway(RepairFundingCases(s)) = {}
=============================================================================
