---------------------------- MODULE FundingRadar ----------------------------
(***************************************************************************)
(* The funding radar of src/funding_radar.rs: cases opened by large        *)
(* funding of fresh wallets, evidence attached to them, and the evaluation *)
(* that moves them through funded, preparation and deployed or dismisses   *)
(* them.  The evaluator runs in the worker loop (evaluate_radar_cases of   *)
(* src/workers.rs) and from the command line (src/main.rs); neither locks  *)
(* the case between its reads and its update.                              *)
(*                                                                         *)
(* One workspace and chain, so a case is named by its recipient.  Only     *)
(* transfers that are confirmed, large and to a fresh recipient appear: no *)
(* other touches a case.  Evidence observed after the `now` of a pass is   *)
(* invisible to it, which is the same as recording it after its read.      *)
(***************************************************************************)
EXTENDS Integers, FiniteSets, Sequences

CONSTANTS
    Recipients,       \* wallets a case may be about
    Signatures,       \* qualifying transfers, by signature
    InfraSignatures,  \* those whose source is labelled infrastructure
    EvidenceKinds,    \* kinds record_case_evidence and link_deployment attach
    Loops,            \* worker processes that run evaluate_radar_cases
    Operators,        \* command-line evaluations
    Ingesters,        \* tasks that run ingest_funding_event
    Required,         \* preparation_evidence_required
    AlertConfidence,  \* preparation_alert_confidence
    Window,           \* preparation_window_days
    PassLimit,        \* LIMIT of the evaluation pass
    MaxAborts         \* bound on crashes and propagated errors

ASSUME SignaturesAssumption == InfraSignatures \subseteq Signatures
ASSUME KindsAssumption == IsFiniteSet(EvidenceKinds)
ASSUME NumbersAssumption ==
    /\ {Required, AlertConfidence, MaxAborts} \subseteq Nat
    /\ {Window, PassLimit} \subseteq Nat \ {0}

VARIABLES
    cases,    \* funding_radar_cases: stage, confidence, wide fan-out, time left
    older,    \* the pairs of recipients whose cases were updated in that order
    events,   \* funding_radar_events of each case
    alerted,  \* recipients whose case has an alerts row
    ipc, job, \* where each ingester is, and the transfer it handles
    epc,      \* where each evaluator is
    todo,     \* the recipients its pass has left, the current one first
    late,     \* the cases whose window was over at the `now` of its pass
    snap,     \* the case it fetched
    plan,     \* the update it decided on
    aborts    \* crashes and propagated errors so far

casevars == <<cases, older, events, alerted>>
ivars    == <<ipc, job>>
evars    == <<epc, todo, late, snap, plan>>
vars     == <<casevars, ivars, evars, aborts>>

Evaluators == Loops \cup Operators

Stages == {"none", "funded", "preparation", "deployed", "dismissed"}

Terminal == {"deployed", "dismissed"}

NoCase == [stage |-> "none", confidence |-> 0, wide |-> FALSE, left |-> 0]

NoJob == <<>>

NoPlan == [stage |-> "none", confidence |-> 0]

\* An event's source is the transfer or the external observation behind it.
Events ==
    [kind : {"first_funding", "additional_funding"}, src : Signatures, infra : BOOLEAN]
        \cup [kind : EvidenceKinds, src : EvidenceKinds, infra : {FALSE}]

TypeOK ==
    /\ cases \in [Recipients -> [stage : Stages, confidence : 0..95,
                                 wide : BOOLEAN, left : 0..Window]]
    /\ older \subseteq Recipients \X Recipients
    /\ events \in [Recipients -> SUBSET Events]
    /\ alerted \subseteq Recipients
    /\ ipc \in [Ingesters -> {"idle", "create", "first", "more", "fanout"}]
    /\ job \in [Ingesters -> {NoJob} \cup (Signatures \X Recipients)]
    /\ epc \in [Evaluators -> {"idle", "pass", "read", "write", "emit"}]
    /\ todo \in [Evaluators -> Seq(Recipients)]
    /\ late \in [Evaluators -> SUBSET Recipients]
    /\ snap \in [Evaluators -> [stage : Stages, confidence : 0..95,
                                wide : BOOLEAN, left : 0..Window]]
    /\ plan \in [Evaluators -> [stage : Stages, confidence : 0..95]]
    /\ aborts \in 0..MaxAborts

Init ==
    /\ cases = [r \in Recipients |-> NoCase]
    /\ older = {}
    /\ events = [r \in Recipients |-> {}]
    /\ alerted = {}
    /\ ipc = [i \in Ingesters |-> "idle"]
    /\ job = [i \in Ingesters |-> NoJob]
    /\ epc = [e \in Evaluators |-> "idle"]
    /\ todo = [e \in Evaluators |-> <<>>]
    /\ late = [e \in Evaluators |-> {}]
    /\ snap = [e \in Evaluators |-> NoCase]
    /\ plan = [e \in Evaluators |-> NoPlan]
    /\ aborts = 0

\* updated_at = now().
Touched(r) ==
    {pair \in older : r \notin {pair[1], pair[2]}}
        \cup {<<q, r>> : q \in {q \in Recipients \ {r} : cases[q].stage # "none"}}

----------------------------------------------------------------------------
(***************************************************************************)
(* ingest_funding_event, statement by statement.  The same transfer may be *)
(* handed in again: whether its observation was new is ignored.            *)
(***************************************************************************)
Arrive(i, s, r) ==
    /\ ipc[i] = "idle"
    /\ job' = [job EXCEPT ![i] = <<s, r>>]
    /\ ipc' = [ipc EXCEPT ![i] = IF cases[r].stage \in {"none", "dismissed"}
                                 THEN "create" ELSE "more"]
    /\ UNCHANGED <<casevars, evars, aborts>>

Done(i) ==
    /\ ipc' = [ipc EXCEPT ![i] = "idle"]
    /\ job' = [job EXCEPT ![i] = NoJob]

\* Faulty variants of the definition that follows, as everywhere below: the
\* properties at the end of the module must tell them from the code.
RefusedWhileOpen(r) == cases[r].stage \notin {"none", "dismissed"}

\* The unique index on (workspace_id, chain, recipient), whatever the stage.
Refused(r) == cases[r].stage # "none"

\* The insert of a new case; when the index refuses it, the error ends the
\* ingest, which is also the lot of a second funding after a dismissal.
\* The window runs from the transfer's time, which may be long past.
Create(i) ==
    /\ ipc[i] = "create"
    /\ LET s == job[i][1]
           r == job[i][2]
       IN IF ~Refused(r)
          THEN /\ \E left \in 0..Window :
                    cases' = [cases EXCEPT ![r] =
                                [stage |-> "funded", wide |-> FALSE, left |-> left,
                                 confidence |-> IF s \in InfraSignatures THEN 40 ELSE 55]]
               /\ older' = Touched(r)
               /\ ipc' = [ipc EXCEPT ![i] = "first"]
               /\ UNCHANGED job
          ELSE Done(i) /\ UNCHANGED <<cases, older>>
    /\ UNCHANGED <<events, alerted, evars, aborts>>

Funding(kind, s) == [kind |-> kind, src |-> s, infra |-> s \in InfraSignatures]

RecordFirst(i) ==
    /\ ipc[i] = "first"
    /\ events' = [events EXCEPT ![job[i][2]] = @ \cup {Funding("first_funding", job[i][1])}]
    /\ Done(i)
    /\ UNCHANGED <<cases, older, alerted, evars, aborts>>

RecordMore(i) ==
    /\ ipc[i] = "more"
    /\ events' = [events EXCEPT ![job[i][2]] =
                    @ \cup {Funding("additional_funding", job[i][1])}]
    /\ ipc' = [ipc EXCEPT ![i] = "fanout"]
    /\ UNCHANGED <<cases, older, alerted, job, evars, aborts>>

\* The count of fresh children may have been overtaken by the time it is
\* written.
UpdateFanout(i) ==
    /\ ipc[i] = "fanout"
    /\ \E wide \in BOOLEAN : cases' = [cases EXCEPT ![job[i][2]].wide = wide]
    /\ older' = Touched(job[i][2])
    /\ Done(i)
    /\ UNCHANGED <<events, alerted, evars, aborts>>

\* record_case_evidence and link_deployment.
RecordEvidence(r, k) ==
    /\ cases[r].stage # "none"
    /\ events' = [events EXCEPT ![r] = @ \cup {[kind |-> k, src |-> k, infra |-> FALSE]}]
    /\ UNCHANGED <<cases, older, alerted, ivars, evars, aborts>>

----------------------------------------------------------------------------
(***************************************************************************)
(* Evaluation.                                                             *)
(***************************************************************************)
Expired == {r \in Recipients : cases[r].stage # "none" /\ cases[r].left = 0}

\* The cases that are neither deployed nor dismissed, the PassLimit of them
\* that were updated the longest ago.
Open == {r \in Recipients : cases[r].stage \notin {"none"} \cup Terminal}

Batch == {r \in Open : Cardinality({q \in Open : <<q, r>> \in older}) < PassLimit}

\* evaluate_radar_cases: ORDER BY updated_at LIMIT 100.
StartPass(e) ==
    /\ e \in Loops
    /\ epc[e] = "idle"
    /\ \E n \in 1..PassLimit : \E q \in [1..n -> Batch] :
          /\ \A r \in Batch : \E k \in 1..n : q[k] = r
          /\ \A j, k \in 1..n : j < k => <<q[j], q[k]>> \in older
          /\ todo' = [todo EXCEPT ![e] = q]
    /\ late' = [late EXCEPT ![e] = Expired]
    /\ epc' = [epc EXCEPT ![e] = "pass"]
    /\ UNCHANGED <<casevars, ivars, snap, plan, aborts>>

\* The radar evaluate command.
Ask(e, r) ==
    /\ e \in Operators
    /\ epc[e] = "idle"
    /\ cases[r].stage # "none"
    /\ todo' = [todo EXCEPT ![e] = <<r>>]
    /\ late' = [late EXCEPT ![e] = Expired]
    /\ epc' = [epc EXCEPT ![e] = "pass"]
    /\ UNCHANGED <<casevars, ivars, snap, plan, aborts>>

\* The evaluator is done with its current case.
Leave(e) ==
    /\ todo' = [todo EXCEPT ![e] = Tail(@)]
    /\ epc' = [epc EXCEPT ![e] = IF Len(todo[e]) = 1 THEN "idle" ELSE "pass"]
    /\ late' = [late EXCEPT ![e] = IF Len(todo[e]) = 1 THEN {} ELSE @]
    /\ snap' = [snap EXCEPT ![e] = NoCase]
    /\ plan' = [plan EXCEPT ![e] = NoPlan]

IsTerminal(stage) == stage \in Terminal

DismissPrepared(case, over) == over /\ case.stage = "preparation"

\* Only a case without preparation evidence is dismissed at the end of its
\* window.
IsDismissed(case, over) == over /\ case.stage = "funded"

Fetch(e) ==
    /\ epc[e] = "pass"
    /\ LET r == Head(todo[e])
           case == cases[r]
       IN IF IsTerminal(case.stage) THEN Leave(e)
          ELSE /\ snap' = [snap EXCEPT ![e] = case]
               /\ IF IsDismissed(case, r \in late[e])
                  THEN /\ plan' = [plan EXCEPT ![e] = [stage |-> "dismissed",
                                                       confidence |-> case.confidence]]
                       /\ epc' = [epc EXCEPT ![e] = "write"]
                  ELSE /\ epc' = [epc EXCEPT ![e] = "read"]
                       /\ UNCHANGED plan
               /\ UNCHANGED <<todo, late>>
    /\ UNCHANGED <<casevars, ivars, aborts>>

KindsOf(r) == {ev.kind : ev \in events[r]}

PreparationConfidence(case, kinds) ==
    LET points(ks, n) == IF kinds \cap ks # {} THEN n ELSE 0
        sum == 55 + points({"fanout"}, 15)
                  + points({"token_creation", "account_creation"}, 10)
                  + points({"launchpad_interaction", "dex_interaction"}, 10)
                  + points({"telegram_mention", "gmgn_mention"}, 5)
                  + (IF case.wide THEN 5 ELSE 0)
    IN IF sum <= 95 THEN sum ELSE 95

PreparedByInfrastructure(case, evs) ==
    case.stage = "funded" /\ Cardinality({ev.kind : ev \in evs}) >= Required

Prepared(case, evs) ==
    /\ case.stage = "funded"
    /\ Cardinality({ev.kind : ev \in evs}) >= Required
    /\ \E ev \in evs : ~ev.infra

ReadEvidence(e) ==
    /\ epc[e] = "read"
    /\ LET r == Head(todo[e])
           become(stage, confidence) ==
              /\ plan' = [plan EXCEPT ![e] = [stage |-> stage, confidence |-> confidence]]
              /\ epc' = [epc EXCEPT ![e] = "write"]
              /\ UNCHANGED <<todo, late, snap>>
       IN IF "deployment" \in KindsOf(r) THEN become("deployed", 85)
          ELSE IF Prepared(snap[e], events[r])
               THEN become("preparation", PreparationConfidence(snap[e], KindsOf(r)))
               ELSE Leave(e)
    /\ UNCHANGED <<casevars, ivars, aborts>>

\* update_stage and dismiss_case: an update by case id, whatever its stage is
\* by now.  The worker loop goes on to emit the alert, the command prints it.
Write(e) ==
    /\ epc[e] = "write"
    /\ LET r == Head(todo[e])
           p == plan[e]
       IN /\ cases' = [cases EXCEPT ![r].stage = p.stage,
                                    ![r].confidence = IF p.stage = "dismissed" THEN @
                                                      ELSE p.confidence]
          /\ older' = Touched(r)
          /\ IF /\ e \in Loops
                /\ p.stage = "preparation"
                /\ p.confidence >= AlertConfidence
             THEN /\ epc' = [epc EXCEPT ![e] = "emit"]
                  /\ UNCHANGED <<todo, late, snap, plan>>
             ELSE Leave(e)
    /\ UNCHANGED <<events, alerted, ivars, aborts>>

\* claim_alert creates the outbox row; AlertOutbox has the rest.
Emit(e) ==
    /\ epc[e] = "emit"
    /\ alerted' = alerted \cup {Head(todo[e])}
    /\ Leave(e)
    /\ UNCHANGED <<cases, older, events, ivars, aborts>>

NeverDerived(r) == FALSE

\* pending_funding_alerts derives the intent from the case itself.
Derived(r) ==
    /\ cases[r].stage = "preparation"
    /\ cases[r].confidence >= AlertConfidence
    /\ r \notin alerted

\* The dispatch pass claims a row for it.
Drain(r) ==
    /\ Derived(r)
    /\ alerted' = alerted \cup {r}
    /\ UNCHANGED <<cases, older, events, ivars, evars, aborts>>

----------------------------------------------------------------------------
(***************************************************************************)
(* Faults and time.                                                        *)
(***************************************************************************)
Fault ==
    /\ aborts < MaxAborts
    /\ aborts' = aborts + 1

\* A crash or a failing statement ends the ingest where it is.
AbortIngest(i) ==
    /\ Fault
    /\ ipc[i] # "idle"
    /\ Done(i)
    /\ UNCHANGED <<casevars, evars>>

\* A crash or a propagated error ends the pass.
AbortPass(e) ==
    /\ Fault
    /\ epc[e] # "idle"
    /\ epc' = [epc EXCEPT ![e] = "idle"]
    /\ todo' = [todo EXCEPT ![e] = <<>>]
    /\ late' = [late EXCEPT ![e] = {}]
    /\ snap' = [snap EXCEPT ![e] = NoCase]
    /\ plan' = [plan EXCEPT ![e] = NoPlan]
    /\ UNCHANGED <<casevars, ivars>>

\* A unit of time.
Tick ==
    /\ \E r \in Recipients : cases[r].left > 0
    /\ cases' = [r \in Recipients |->
                   [cases[r] EXCEPT !.left = IF @ = 0 THEN 0 ELSE @ - 1]]
    /\ UNCHANGED <<older, events, alerted, ivars, evars, aborts>>

Ingest(i) == Create(i) \/ RecordFirst(i) \/ RecordMore(i) \/ UpdateFanout(i)

Evaluate(e) == StartPass(e) \/ Fetch(e) \/ ReadEvidence(e) \/ Write(e) \/ Emit(e)

Next ==
    \/ \E i \in Ingesters, s \in Signatures, r \in Recipients : Arrive(i, s, r)
    \/ \E i \in Ingesters : Ingest(i) \/ AbortIngest(i)
    \/ \E r \in Recipients, k \in EvidenceKinds : RecordEvidence(r, k)
    \/ \E e \in Evaluators : Evaluate(e) \/ AbortPass(e)
    \/ \E e \in Operators, r \in Recipients : Ask(e, r)
    \/ \E r \in Recipients : Drain(r)
    \/ Tick

Spec == Init /\ [][Next]_vars

(***************************************************************************)
(* The loops run every 30 and 20 seconds for ever and time passes; nothing *)
(* makes a transfer, evidence or an operator's command arrive.             *)
(***************************************************************************)
Fairness ==
    /\ WF_vars(Tick)
    /\ \A e \in Evaluators : WF_vars(Evaluate(e))
    /\ \A r \in Recipients : WF_vars(Drain(r))

FairSpec == Spec /\ Fairness

----------------------------------------------------------------------------
(***************************************************************************)
(* Properties.                                                             *)
(***************************************************************************)

\* A case in preparation has the evidence for it: enough kinds, and something
\* that is not infrastructure, although the evaluator's reads and its update
\* are separate statements ("requires >= 2 independent evidence items ... AND
\* non-infrastructure evidence", evaluate_radar_case).
PreparationIsEvidenced ==
    \A r \in Recipients : cases[r].stage = "preparation" =>
        /\ Cardinality(KindsOf(r)) >= Required
        /\ \E ev \in events[r] : ~ev.infra

\* "Dismissed and deployed cases are terminal for evaluation"
\* (evaluate_radar_case): no later step changes their stage.
KeepsTerminal ==
    \A r \in Recipients :
        cases[r].stage \in Terminal => cases'[r].stage = cases[r].stage

TerminalIsFinal == [][KeepsTerminal]_vars

\* The evidence items behind a preparation are independent: they come from at
\* least two sources.
EvidenceIsIndependent ==
    \A r \in Recipients : cases[r].stage = "preparation" =>
        Cardinality({ev.src : ev \in events[r]}) >= 2

\* "Expired windows dismiss": a case whose window ends while it is funded is
\* dismissed or promoted.
FundedWindowEnds ==
    \A r \in Recipients :
        cases[r].stage = "funded" /\ cases[r].left = 0 ~> cases[r].stage # "funded"

\* A promotion with alert confidence gets its outbox row although the producer
\* may crash between the promotion and the claim, or be an operator who only
\* prints the alert; a deployment that comes first takes the intent back
\* (pending_funding_alerts, REV-080-F05).
PromotionIsAlerted ==
    \A r \in Recipients :
        cases[r].stage = "preparation" /\ cases[r].confidence >= AlertConfidence
            ~> r \in alerted \/ cases[r].stage # "preparation"

=============================================================================
