------------------------- MODULE FundingRadarProofs -------------------------
(* Proofs about FundingRadar for any recipients, transfers, evaluators and  *)
(* thresholds.                                                              *)
EXTENDS MCFundingRadar, FiniteSetTheorems, SequenceTheorems, TLAPS

CaseType == [stage : Stages, confidence : 0..95, wide : BOOLEAN, left : 0..Window]

PlanType == [stage : Stages, confidence : 0..95]

IngestPlaces == {"idle", "create", "first", "more", "fanout"}

EvalPlaces == {"idle", "pass", "read", "write", "emit"}

AllKinds == {"first_funding", "additional_funding"} \cup EvidenceKinds

CaseTypes ==
    /\ cases \in [Recipients -> CaseType]
    /\ events \in [Recipients -> SUBSET Events]
    /\ older \subseteq Recipients \X Recipients
    /\ alerted \subseteq Recipients

\* An ingester that is under way has a transfer.
IngestTypes ==
    /\ ipc \in [Ingesters -> IngestPlaces]
    /\ job \in [Ingesters -> {NoJob} \cup (Signatures \X Recipients)]
    /\ \A i \in Ingesters : ipc[i] # "idle" => job[i] \in Signatures \X Recipients

\* An evaluator that is under way has a case.
EvalTypes ==
    /\ epc \in [Evaluators -> EvalPlaces]
    /\ todo \in [Evaluators -> Seq(Recipients)]
    /\ late \in [Evaluators -> SUBSET Recipients]
    /\ snap \in [Evaluators -> CaseType]
    /\ plan \in [Evaluators -> PlanType]
    /\ \A e \in Evaluators : epc[e] # "idle" => todo[e] # <<>>

Types == CaseTypes /\ IngestTypes /\ EvalTypes /\ aborts \in 0..MaxAborts

\* What a promotion to preparation rests on.
Evidenced(r) ==
    /\ Cardinality(KindsOf(r)) >= Required
    /\ \E ev \in events[r] : ~ev.infra

\* A promotion that was decided is evidenced when it is written.
PlansAreEvidenced ==
    \A e \in Evaluators :
        epc[e] = "write" /\ plan[e].stage = "preparation" => Evidenced(Head(todo[e]))

IInv == Types /\ PreparationIsEvidenced /\ PlansAreEvidenced

----------------------------------------------------------------------------
(* Evidence. *)

LEMMA AllKindsFinite == IsFiniteSet(AllKinds)
<1>1. IsFiniteSet({"first_funding"}) /\ IsFiniteSet({"additional_funding"})
  BY FS_Singleton
<1>2. IsFiniteSet({"first_funding"} \cup {"additional_funding"})
  BY <1>1, FS_Union
<1>3. IsFiniteSet(({"first_funding"} \cup {"additional_funding"}) \cup EvidenceKinds)
  BY <1>2, FS_Union, KindsAssumption
<1>4. AllKinds = ({"first_funding"} \cup {"additional_funding"}) \cup EvidenceKinds
  BY DEF AllKinds
<1> QED BY <1>3, <1>4

\* The number of kinds among some events.
LEMMA KindsCounted ==
    ASSUME NEW evs \in SUBSET Events
    PROVE  /\ IsFiniteSet({ev.kind : ev \in evs})
           /\ Cardinality({ev.kind : ev \in evs}) \in Nat
<1>1. {ev.kind : ev \in evs} \in SUBSET AllKinds
  BY DEF Events, AllKinds
<1>2. IsFiniteSet({ev.kind : ev \in evs})
  BY <1>1, AllKindsFinite, FS_Subset
<1> QED BY <1>2, FS_CardinalityType

\* Evidence is only ever added, and more of it is as good.
LEMMA EvidenceGrows ==
    ASSUME CaseTypes, CaseTypes', NEW r \in Recipients, events[r] \subseteq events'[r],
           Evidenced(r)
    PROVE  Evidenced(r)'
<1> DEFINE K == {ev.kind : ev \in events[r]}
<1> DEFINE L == {ev.kind : ev \in events'[r]}
<1>1. K \in SUBSET L
  OBVIOUS
<1>2. events[r] \in SUBSET Events /\ events'[r] \in SUBSET Events
  BY DEF CaseTypes
<1>3. Cardinality(K) \in Nat /\ IsFiniteSet(L) /\ Cardinality(L) \in Nat
  BY <1>2, KindsCounted
<1>4. Cardinality(K) <= Cardinality(L)
  BY <1>1, <1>3, FS_Subset
<1>5. Cardinality(K) >= Required
  BY DEF Evidenced, KindsOf
<1>6. Cardinality(L) >= Required
  BY <1>3, <1>4, <1>5, NumbersAssumption
<1>7. \E ev \in events'[r] : ~ev.infra
  BY DEF Evidenced
<1> QED BY <1>6, <1>7 DEF Evidenced, KindsOf

----------------------------------------------------------------------------
(* Types. *)

LEMMA InitTypes == Init => Types
BY NumbersAssumption DEF Init, Types, CaseTypes, IngestTypes, EvalTypes, CaseType, PlanType,
    IngestPlaces, EvalPlaces, NoCase, NoPlan, NoJob, Stages

LEMMA ConfidenceType ==
    ASSUME NEW case \in CaseType, NEW kinds
    PROVE  PreparationConfidence(case, kinds) \in 0..95
BY DEF PreparationConfidence, CaseType

LEMMA EmptyTypes == NoCase \in CaseType /\ NoPlan \in PlanType
BY NumbersAssumption DEF NoCase, NoPlan, CaseType, PlanType, Stages

LEMMA TouchedType ==
    ASSUME CaseTypes, NEW r \in Recipients
    PROVE  Touched(r) \subseteq Recipients \X Recipients
BY DEF CaseTypes, Touched

LEMMA FaultBound == Types /\ Fault => aborts' \in 0..MaxAborts
BY NumbersAssumption DEF Types, Fault

LEMMA FundingIsEvent ==
    ASSUME NEW s \in Signatures, NEW kind \in {"first_funding", "additional_funding"}
    PROVE  Funding(kind, s) \in Events
<1>1. CASE s \in InfraSignatures
  <2>1. Funding(kind, s) = [kind |-> kind, src |-> s, infra |-> TRUE]
    BY <1>1 DEF Funding
  <2> QED BY <2>1 DEF Events
<1>2. CASE s \notin InfraSignatures
  <2>1. Funding(kind, s) = [kind |-> kind, src |-> s, infra |-> FALSE]
    <3>1. (s \in InfraSignatures) = FALSE
      BY <1>2
    <3> QED BY <3>1, Zenon DEF Funding
  <2> QED BY <2>1 DEF Events
<1> QED BY <1>1, <1>2

LEMMA IngestStepTypes ==
    ASSUME Types, NEW i \in Ingesters, NEW l \in IngestPlaces,
           NEW j \in {NoJob} \cup (Signatures \X Recipients),
           l # "idle" => j \in Signatures \X Recipients,
           ipc' = [ipc EXCEPT ![i] = l], job' = [job EXCEPT ![i] = j]
    PROVE  IngestTypes'
BY DEF Types, IngestTypes

LEMMA DoneTypes ==
    ASSUME Types, NEW i \in Ingesters, Done(i)
    PROVE  IngestTypes'
BY IngestStepTypes DEF Done, IngestPlaces

\* What an evaluator's steps do, whichever of them it is: it leaves the others
\* alone, and decides on a promotion only with the evidence for it.
EvaluatorStep(e) ==
    /\ EvalTypes'
    /\ \A f \in Evaluators \ {e} :
         epc'[f] = epc[f] /\ todo'[f] = todo[f] /\ plan'[f] = plan[f]
    /\ epc'[e] = "write" /\ plan'[e].stage = "preparation" => Evidenced(Head(todo'[e]))

LEMMA StepFromParts ==
    ASSUME Types, NEW e \in Evaluators, NEW l \in EvalPlaces, NEW q \in Seq(Recipients),
           NEW d \in SUBSET Recipients, NEW c \in CaseType, NEW u \in PlanType,
           epc' = [epc EXCEPT ![e] = l], todo' = [todo EXCEPT ![e] = q],
           late' = [late EXCEPT ![e] = d],
           snap' = [snap EXCEPT ![e] = c], plan' = [plan EXCEPT ![e] = u],
           l # "idle" => q # <<>>,
           l = "write" /\ u.stage = "preparation" => Evidenced(Head(q))
    PROVE  EvaluatorStep(e)
<1>1. epc' \in [Evaluators -> EvalPlaces] /\ todo' \in [Evaluators -> Seq(Recipients)]
  BY DEF Types, EvalTypes
<1>2. snap' \in [Evaluators -> CaseType]
  BY DEF Types, EvalTypes
<1>3. plan' \in [Evaluators -> PlanType] /\ late' \in [Evaluators -> SUBSET Recipients]
  BY DEF Types, EvalTypes
<1>4. epc'[e] = l /\ todo'[e] = q /\ plan'[e] = u
  BY DEF Types, EvalTypes
<1>5. \A f \in Evaluators \ {e} :
        epc'[f] = epc[f] /\ todo'[f] = todo[f] /\ plan'[f] = plan[f]
  BY DEF Types, EvalTypes
<1>6. \A f \in Evaluators : epc'[f] # "idle" => todo'[f] # <<>>
  BY <1>4, <1>5 DEF Types, EvalTypes
<1>7. EvalTypes'
  BY <1>1, <1>2, <1>3, <1>6 DEF EvalTypes
<1> QED BY <1>4, <1>5, <1>7 DEF EvaluatorStep

\* The recipient an evaluator is on.
LEMMA Current ==
    ASSUME Types, NEW e \in Evaluators, epc[e] # "idle"
    PROVE  /\ todo[e] \in Seq(Recipients) /\ todo[e] # <<>>
           /\ Head(todo[e]) \in Recipients
           /\ Tail(todo[e]) \in Seq(Recipients)
           /\ Len(todo[e]) # 1 => Tail(todo[e]) # <<>>
<1> DEFINE q == todo[e]
<1>1. q \in Seq(Recipients) /\ q # <<>>
  BY DEF Types, EvalTypes
<1> HIDE DEF q
<1>2. Head(q) \in Recipients
  BY <1>1
<1>3. Tail(q) \in Seq(Recipients) /\ Len(Tail(q)) = Len(q) - 1
  BY <1>1, HeadTailProperties
<1>4. Len(q) # 1 => Tail(q) # <<>>
  <2>1. Len(q) \in Nat
    BY <1>1, LenProperties
  <2>2. Tail(q) = <<>> => Len(Tail(q)) = 0
    BY <1>3, EmptySeq
  <2> QED BY <1>3, <2>1, <2>2
<1> QED BY <1>1, <1>2, <1>3, <1>4 DEF q

LEMMA LeaveIsStep ==
    ASSUME Types, NEW e \in Evaluators, epc[e] # "idle", Leave(e)
    PROVE  EvaluatorStep(e) /\ epc'[e] \in {"idle", "pass"}
<1> DEFINE l == IF Len(todo[e]) = 1 THEN "idle" ELSE "pass"
           d == IF Len(todo[e]) = 1 THEN {} ELSE late[e]
<1>1. /\ epc' = [epc EXCEPT ![e] = l]
      /\ todo' = [todo EXCEPT ![e] = Tail(todo[e])]
      /\ late' = [late EXCEPT ![e] = d]
      /\ snap' = [snap EXCEPT ![e] = NoCase]
      /\ plan' = [plan EXCEPT ![e] = NoPlan]
  BY DEF Leave
<1>2. l \in EvalPlaces /\ l \in {"idle", "pass"} /\ d \in SUBSET Recipients
  BY DEF Types, EvalTypes, EvalPlaces
<1>3. l # "idle" => Tail(todo[e]) # <<>>
  BY Current
<1>4. Tail(todo[e]) \in Seq(Recipients)
  BY Current
<1>5. epc'[e] = l
  BY <1>1 DEF Types, EvalTypes
<1> HIDE DEF l, d
<1>6. EvaluatorStep(e)
  BY <1>1, <1>2, <1>3, <1>4, EmptyTypes, StepFromParts
<1> QED BY <1>2, <1>5, <1>6

----------------------------------------------------------------------------
(* The two kinds of steps. *)

\* A step that is no evaluator's keeps every stage but for opening a funded
\* case, and only adds evidence.
OutsideEffect ==
    /\ UNCHANGED evars
    /\ CaseTypes'
    /\ \A r \in Recipients : events[r] \subseteq events'[r]
    /\ \A r \in Recipients :
         \/ cases'[r].stage = cases[r].stage
         \/ cases[r].stage = "none" /\ cases'[r].stage = "funded"

LEMMA OutsideIsHarmless ==
    ASSUME IInv, OutsideEffect, IngestTypes', aborts' \in 0..MaxAborts
    PROVE  IInv'
<1>1. EvalTypes'
  BY DEF IInv, Types, EvalTypes, OutsideEffect, evars
<1>2. PreparationIsEvidenced'
  <2> SUFFICES ASSUME NEW r \in Recipients, cases'[r].stage = "preparation"
               PROVE  Evidenced(r)'
    BY DEF PreparationIsEvidenced, Evidenced
  <2>1. cases[r].stage = "preparation"
    BY DEF OutsideEffect
  <2>2. Evidenced(r)
    BY <2>1 DEF IInv, PreparationIsEvidenced, Evidenced
  <2> QED BY <2>2, EvidenceGrows DEF IInv, Types, OutsideEffect
<1>3. PlansAreEvidenced'
  <2> SUFFICES ASSUME NEW e \in Evaluators, epc[e] = "write", plan[e].stage = "preparation"
               PROVE  Evidenced(Head(todo[e]))'
    BY DEF PlansAreEvidenced, OutsideEffect, evars
  <2>1. PICK r \in Recipients : r = Head(todo[e])
    BY Current DEF IInv
  <2>2. Evidenced(r)
    BY <2>1 DEF IInv, PlansAreEvidenced
  <2>3. Evidenced(r)'
    BY <2>2, EvidenceGrows DEF IInv, Types, OutsideEffect
  <2>4. r = Head(todo'[e])
    BY <2>1 DEF OutsideEffect, evars
  <2> QED BY <2>3, <2>4 DEF Evidenced, KindsOf
<1> QED BY <1>1, <1>2, <1>3 DEF IInv, Types, OutsideEffect

LEMMA EvaluatorIsHarmless ==
    ASSUME IInv, NEW e \in Evaluators, EvaluatorStep(e), CaseTypes', UNCHANGED <<events, ivars>>,
           aborts' \in 0..MaxAborts,
           \A r \in Recipients : \/ cases'[r].stage = cases[r].stage
                                 \/ cases'[r].stage = "preparation" => Evidenced(r)
    PROVE  IInv'
<1>1. IngestTypes'
  BY DEF IInv, Types, IngestTypes, ivars
<1>2. ASSUME NEW r PROVE Evidenced(r)' <=> Evidenced(r)
  BY DEF Evidenced, KindsOf
<1>3. PreparationIsEvidenced'
  <2> SUFFICES ASSUME NEW r \in Recipients, cases'[r].stage = "preparation"
               PROVE  Evidenced(r)'
    BY DEF PreparationIsEvidenced, Evidenced
  <2>1. cases[r].stage = "preparation" => Evidenced(r)
    BY DEF IInv, PreparationIsEvidenced, Evidenced
  <2>2. Evidenced(r)
    BY <2>1
  <2> QED BY <1>2, <2>2
<1>4. PlansAreEvidenced'
  <2> SUFFICES ASSUME NEW f \in Evaluators, epc'[f] = "write", plan'[f].stage = "preparation"
               PROVE  Evidenced(Head(todo'[f]))
    BY DEF PlansAreEvidenced, Evidenced, KindsOf
  <2>1. CASE f = e
    BY <2>1 DEF EvaluatorStep
  <2>2. CASE f # e
    BY <2>2 DEF EvaluatorStep, IInv, PlansAreEvidenced
  <2> QED BY <2>1, <2>2
<1> QED BY <1>1, <1>3, <1>4 DEF IInv, Types, EvaluatorStep

----------------------------------------------------------------------------
(* The actions outside the evaluators. *)

LEMMA ArriveEffect ==
    ASSUME IInv, NEW i \in Ingesters, NEW s \in Signatures, NEW r \in Recipients, Arrive(i, s, r)
    PROVE  OutsideEffect /\ IngestTypes' /\ aborts' \in 0..MaxAborts
<1>1. OutsideEffect /\ aborts' \in 0..MaxAborts
  BY DEF Arrive, OutsideEffect, casevars, IInv, Types, CaseTypes
<1>2. PICK l \in {"create", "more"} : ipc' = [ipc EXCEPT ![i] = l]
  BY DEF Arrive
<1>3. IngestTypes'
  BY <1>2, IngestStepTypes DEF IInv, Arrive, IngestPlaces
<1> QED BY <1>1, <1>3

LEMMA CreateEffect ==
    ASSUME IInv, NEW i \in Ingesters, Create(i)
    PROVE  OutsideEffect /\ IngestTypes' /\ aborts' \in 0..MaxAborts
<1> DEFINE s == job[i][1]
           r == job[i][2]
<1>1. s \in Signatures /\ r \in Recipients /\ job[i] \in Signatures \X Recipients
  BY DEF IInv, Types, IngestTypes, Create, Refused
<1>2. /\ UNCHANGED <<events, alerted, evars, aborts>>
      /\ aborts' \in 0..MaxAborts
  BY DEF Create, Refused, IInv, Types
<1>3. CASE cases[r].stage = "none"
  <2>1. PICK left \in 0..Window :
          cases' = [cases EXCEPT ![r] =
                      [stage |-> "funded", wide |-> FALSE, left |-> left,
                       confidence |-> IF s \in InfraSignatures THEN 40 ELSE 55]]
    BY <1>3 DEF Create, Refused
  <2>2. older' = Touched(r)
    BY <1>3 DEF Create, Refused
  <2>3. IngestTypes'
    <3>1. ipc' = [ipc EXCEPT ![i] = "first"] /\ job' = [job EXCEPT ![i] = job[i]]
      BY <1>3 DEF Create, Refused, IInv, Types, IngestTypes
    <3> QED BY <1>1, <3>1, IngestStepTypes DEF IInv, IngestPlaces
  <2> DEFINE opened == [stage |-> "funded", wide |-> FALSE, left |-> left,
                        confidence |-> IF s \in InfraSignatures THEN 40 ELSE 55]
  <2>4. opened \in CaseType /\ opened.stage = "funded"
    BY DEF CaseType, Stages
  <2> HIDE DEF opened, s, r
  <2>5. cases' = [cases EXCEPT ![r] = opened]
    BY <2>1 DEF opened
  <2>6. CaseTypes'
    BY <1>1, <1>2, <2>2, <2>4, <2>5, TouchedType DEF IInv, Types, CaseTypes
  <2>7. ASSUME NEW q \in Recipients
        PROVE  \/ cases'[q].stage = cases[q].stage
               \/ cases[q].stage = "none" /\ cases'[q].stage = "funded"
    BY <1>1, <1>3, <2>4, <2>5 DEF IInv, Types, CaseTypes
  <2> QED BY <1>2, <2>3, <2>6, <2>7 DEF OutsideEffect
<1>4. CASE cases[r].stage # "none"
  <2>1. UNCHANGED <<cases, older>> /\ Done(i)
    BY <1>4 DEF Create, Refused
  <2>2. OutsideEffect
    BY <1>2, <2>1 DEF OutsideEffect, IInv, Types, CaseTypes
  <2> QED BY <1>2, <2>1, <2>2, DoneTypes DEF IInv
<1> QED BY <1>3, <1>4

\* Adding an event to a case.
LEMMA RecordEffect ==
    ASSUME IInv, NEW r \in Recipients, NEW ev \in Events,
           events' = [events EXCEPT ![r] = @ \cup {ev}],
           UNCHANGED <<cases, older, alerted, evars>>
    PROVE  OutsideEffect
BY DEF IInv, Types, CaseTypes, OutsideEffect

LEMMA RecordFundingEffect ==
    ASSUME IInv, NEW i \in Ingesters, RecordFirst(i) \/ RecordMore(i)
    PROVE  OutsideEffect /\ IngestTypes' /\ aborts' \in 0..MaxAborts
<1>1. job[i][1] \in Signatures /\ job[i][2] \in Recipients /\ job[i] \in Signatures \X Recipients
  BY DEF IInv, Types, IngestTypes, RecordFirst, RecordMore
<1>2. PICK kind \in {"first_funding", "additional_funding"} :
        events' = [events EXCEPT ![job[i][2]] = @ \cup {Funding(kind, job[i][1])}]
  BY DEF RecordFirst, RecordMore
<1>3. OutsideEffect
  BY <1>1, <1>2, FundingIsEvent, RecordEffect DEF RecordFirst, RecordMore
<1>4. IngestTypes'
  <2>1. CASE RecordFirst(i)
    BY <2>1, DoneTypes DEF RecordFirst, IInv
  <2>2. CASE RecordMore(i)
    <3>1. ipc' = [ipc EXCEPT ![i] = "fanout"] /\ job' = [job EXCEPT ![i] = job[i]]
      BY <2>2 DEF RecordMore, IInv, Types, IngestTypes
    <3> QED BY <1>1, <3>1, IngestStepTypes DEF IInv, IngestPlaces
  <2> QED BY <2>1, <2>2
<1> QED BY <1>3, <1>4 DEF RecordFirst, RecordMore, IInv, Types

LEMMA RecordEvidenceEffect ==
    ASSUME IInv, NEW r \in Recipients, NEW k \in EvidenceKinds, RecordEvidence(r, k)
    PROVE  OutsideEffect /\ IngestTypes' /\ aborts' \in 0..MaxAborts
<1>1. [kind |-> k, src |-> k, infra |-> FALSE] \in Events
  BY DEF Events
<1>2. OutsideEffect
  BY <1>1, RecordEffect DEF RecordEvidence
<1> QED BY <1>2 DEF RecordEvidence, ivars, IInv, Types, IngestTypes

LEMMA FanoutEffect ==
    ASSUME IInv, NEW i \in Ingesters, UpdateFanout(i)
    PROVE  OutsideEffect /\ IngestTypes' /\ aborts' \in 0..MaxAborts
<1>1. PICK wide \in BOOLEAN : cases' = [cases EXCEPT ![job[i][2]].wide = wide]
  BY DEF UpdateFanout
<1>2. job[i][2] \in Recipients
  BY DEF IInv, Types, IngestTypes, UpdateFanout
<1>3. older' \subseteq Recipients \X Recipients
  BY <1>2, TouchedType DEF UpdateFanout, IInv, Types
<1>4. CaseTypes' /\ \A q \in Recipients : cases'[q].stage = cases[q].stage
  <2>1. events' = events /\ alerted' = alerted /\ cases \in [Recipients -> CaseType]
    BY DEF UpdateFanout, IInv, Types, CaseTypes
  <2>2. ASSUME NEW c \in CaseType
        PROVE  [c EXCEPT !.wide = wide] \in CaseType /\ [c EXCEPT !.wide = wide].stage = c.stage
    BY Zenon DEF CaseType
  <2>3. \A q \in Recipients : cases'[q] = cases[q] \/ cases'[q] = [cases[q] EXCEPT !.wide = wide]
    BY <1>1, <2>1
  <2>4. \A q \in Recipients : cases'[q] \in CaseType /\ cases'[q].stage = cases[q].stage
    BY <2>1, <2>2, <2>3
  <2>5. cases' = [q \in Recipients |-> cases'[q]]
    BY <1>1, <2>1
  <2> QED BY <1>3, <2>1, <2>4, <2>5 DEF CaseTypes, IInv, Types
<1>5. OutsideEffect
  BY <1>4 DEF OutsideEffect, UpdateFanout
<1> QED BY <1>5, DoneTypes DEF UpdateFanout, IInv, Types

LEMMA TickEffect ==
    ASSUME IInv, Tick
    PROVE  OutsideEffect /\ IngestTypes' /\ aborts' \in 0..MaxAborts
<1>1. CaseTypes' /\ \A q \in Recipients : cases'[q].stage = cases[q].stage
  BY NumbersAssumption DEF IInv, Types, CaseTypes, CaseType, Tick
<1>2. OutsideEffect
  BY <1>1 DEF OutsideEffect, Tick
<1> QED BY <1>2 DEF Tick, ivars, IInv, Types, IngestTypes

LEMMA DrainEffect ==
    ASSUME IInv, NEW r \in Recipients, Drain(r)
    PROVE  OutsideEffect /\ IngestTypes' /\ aborts' \in 0..MaxAborts
BY DEF Drain, OutsideEffect, ivars, IInv, Types, CaseTypes, IngestTypes

LEMMA AbortIngestEffect ==
    ASSUME IInv, NEW i \in Ingesters, AbortIngest(i)
    PROVE  OutsideEffect /\ IngestTypes' /\ aborts' \in 0..MaxAborts
<1>1. OutsideEffect
  BY DEF AbortIngest, OutsideEffect, casevars, IInv, Types, CaseTypes
<1> QED BY <1>1, DoneTypes, FaultBound DEF AbortIngest, IInv

----------------------------------------------------------------------------
(* The actions of the evaluators. *)

\* StartPass and Ask take up a batch, AbortPass drops it.
LEMMA BatchIsStep ==
    ASSUME IInv, NEW e \in Evaluators,
           StartPass(e) \/ (\E r \in Recipients : Ask(e, r))
    PROVE  EvaluatorStep(e) /\ UNCHANGED casevars /\ UNCHANGED ivars /\ aborts' = aborts
<1>1. PICK q \in Seq(Recipients) : q # <<>> /\ todo' = [todo EXCEPT ![e] = q]
  <2>1. CASE StartPass(e)
    <3>0. PICK n \in 1..PassLimit : \E q \in [1..n -> Batch] : todo' = [todo EXCEPT ![e] = q]
      BY <2>1 DEF StartPass
    <3>1. PICK q \in [1..n -> Batch] : todo' = [todo EXCEPT ![e] = q]
      BY <3>0
    <3>2. n \in Nat \ {0} /\ Batch \subseteq Recipients
      BY NumbersAssumption DEF Batch, Open
    <3>3. q \in Seq(Recipients) /\ Len(q) = n
      BY <3>2
    <3>4. q # <<>>
      BY <3>2, <3>3, EmptySeq
    <3> QED BY <3>1, <3>3, <3>4
  <2>2. ASSUME NEW r \in Recipients, Ask(e, r)
        PROVE  \E q \in Seq(Recipients) : q # <<>> /\ todo' = [todo EXCEPT ![e] = q]
    <3>1. <<r>> \in Seq(Recipients) /\ <<r>> # <<>> /\ todo' = [todo EXCEPT ![e] = <<r>>]
      BY <2>2 DEF Ask
    <3> QED BY <3>1
  <2> QED BY <2>1, <2>2
<1>2. /\ epc' = [epc EXCEPT ![e] = "pass"]
      /\ late' = [late EXCEPT ![e] = Expired]
      /\ snap' = [snap EXCEPT ![e] = snap[e]]
      /\ plan' = [plan EXCEPT ![e] = plan[e]]
  BY DEF StartPass, Ask, IInv, Types, EvalTypes
<1>3. /\ "pass" \in EvalPlaces /\ "pass" # "write"
      /\ Expired \in SUBSET Recipients
      /\ snap[e] \in CaseType
      /\ plan[e] \in PlanType
  BY DEF EvalPlaces, Expired, IInv, Types, EvalTypes
<1>4. EvaluatorStep(e)
  BY <1>1, <1>2, <1>3, StepFromParts DEF IInv
<1> QED BY <1>4 DEF StartPass, Ask

LEMMA AbortPassIsStep ==
    ASSUME IInv, NEW e \in Evaluators, AbortPass(e)
    PROVE  EvaluatorStep(e) /\ UNCHANGED casevars /\ UNCHANGED ivars /\ aborts' \in 0..MaxAborts
<1>1. <<>> \in Seq(Recipients) /\ {} \in SUBSET Recipients /\ "idle" \in EvalPlaces
  BY EmptySeq DEF EvalPlaces
<1>2. EvaluatorStep(e)
  BY <1>1, EmptyTypes, StepFromParts DEF AbortPass, IInv
<1> QED BY <1>2, FaultBound DEF AbortPass, IInv

LEMMA FetchIsStep ==
    ASSUME IInv, NEW e \in Evaluators, Fetch(e)
    PROVE  EvaluatorStep(e) /\ UNCHANGED casevars /\ UNCHANGED ivars /\ aborts' = aborts
<1> DEFINE r == Head(todo[e])
           case == cases[r]
<1>1. epc[e] # "idle" /\ Types
  BY DEF Fetch, IInv
<1>2. r \in Recipients /\ case \in CaseType /\ todo[e] \in Seq(Recipients) /\ todo[e] # <<>>
  BY <1>1, Current DEF Types, CaseTypes
<1>3. CASE IsTerminal(case.stage)
  BY <1>1, <1>3, LeaveIsStep DEF Fetch
<1>4. CASE ~IsTerminal(case.stage)
  <2>1. /\ todo' = [todo EXCEPT ![e] = todo[e]]
        /\ late' = [late EXCEPT ![e] = late[e]]
        /\ snap' = [snap EXCEPT ![e] = case]
        /\ late[e] \in SUBSET Recipients
    BY <1>4 DEF Fetch, IInv, Types, EvalTypes
  <2>2. PICK l \in {"write", "read"}, u \in PlanType :
          /\ epc' = [epc EXCEPT ![e] = l]
          /\ plan' = [plan EXCEPT ![e] = u]
          /\ l = "write" => u.stage = "dismissed"
    <3>1. CASE IsDismissed(case, r \in late[e])
      <4> DEFINE u == [stage |-> "dismissed", confidence |-> case.confidence]
      <4>1. u \in PlanType /\ u.stage = "dismissed"
        BY <1>2 DEF PlanType, CaseType, Stages
      <4>2. epc' = [epc EXCEPT ![e] = "write"] /\ plan' = [plan EXCEPT ![e] = u]
        BY <1>4, <3>1 DEF Fetch
      <4> QED BY <4>1, <4>2
    <3>2. CASE ~IsDismissed(case, r \in late[e])
      <4>1. plan[e] \in PlanType /\ plan' = [plan EXCEPT ![e] = plan[e]]
        BY <1>4, <3>2 DEF Fetch, IInv, Types, EvalTypes
      <4>2. epc' = [epc EXCEPT ![e] = "read"]
        BY <1>4, <3>2 DEF Fetch
      <4> QED BY <4>1, <4>2
    <3> QED BY <3>1, <3>2
  <2>3. l \in EvalPlaces
    BY DEF EvalPlaces
  <2>4. EvaluatorStep(e)
    BY <1>1, <1>2, <2>1, <2>2, <2>3, StepFromParts
  <2> QED BY <2>4 DEF Fetch
<1> QED BY <1>3, <1>4 DEF Fetch

LEMMA ReadIsStep ==
    ASSUME IInv, NEW e \in Evaluators, ReadEvidence(e)
    PROVE  EvaluatorStep(e) /\ UNCHANGED casevars /\ UNCHANGED ivars /\ aborts' = aborts
<1> DEFINE r == Head(todo[e])
<1>1. epc[e] # "idle" /\ Types
  BY DEF ReadEvidence, IInv
<1>2. r \in Recipients /\ todo[e] \in Seq(Recipients) /\ todo[e] # <<>> /\ snap[e] \in CaseType
  BY <1>1, Current DEF Types, EvalTypes
<1>3. CASE epc' = [epc EXCEPT ![e] = "write"]
  <2>1. PICK u \in PlanType :
          /\ plan' = [plan EXCEPT ![e] = u]
          /\ UNCHANGED <<todo, late, snap>>
          /\ u.stage = "preparation" => Evidenced(r)
    <3>1. CASE "deployment" \in KindsOf(r)
      <4>1. [stage |-> "deployed", confidence |-> 85] \in PlanType
        BY DEF PlanType, Stages
      <4> QED BY <3>1, <4>1 DEF ReadEvidence
    <3>2. CASE "deployment" \notin KindsOf(r) /\ Prepared(snap[e], events[r])
      <4> DEFINE n == PreparationConfidence(snap[e], KindsOf(r))
      <4>1. [stage |-> "preparation", confidence |-> n] \in PlanType
        BY <1>2, ConfidenceType DEF PlanType, Stages
      <4>2. Evidenced(r)
        BY <3>2 DEF Prepared, Evidenced, KindsOf
      <4>3. /\ plan' = [plan EXCEPT ![e] = [stage |-> "preparation", confidence |-> n]]
            /\ UNCHANGED <<todo, late, snap>>
        BY <3>2 DEF ReadEvidence
      <4> QED BY <4>1, <4>2, <4>3
    <3>3. CASE "deployment" \notin KindsOf(r) /\ ~Prepared(snap[e], events[r])
      <4>1. Leave(e)
        BY <3>3 DEF ReadEvidence
      <4>2. epc'[e] = "write"
        BY <1>1, <1>3 DEF Types, EvalTypes
      <4> QED BY <1>1, <4>1, <4>2, LeaveIsStep
    <3> QED BY <3>1, <3>2, <3>3
  <2>2. /\ todo' = [todo EXCEPT ![e] = todo[e]]
        /\ late' = [late EXCEPT ![e] = late[e]]
        /\ snap' = [snap EXCEPT ![e] = snap[e]]
        /\ late[e] \in SUBSET Recipients
    BY <1>1, <2>1 DEF Types, EvalTypes
  <2>3. EvaluatorStep(e)
    BY <1>1, <1>2, <1>3, <2>1, <2>2, StepFromParts DEF EvalPlaces
  <2> QED BY <2>3 DEF ReadEvidence
<1>4. CASE Leave(e)
  BY <1>1, <1>4, LeaveIsStep DEF ReadEvidence
<1> QED BY <1>3, <1>4 DEF ReadEvidence

LEMMA EmitIsStep ==
    ASSUME IInv, NEW e \in Evaluators, Emit(e)
    PROVE  EvaluatorStep(e) /\ CaseTypes'
<1>1. epc[e] # "idle" /\ Types /\ Leave(e)
  BY DEF Emit, IInv
<1>2. Head(todo[e]) \in Recipients
  BY <1>1, Current
<1> QED BY <1>1, <1>2, LeaveIsStep DEF Emit, Types, CaseTypes

\* The update of one case by id.
LEMMA WriteCases ==
    ASSUME IInv, NEW e \in Evaluators, Write(e)
    PROVE  /\ CaseTypes'
           /\ cases'[Head(todo[e])].stage = plan[e].stage
           /\ \A q \in Recipients : q # Head(todo[e]) => cases'[q] = cases[q]
<1> DEFINE n == IF plan[e].stage = "dismissed" THEN cases[Head(todo[e])].confidence
                ELSE plan[e].confidence
<1>1. epc[e] # "idle" /\ Types
  BY DEF Write, IInv
<1>2. PICK r \in Recipients : r = Head(todo[e])
  BY <1>1, Current
<1>3. /\ cases \in [Recipients -> CaseType] /\ plan[e].stage \in Stages
      /\ plan[e].confidence \in 0..95 /\ cases[r].confidence \in 0..95
  BY <1>1 DEF Types, CaseTypes, EvalTypes, CaseType, PlanType
<1>4. cases' = [cases EXCEPT ![r] = [cases[r] EXCEPT !.stage = plan[e].stage, !.confidence = n]]
  BY <1>2, <1>3 DEF Write, CaseType
<1>5. n \in 0..95
  BY <1>2, <1>3
<1> HIDE DEF n
<1>6. /\ [cases[r] EXCEPT !.stage = plan[e].stage, !.confidence = n] \in CaseType
      /\ [cases[r] EXCEPT !.stage = plan[e].stage, !.confidence = n].stage = plan[e].stage
  BY <1>3, <1>5 DEF CaseType
<1>7. cases' \in [Recipients -> CaseType] /\ cases'[r].stage = plan[e].stage
  BY <1>3, <1>4, <1>6
<1>8. \A q \in Recipients : q # r => cases'[q] = cases[q]
  BY <1>3, <1>4
<1>9. older' \subseteq Recipients \X Recipients
  BY <1>1, <1>2, TouchedType DEF Write, Types
<1>10. CaseTypes'
  BY <1>1, <1>7, <1>9 DEF Write, Types, CaseTypes
<1> QED BY <1>2, <1>7, <1>8, <1>10

LEMMA WriteIsStep ==
    ASSUME IInv, NEW e \in Evaluators, Write(e)
    PROVE  EvaluatorStep(e)
<1>1. epc[e] # "idle" /\ Types
  BY DEF Write, IInv
<1>2. CASE Leave(e)
  BY <1>1, <1>2, LeaveIsStep
<1>3. CASE epc' = [epc EXCEPT ![e] = "emit"] /\ UNCHANGED <<todo, late, snap, plan>>
  <2>1. /\ todo' = [todo EXCEPT ![e] = todo[e]]
        /\ late' = [late EXCEPT ![e] = late[e]]
        /\ snap' = [snap EXCEPT ![e] = snap[e]]
        /\ plan' = [plan EXCEPT ![e] = plan[e]]
        /\ late[e] \in SUBSET Recipients
        /\ snap[e] \in CaseType
        /\ plan[e] \in PlanType
    BY <1>1, <1>3 DEF Types, EvalTypes
  <2>2. todo[e] \in Seq(Recipients) /\ todo[e] # <<>> /\ "emit" \in EvalPlaces
    BY <1>1, Current DEF EvalPlaces
  <2>3. epc' = [epc EXCEPT ![e] = "emit"] /\ "emit" # "write"
    BY <1>3
  <2> QED BY <1>1, <2>1, <2>2, <2>3, StepFromParts
<1> QED BY <1>2, <1>3 DEF Write

\* Every step of an evaluator, and what it does to the stages.
EvaluatorEffect(e) ==
    /\ EvaluatorStep(e)
    /\ CaseTypes'
    /\ UNCHANGED <<events, ivars>>
    /\ aborts' \in 0..MaxAborts
    /\ \/ \A q \in Recipients : cases'[q].stage = cases[q].stage
       \/ /\ Write(e)
          /\ cases'[Head(todo[e])].stage = plan[e].stage
          /\ \A q \in Recipients : q # Head(todo[e]) => cases'[q] = cases[q]

LEMMA EvaluatorCases ==
    ASSUME IInv, NEW e \in Evaluators,
           Evaluate(e) \/ AbortPass(e) \/ (\E r \in Recipients : Ask(e, r))
    PROVE  EvaluatorEffect(e)
<1>1. CASE StartPass(e) \/ (\E r \in Recipients : Ask(e, r))
  BY <1>1, BatchIsStep DEF EvaluatorEffect, IInv, Types, CaseTypes, casevars
<1>2. CASE AbortPass(e)
  BY <1>2, AbortPassIsStep DEF EvaluatorEffect, IInv, Types, CaseTypes, casevars
<1>3. CASE Fetch(e)
  BY <1>3, FetchIsStep DEF EvaluatorEffect, IInv, Types, CaseTypes, casevars
<1>4. CASE ReadEvidence(e)
  BY <1>4, ReadIsStep DEF EvaluatorEffect, IInv, Types, CaseTypes, casevars
<1>5. CASE Write(e)
  BY <1>5, WriteIsStep, WriteCases DEF EvaluatorEffect, Write, IInv, Types
<1>6. CASE Emit(e)
  BY <1>6, EmitIsStep DEF EvaluatorEffect, Emit, IInv, Types
<1> QED BY <1>1, <1>2, <1>3, <1>4, <1>5, <1>6 DEF Evaluate

\* Every step is one of the two kinds.
LEMMA StepKinds ==
    ASSUME IInv, Next
    PROVE  \/ OutsideEffect /\ IngestTypes' /\ aborts' \in 0..MaxAborts
           \/ \E e \in Evaluators : EvaluatorEffect(e)
<1>1. CASE \E i \in Ingesters, s \in Signatures, r \in Recipients : Arrive(i, s, r)
  BY <1>1, ArriveEffect
<1>2. ASSUME NEW i \in Ingesters, Ingest(i) \/ AbortIngest(i)
      PROVE  OutsideEffect /\ IngestTypes' /\ aborts' \in 0..MaxAborts
  BY <1>2, CreateEffect, RecordFundingEffect, FanoutEffect, AbortIngestEffect DEF Ingest
<1>3. CASE \E r \in Recipients, k \in EvidenceKinds : RecordEvidence(r, k)
  BY <1>3, RecordEvidenceEffect
<1>4. ASSUME NEW e \in Evaluators, Evaluate(e) \/ AbortPass(e)
      PROVE  EvaluatorEffect(e)
  BY <1>4, EvaluatorCases
<1>5. ASSUME NEW e \in Operators, NEW r \in Recipients, Ask(e, r)
      PROVE  e \in Evaluators /\ EvaluatorEffect(e)
  <2>1. e \in Evaluators
    BY DEF Evaluators
  <2> QED BY <1>5, <2>1, EvaluatorCases
<1>6. CASE \E r \in Recipients : Drain(r)
  BY <1>6, DrainEffect
<1>7. CASE Tick
  BY <1>7, TickEffect
<1> QED BY <1>1, <1>2, <1>3, <1>4, <1>5, <1>6, <1>7 DEF Next

LEMMA InitInv == Init => IInv
<1> SUFFICES ASSUME Init PROVE IInv
  OBVIOUS
<1>1. Types
  BY InitTypes
<1>2. PreparationIsEvidenced /\ PlansAreEvidenced
  BY DEF Init, PreparationIsEvidenced, PlansAreEvidenced, NoCase
<1> QED BY <1>1, <1>2 DEF IInv

LEMMA NextInv == IInv /\ [Next]_vars => IInv'
<1> SUFFICES ASSUME IInv, [Next]_vars PROVE IInv'
  OBVIOUS
<1>1. CASE OutsideEffect /\ IngestTypes' /\ aborts' \in 0..MaxAborts
  BY <1>1, OutsideIsHarmless
<1>2. ASSUME NEW e \in Evaluators, EvaluatorEffect(e) PROVE IInv'
  <2>1. ASSUME NEW q \in Recipients
        PROVE  \/ cases'[q].stage = cases[q].stage
               \/ cases'[q].stage = "preparation" => Evidenced(q)
    <3>1. CASE q = Head(todo[e]) /\ Write(e) /\ cases'[q].stage = plan[e].stage
      BY <3>1 DEF IInv, PlansAreEvidenced, Write
    <3> QED BY <1>2, <3>1 DEF EvaluatorEffect
  <2> QED BY <1>2, <2>1, EvaluatorIsHarmless DEF EvaluatorEffect
<1>3. CASE UNCHANGED vars
  BY <1>3 DEF vars, casevars, ivars, evars, IInv, Types, CaseTypes, IngestTypes, EvalTypes,
     PreparationIsEvidenced, PlansAreEvidenced, Evidenced, KindsOf
<1> QED BY <1>1, <1>2, <1>3, StepKinds

\* The inductive invariant holds for any number of concurrent evaluators and
\* ingesters.
THEOREM Invariance == Spec => []IInv
BY InitInv, NextInv, PTL DEF Spec

\* The radar stays in its types; in particular no confidence exceeds 95.
THEOREM TypeCorrect == Spec => []TypeOK
<1>1. IInv => TypeOK
  BY DEF IInv, Types, CaseTypes, IngestTypes, EvalTypes, TypeOK, CaseType, PlanType,
     IngestPlaces, EvalPlaces
<1> QED BY <1>1, Invariance, PTL

\* A case in preparation has enough kinds of evidence, one of them not
\* infrastructure, however the evaluators' reads and updates interleave.
THEOREM EvidencedPreparation == Spec => []PreparationIsEvidenced
<1>1. IInv => PreparationIsEvidenced
  BY DEF IInv
<1> QED BY <1>1, Invariance, PTL

----------------------------------------------------------------------------
(* A single evaluator. *)

\* No two evaluators are under way.
OneAtWork ==
    \A e, f \in Evaluators : epc[e] # "idle" /\ epc[f] # "idle" => e = f

\* The case an evaluator has fetched is still open.
FetchedIsOpen ==
    \A e \in Evaluators :
        epc[e] \in {"read", "write"} => cases[Head(todo[e])].stage \notin Terminal

\* The evaluator that moves keeps it so for itself ...
LEMMA OwnFetchStaysOpen ==
    ASSUME IInv, FetchedIsOpen, NEW e \in Evaluators,
           Evaluate(e) \/ AbortPass(e) \/ (\E r \in Recipients : Ask(e, r)),
           epc'[e] \in {"read", "write"}
    PROVE  cases'[Head(todo'[e])].stage \notin Terminal
<1>1. /\ epc \in [Evaluators -> EvalPlaces]
      /\ Types
  BY DEF IInv, Types, EvalTypes
<1>2. CASE Fetch(e)
  <2>1. ~IsTerminal(cases[Head(todo[e])].stage)
    BY <1>1, <1>2, LeaveIsStep DEF Fetch
  <2> QED BY <1>2, <2>1 DEF Fetch, IsTerminal, casevars
<1>3. CASE ReadEvidence(e)
  <2>1. epc[e] = "read" /\ ~Leave(e)
    BY <1>1, <1>3, LeaveIsStep DEF ReadEvidence
  <2>2. UNCHANGED <<todo, cases>>
    BY <1>3, <2>1 DEF ReadEvidence, casevars
  <2> QED BY <2>1, <2>2 DEF FetchedIsOpen
<1>4. CASE Write(e) \/ Emit(e)
  BY <1>1, <1>4, LeaveIsStep DEF Write, Emit
<1>5. CASE StartPass(e) \/ AbortPass(e) \/ (\E r \in Recipients : Ask(e, r))
  BY <1>1, <1>5 DEF StartPass, AbortPass, Ask
<1> QED BY <1>2, <1>3, <1>4, <1>5 DEF Evaluate

\* ... and for another only because that one is idle when a case is written.
LEMMA OthersFetchStaysOpen ==
    ASSUME IInv, FetchedIsOpen, OneAtWork, NEW e \in Evaluators, EvaluatorEffect(e),
           NEW f \in Evaluators, f # e, epc'[f] \in {"read", "write"}
    PROVE  cases'[Head(todo'[f])].stage \notin Terminal
<1>1. epc'[f] = epc[f] /\ todo'[f] = todo[f]
  BY DEF EvaluatorEffect, EvaluatorStep
<1>2. CASE Write(e)
  BY <1>1, <1>2 DEF Write, OneAtWork
<1>3. CASE ~Write(e)
  BY <1>1, <1>3, Current DEF EvaluatorEffect, FetchedIsOpen, casevars, IInv
<1> QED BY <1>2, <1>3

LEMMA FetchedStaysOpen ==
    ASSUME OneAtWork, IInv, FetchedIsOpen, [Next]_vars
    PROVE  FetchedIsOpen'
<1>1. CASE OutsideEffect
  <2> SUFFICES ASSUME NEW e \in Evaluators, epc[e] \in {"read", "write"}
               PROVE  cases'[Head(todo[e])].stage \notin Terminal
    BY <1>1 DEF FetchedIsOpen, OutsideEffect, evars
  <2>1. Head(todo[e]) \in Recipients /\ cases[Head(todo[e])].stage \notin Terminal
    BY Current DEF IInv, FetchedIsOpen
  <2> QED BY <1>1, <2>1 DEF OutsideEffect, Terminal
<1>2. ASSUME NEW e \in Evaluators, Evaluate(e) \/ AbortPass(e) \/ (\E r \in Recipients : Ask(e, r))
      PROVE  FetchedIsOpen'
  BY <1>2, EvaluatorCases, OwnFetchStaysOpen, OthersFetchStaysOpen DEF FetchedIsOpen
<1>3. CASE UNCHANGED vars
  BY <1>3 DEF vars, casevars, evars, FetchedIsOpen
<1>4. ASSUME NEW e \in Operators PROVE e \in Evaluators
  BY DEF Evaluators
<1>5. ASSUME NEW i \in Ingesters, Ingest(i) \/ AbortIngest(i) PROVE OutsideEffect
  BY <1>5, CreateEffect, RecordFundingEffect, FanoutEffect, AbortIngestEffect DEF Ingest
<1> QED
  BY <1>1, <1>2, <1>3, <1>4, <1>5, ArriveEffect, RecordEvidenceEffect, DrainEffect, TickEffect
     DEF Next

LEMMA FetchedIsOpenStepFinal ==
    ASSUME IInv, FetchedIsOpen, [Next]_vars, NEW r \in Recipients, cases[r].stage \in Terminal
    PROVE  cases'[r].stage = cases[r].stage
<1>1. CASE OutsideEffect
  BY <1>1 DEF OutsideEffect, Terminal
<1>2. ASSUME NEW e \in Evaluators, EvaluatorEffect(e) PROVE cases'[r].stage = cases[r].stage
  <2>1. Write(e) => r # Head(todo[e])
    BY DEF Write, FetchedIsOpen
  <2> QED BY <1>2, <2>1 DEF EvaluatorEffect
<1>3. CASE UNCHANGED vars
  BY <1>3 DEF vars, casevars
<1> QED BY <1>1, <1>2, <1>3, StepKinds

\* As long as no two evaluators are at work together, a case that was deployed
\* or dismissed keeps its stage, whatever the ingesters and the crashes do.
THEOREM SoloTerminal == Spec /\ []OneAtWork => TerminalIsFinal
<1>1. Init => FetchedIsOpen
  BY DEF Init, FetchedIsOpen
<1>2. IInv /\ OneAtWork /\ FetchedIsOpen /\ [Next]_vars => FetchedIsOpen'
  BY FetchedStaysOpen
<1>3. IInv /\ FetchedIsOpen /\ [Next]_vars => [KeepsTerminal]_vars
  BY FetchedIsOpenStepFinal DEF KeepsTerminal
<1> QED BY <1>1, <1>2, <1>3, Invariance, PTL DEF Spec, TerminalIsFinal

\* One worker process, and no operator at work.
SoloInv == solo => OneEvaluator /\ FetchedIsOpen

\* With one worker process, in the behaviours without an operator: neither the
\* second ingester's transfers nor a crash of the pass reopens a case.
THEOREM SoloWorkerTerminal ==
    ASSUME \A k, l \in Loops : k = l
    PROVE  RadarSpec => SoloTerminalIsFinal
<1>1. RadarInit => Init /\ SoloInv
  BY DEF RadarInit, Init, SoloInv, FetchedIsOpen, OneEvaluator, Evaluators
<1>2. [RadarNext]_radarVars => [Next]_vars
  BY DEF RadarNext, radarVars
<1>3. IInv /\ SoloInv /\ [RadarNext]_radarVars => SoloInv'
  <2> SUFFICES ASSUME IInv, SoloInv, [RadarNext]_radarVars, solo' PROVE SoloInv'
    BY DEF SoloInv
  <2>1. solo
    BY DEF RadarNext, radarVars
  <2>2. OneAtWork
    BY <2>1 DEF SoloInv, OneEvaluator, OneAtWork, Evaluators
  <2>3. FetchedIsOpen'
    BY <1>2, <2>1, <2>2, FetchedStaysOpen DEF SoloInv
  <2>4. CASE RadarNext
    BY <2>1, <2>3, <2>4 DEF RadarNext, InInstance, SoloInv
  <2>5. CASE UNCHANGED radarVars
    BY <2>1, <2>3, <2>5 DEF radarVars, vars, evars, SoloInv, OneEvaluator
  <2> QED BY <2>4, <2>5
<1>4. IInv /\ SoloInv /\ [RadarNext]_radarVars => [solo => KeepsTerminal]_vars
  BY <1>2, FetchedIsOpenStepFinal DEF KeepsTerminal, SoloInv
<1> QED BY <1>1, <1>2, <1>3, <1>4, InitInv, NextInv, PTL DEF RadarSpec, SoloTerminalIsFinal

=============================================================================
