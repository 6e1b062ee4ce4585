--------------------------- MODULE ServiceProofs ----------------------------
(***************************************************************************)
(* Proofs about the service around the intelligence: the queue gate, the   *)
(* migration ledger and the cursor of block polling.                       *)
(***************************************************************************)
EXTENDS QueueGate, Migrations, BlockCursor, FiniteSetTheorems, WellFoundedInduction, TLAPS

(***************************************************************************)
(* QueueGate.                                                              *)
(***************************************************************************)

LEMMA QueuesAreNumbered ==
  /\ Len(QgQueues) \in Nat /\ DOMAIN QgQueues = 1 .. Len(QgQueues) /\ 1 \in DOMAIN QgQueues
  /\ \A i \in DOMAIN QgQueues : QgQueues[i] \in QueueSet
  /\ \A i \in DOMAIN QgQueues : QgQueues[i] = LiveWatch => i = 1
  /\ \A i, j \in DOMAIN QgQueues : QgQueues[i] = QgQueues[j] => i = j
<1>1. QgQueues \in Seq(Range(QgQueues)) /\ QgQueues # <<>>
  BY QgAssumption
<1>2. Len(QgQueues) \in Nat /\ DOMAIN QgQueues = 1 .. Len(QgQueues) /\ 1 \in DOMAIN QgQueues
  BY <1>1
<1>3. \A i, j \in DOMAIN QgQueues : QgQueues[i] = QgQueues[j] => i = j
  BY QgAssumption DEF IsInjective
<1>4. \A i \in DOMAIN QgQueues : QgQueues[i] \in QueueSet
  BY DEF QueueSet, Range
<1> QED
  BY <1>2, <1>3, <1>4, QgAssumption

LEMMA WorkersServeQueues == \A w \in Ws : QgWorkers[w] \in QueueSet
BY QgAssumption DEF Ws, QueueSet, Range

\* The lower its precedence, the fewer candidates are below a queue.
LEMMA LowerCountsLess ==
  ASSUME NEW local \in SUBSET QueueSet,
         NEW i \in DOMAIN QgQueues, NEW j \in DOMAIN QgQueues, i < j,
         Cardinality(local) \in Nat
  PROVE  /\ CountAt(j, local) \in Nat /\ CountAt(i, local) \in Nat
         /\ CountAt(j, local) <= CountAt(i, local)
<1> DEFINE above == {k \in Candidates(local) : k > i}
           below == {k \in Candidates(local) : k > j}
<1>1. below \subseteq above /\ above \subseteq 1 .. Len(QgQueues)
  BY QueuesAreNumbered DEF Candidates
<1>2. IsFiniteSet(1 .. Len(QgQueues))
  BY FS_Interval, QueuesAreNumbered
<1>3. IsFiniteSet(above) /\ Cardinality(below) <= Cardinality(above)
  <2>1. IsFiniteSet(above)
    BY <1>1, <1>2, FS_Subset
  <2> QED
    BY <1>1, <2>1, FS_Subset
<1>4. Cardinality(below) \in Nat /\ Cardinality(above) \in Nat
  BY <1>1, <1>3, FS_Subset, FS_CardinalityType
<1> QED
  BY <1>3, <1>4 DEF CountAt

LEMMA LocalIsFinite ==
  ASSUME NEW local \in SUBSET QueueSet
  PROVE  Cardinality(local) \in Nat
<1>1. IsFiniteSet(1 .. Len(QgQueues))
  BY FS_Interval, QueuesAreNumbered
<1>2. QgQueues \in Surjection(1 .. Len(QgQueues), QueueSet)
  <2>1. QgQueues \in [1 .. Len(QgQueues) -> QueueSet]
    BY QgAssumption DEF QueueSet
  <2> QED
    BY <2>1, QueuesAreNumbered DEF Surjection, QueueSet, Range
<1>3. IsFiniteSet(QueueSet)
  BY <1>1, <1>2, FS_Surjection
<1>4. IsFiniteSet(local)
  BY <1>3, FS_Subset
<1> QED
  BY <1>4, FS_CardinalityType

\* pause_bottom_up keeps the paused queues at the bottom, whatever the target, and
\* never touches live_watch.
LEMMA BottomStaysBottom ==
  ASSUME QgTypeOK, PressureFromTheBottom, NEW target \in 1 .. Len(QgQueues), Pressure(target)
  PROVE  PressureFromTheBottom' /\ qgLocal' \subseteq QueueSet
<1>1. qgLocal \in SUBSET QueueSet /\ Cardinality(qgLocal) \in Nat
  BY LocalIsFinite DEF QgTypeOK
<1>2. qgLocal' = PauseBottomUp(qgLocal, target)
  BY DEF Pressure
<1>3. qgLocal' \subseteq QueueSet /\ LiveWatch \notin qgLocal'
  BY <1>1, <1>2, QueuesAreNumbered DEF PauseBottomUp, Candidates, PressureFromTheBottom
<1>4. ASSUME NEW i \in 1 .. Len(QgQueues), NEW j \in 1 .. Len(QgQueues), i < j,
             QgQueues[i] \in qgLocal'
      PROVE  QgQueues[j] \in qgLocal'
  <2>1. CASE QgQueues[i] \in qgLocal
    BY <1>2, <1>4, <2>1 DEF PressureFromTheBottom, PauseBottomUp
  <2>2. CASE QgQueues[j] \in qgLocal
    BY <1>2, <2>2 DEF PauseBottomUp
  <2>3. CASE QgQueues[i] \notin qgLocal /\ QgQueues[j] \notin qgLocal
    <3>1. PICK k \in Candidates(qgLocal) : QgQueues[k] = QgQueues[i] /\ CountAt(k, qgLocal) < target
      BY <1>2, <1>4, <2>3 DEF PauseBottomUp
    <3>2. k = i
      BY <1>4, <3>1, QueuesAreNumbered DEF Candidates
    <3>3. j \in Candidates(qgLocal)
      BY <1>4, <2>3, QueuesAreNumbered DEF Candidates
    <3>4. CountAt(j, qgLocal) < target
      <4>1. /\ CountAt(j, qgLocal) \in Nat /\ CountAt(i, qgLocal) \in Nat
            /\ CountAt(j, qgLocal) <= CountAt(i, qgLocal)
        BY <1>1, <1>4, LowerCountsLess, QueuesAreNumbered
      <4> QED
        BY <3>1, <3>2, <4>1, QueuesAreNumbered
    <3> QED
      BY <1>2, <3>3, <3>4 DEF PauseBottomUp
  <2> QED
    BY <2>1, <2>2, <2>3
<1> QED
  BY <1>3, <1>4 DEF PressureFromTheBottom

LEMMA QgInitial == ASSUME QgInit PROVE QgIndInv
<1>1. QgTypeOK /\ PressureFromTheBottom
  BY DEF QgInit, QgTypeOK, PressureFromTheBottom
<1>2. RoundWasPassed
  BY WorkersServeQueues DEF QgInit, RoundWasPassed, Paused
<1> QED
  BY <1>1, <1>2 DEF QgIndInv

\* set_queue_pause opens a new count for the queue's workers: none has started, and
\* one may stand behind the gate.
LEMMA RequestsAreObeyed ==
  ASSUME QgIndInv, NEW q, NEW paused \in BOOLEAN, SetQueuePause(q, paused)
  PROVE  QgIndInv'
<1>1. QgTypeOK'
  BY DEF QgIndInv, QgTypeOK, SetQueuePause
<1>2. RoundWasPassed'
  BY WorkersServeQueues DEF QgIndInv, QgTypeOK, RoundWasPassed, Paused, SetQueuePause
<1>3. PressureFromTheBottom'
  BY DEF QgIndInv, SetQueuePause, PressureFromTheBottom
<1> QED
  BY <1>1, <1>2, <1>3 DEF QgIndInv

LEMMA WorkersObey ==
  ASSUME QgIndInv, NEW w \in Ws, Worker(w)
  PROVE  QgIndInv'
<1>1. QgTypeOK'
  BY DEF QgIndInv, QgTypeOK, Worker, Gate, StartRound, EndRound, NextTick, UnreadableGate
<1>2. PressureFromTheBottom'
  BY DEF QgIndInv, Worker, Gate, StartRound, EndRound, NextTick, PressureFromTheBottom
<1>3. RoundWasPassed'
  <2> USE DEF QgIndInv, QgTypeOK, RoundWasPassed, Paused
  <2>1. CASE Gate(w)
    BY <2>1 DEF Gate, Passes, UnreadableGate
  <2>2. CASE StartRound(w)
    BY <2>2 DEF StartRound
  <2>3. CASE EndRound(w) \/ NextTick(w)
    BY <2>3 DEF EndRound, NextTick
  <2> QED
    BY <2>1, <2>2, <2>3 DEF Worker
<1> QED
  BY <1>1, <1>2, <1>3 DEF QgIndInv

\* Pauses are obeyed (queues.rs, workers.rs): for any queues and workers and any
\* number of requests and unreadable reads, a pause takes hold within one round and
\* pressure pauses the queues of lowest precedence first.
THEOREM ObeyedPauses == QgSpec => []PausesAreObeyed
<1>1. ASSUME QgIndInv, [QgNext]_qgVars PROVE QgIndInv'
  <2> USE <1>1
  <2>1. CASE UNCHANGED qgVars
    BY <2>1 DEF qgVars, QgIndInv, QgTypeOK, RoundWasPassed, Paused, PressureFromTheBottom
  <2>2. CASE \E target \in 1 .. Len(QgQueues) : Pressure(target)
    <3>1. PressureFromTheBottom' /\ qgLocal' \subseteq QueueSet
      BY <2>2, BottomStaysBottom DEF QgIndInv
    <3> QED
      BY <2>2, <3>1 DEF Pressure, QgIndInv, QgTypeOK, RoundWasPassed, Paused
  <2>3. CASE ResumeAll
    BY <2>3 DEF ResumeAll, QgIndInv, QgTypeOK, RoundWasPassed, Paused, PressureFromTheBottom
  <2> QED
    BY <2>1, <2>2, <2>3, RequestsAreObeyed, WorkersObey DEF QgNext
<1>2. QgIndInv => PausesAreObeyed
  BY DEF QgIndInv, QgTypeOK, PausesAreObeyed, PauseTakesHold, RoundWasPassed
<1> QED
  BY <1>1, <1>2, QgInitial, PTL DEF QgSpec

(***************************************************************************)
(* Migrations.                                                             *)
(***************************************************************************)

\* What every step may do to the database: columns come, shapes go, and a row that
\* changes had no provenance before and has one afterwards.
DbEvolves ==
  /\ mgDb \in MgDbs /\ mgDb' \in MgDbs
  /\ mgDb.cols \subseteq mgDb'.cols /\ mgDb'.shapes \subseteq mgDb.shapes
  /\ \A n \in MgNames : mgDb'.ledger[n] # mgDb.ledger[n] =>
       /\ ~Has(mgDb.ledger[n]) \/ mgDb.ledger[n].origin = NoDigest
       /\ Has(mgDb'.ledger[n]) /\ mgDb'.ledger[n].origin \in LegalOrigins
  /\ MigKeepsProvenance

LEMMA FilesAreNamed ==
  ASSUME NEW d \in MgDirs
  PROVE  /\ DOMAIN d.files \subseteq MgNames /\ DOMAIN d.files \subseteq Nat
         /\ \A n \in DOMAIN d.files : d.files[n] \in MgDigests
BY MgAssumption

\* The next file of a run is the least one left.
LEMMA CurrentIsLeft ==
  ASSUME MgTyped, NEW m \in Migrators, Left(m) # {}
  PROVE  /\ Current(m) \in DOMAIN mgM[m].dir.files /\ Current(m) \in MgNames
         /\ Current(m) \in Nat /\ FileDigest(m) \in MgDigests
         /\ \A k \in Left(m) : Current(m) <= k
<1>1. mgM[m].dir \in MgDirs
  BY DEF MgTyped, MgRuns
<1>2. Left(m) \subseteq Nat /\ Left(m) \subseteq DOMAIN mgM[m].dir.files
  BY <1>1, FilesAreNamed DEF Left
<1>3. \E n \in Left(m) : \A k \in Left(m) : n <= k
  <2> DEFINE Before == {p \in Nat \X Nat : p[1] < p[2]}
  <2>1. IsWellFoundedOn(Before, Nat)
    BY NatLessThanWellFounded DEF OpToRel
  <2>2. PICK n \in Left(m) : \A k \in Left(m) : ~(<<k, n>> \in Before)
    <3> HIDE DEF Before
    <3> QED
      BY <1>2, <2>1, WFMin
  <2>3. \A k, i \in Nat : ~(<<k, i>> \in Before) => i <= k
    OBVIOUS
  <2> HIDE DEF Before
  <2> QED
    BY <1>2, <2>2, <2>3
<1>4. Current(m) \in Left(m) /\ \A k \in Left(m) : Current(m) <= k
  BY <1>3 DEF Current
<1> QED
  BY <1>1, <1>2, <1>4, FilesAreNamed DEF FileDigest

\* What is recorded stays recorded.
LEMMA RowsStay == ASSUME DbEvolves, NEW n \in MgNames, Has(mgDb.ledger[n]) PROVE Has(mgDb.ledger[n])'
BY DEF DbEvolves, Has

LEMMA StateStays == ASSUME DbEvolves, StateExists(mgDb) PROVE StateExists(mgDb)'
BY RowsStay, MgAssumption DEF StateExists, Has

\* The files passed stay recorded, in any run that has passed no further.
LEMMA PassedStays ==
  ASSUME DbEvolves, NEW k \in Migrators, mgM[k].dir \in MgDirs, PassedIsRecorded(k),
         mgM'[k].dir = mgM[k].dir, mgM'[k].next = mgM[k].next
  PROVE  PassedIsRecorded(k)'
BY RowsStay, FilesAreNamed DEF PassedIsRecorded, Has

\* A run that does not move stays sound: it is not past the lock when another one
\* writes.
LEMMA OtherRunsStaySound ==
  ASSUME NEW k \in Migrators, RunIsSound(k), mgM'[k] = mgM[k], mgM[k].dir \in MgDirs, DbEvolves,
         mgDb' = mgDb \/ mgM[k].pc \notin MgActive,
         mgLock' = mgLock \/ mgM[k].pc \notin MgActive
  PROVE  RunIsSound(k)'
<1>1. LockIsHeld(k)'
  BY DEF RunIsSound, LockIsHeld
<1>2. LooksAreFresh(k)'
  <2>1. Left(k)' = Left(k) /\ Current(k)' = Current(k)
    BY DEF Left, Current
  <2> QED
    BY <2>1 DEF RunIsSound, LooksAreFresh, MgActive
<1>3. ColumnIsThere(k)'
  BY DEF RunIsSound, ColumnIsThere, DbEvolves
<1>4. ASSUME NEW shape, Repaired(shape) PROVE Repaired(shape)'
  BY <1>4 DEF Repaired, DbEvolves
<1>5. PreflightsHold(k)'
  BY <1>4 DEF RunIsSound, PreflightsHold
<1>6. PassedIsRecorded(k)'
  BY PassedStays DEF RunIsSound
<1>7. /\ mgM'[k].why # "duplicate" /\ ReasonIsOfAFailure(k)'
      /\ mgM'[k].why = "sql" => mgM'[k].early /\ StateExists(mgDb)'
  BY StateStays DEF RunIsSound, ReasonIsOfAFailure
<1> QED
  BY <1>1, <1>2, <1>3, <1>5, <1>6, <1>7 DEF RunIsSound

\* What a service has read, and the schema it runs on, survive every step of the
\* migrators.
LEMMA ServicesStaySafe ==
  ASSUME MgTyped, DbEvolves, mgSvc' = mgSvc, ReadsAreSafe, SvcRunsOnItsSchema
  PROVE  ReadsAreSafe' /\ SvcRunsOnItsSchema'
<1>2. ReadsAreSafe'
  <2>1. SUFFICES ASSUME NEW s \in MgServices, mgSvc[s].pc = "rows",
                        NEW n \in MgNames, Has(mgDb'.ledger[n])
                 PROVE  /\ mgDb'.ledger[n].origin \in LegalOrigins \cup {NoDigest}
                        /\ "sha256" \in mgSvc[s].cols /\ Unowned(mgDb.ledger[n])'
                             => n \in mgSvc[s].loose
    BY DEF ReadsAreSafe, Has, Unowned
  <2>2. CASE mgDb'.ledger[n] = mgDb.ledger[n]
    BY <2>1, <2>2 DEF ReadsAreSafe, Has, Unowned
  <2>3. CASE mgDb'.ledger[n] # mgDb.ledger[n]
    BY <2>1, <2>3 DEF DbEvolves, LegalOrigins, Unowned, NoDigest
  <2> QED
    BY <2>2, <2>3
<1>3. SvcRunsOnItsSchema'
  <2>1. SUFFICES ASSUME NEW s \in MgServices, mgSvc[s].pc = "running",
                        NEW n \in DOMAIN mgSvc[s].dir.files
                 PROVE  mgDb'.ledger[n] = mgDb.ledger[n]
    BY DEF SvcRunsOnItsSchema
  <2>2. n \in MgNames
    <3>1. mgSvc[s].dir \in MgDirs
      BY DEF MgTyped, MgSvcs
    <3> QED
      BY <2>1, <3>1, FilesAreNamed
  <2>3. Has(mgDb.ledger[n]) /\ mgDb.ledger[n].origin \in LegalOrigins
    BY <2>1 DEF SvcRunsOnItsSchema
  <2> QED
    BY <2>2, <2>3 DEF DbEvolves, LegalOrigins, NoDigest
<1> QED
  BY <1>2, <1>3

LEMMA LedgerStaysTrue ==
  ASSUME LedgerAgrees(mgDb, mgRan), mgDb'.ledger = mgDb.ledger, mgRan' = mgRan,
         mgDb.cols \subseteq mgDb'.cols
  PROVE  LedgerAgrees(mgDb, mgRan)'
BY DEF LedgerAgrees

\* So a step of a migrator is about its own run, the ledger and the lock: it writes
\* under the lock, and gives up no lock but its own.
LEMMA OneRunMoves ==
  ASSUME MgIndInv, NEW m \in Migrators, NEW r \in MgRuns, mgM' = [mgM EXCEPT ![m] = r],
         DbEvolves, mgSvc' = mgSvc, mgStarts' \in 0..MgMaxStarts,
         mgRan' \in [MgNames -> Seq(MgDigests)], LedgerAgrees(mgDb, mgRan)',
         mgDb' = mgDb \/ mgM[m].pc \in MgActive,
         mgLock' = mgLock \/ (mgLock \in {m, Nobody} /\ mgLock' \in {m, Nobody}),
         RunIsSound(m)'
  PROVE  MgIndInv' /\ MigKeepsProvenance
<1>1. MgTyped'
  BY DEF MgIndInv, MgTyped, DbEvolves
<1>2. mgM'[m] = r /\ \A k \in Migrators \ {m} : mgM'[k] = mgM[k]
  BY DEF MgIndInv, MgTyped
<1>3. ASSUME NEW k \in Migrators, k # m PROVE RunIsSound(k)'
  <2>1. RunIsSound(k) /\ RunIsSound(m) /\ k # Nobody /\ mgM[k].dir \in MgDirs
    BY MgAssumption DEF MgIndInv, MgTyped, MgRuns
  <2>2. mgDb' = mgDb \/ mgM[k].pc \notin MgActive
    BY <1>3, <2>1 DEF RunIsSound, LockIsHeld
  <2>3. mgLock' = mgLock \/ mgM[k].pc \notin MgActive
    BY <1>3, <2>1 DEF RunIsSound, LockIsHeld
  <2> QED
    BY <1>2, <1>3, <2>1, <2>2, <2>3, OtherRunsStaySound
<1>4. ReadsAreSafe' /\ SvcRunsOnItsSchema'
  BY ServicesStaySafe DEF MgIndInv
<1> QED
  BY <1>1, <1>3, <1>4 DEF MgIndInv, DbEvolves

LEMMA UnchangedEvolves == ASSUME mgDb \in MgDbs, mgDb' = mgDb PROVE DbEvolves
BY DEF DbEvolves, MigKeepsProvenance

\* The records the steps build.
LEMMA GotoIsARun ==
  ASSUME MgTyped, NEW m \in Migrators, NEW to \in MgActive, Goto(m, to)
  PROVE  \E r \in MgRuns : /\ mgM' = [mgM EXCEPT ![m] = r]
                           /\ r.pc = to /\ r.why = mgM[m].why /\ r.early = mgM[m].early
                           /\ r.dir = mgM[m].dir /\ r.next = mgM[m].next
<1> DEFINE r == [mgM[m] EXCEPT !.pc = to]
<1>1. mgM' = [mgM EXCEPT ![m] = r]
  BY DEF Goto
<1>2. /\ r \in MgRuns /\ r.pc = to /\ r.why = mgM[m].why /\ r.early = mgM[m].early
      /\ r.dir = mgM[m].dir /\ r.next = mgM[m].next
  BY DEF MgTyped, MgRuns
<1> HIDE DEF r
<1> QED
  BY <1>1, <1>2

LEMMA IdleIsARun ==
  ASSUME NEW to \in {"idle", "done", "failed"}, NEW early \in BOOLEAN, NEW why \in MgWhys
  PROVE  [IdleMigrator EXCEPT !.pc = to, !.early = early, !.why = why] \in MgRuns
<1>1. MgEmbedded \in MgDirs /\ NoRow \in MgLedgerRows
  BY MgAssumption DEF MgLedgerRows
<1> QED
  BY <1>1 DEF IdleMigrator, MgRuns

\* A run that has passed no file has recorded what it passed.
LEMMA NothingPassed ==
  ASSUME NEW m \in Migrators, mgM'[m].dir \in MgDirs, mgM'[m].next = 0
  PROVE  PassedIsRecorded(m)'
<1>1. \A k \in DOMAIN mgM'[m].dir.files : k \in Nat \ {0}
  BY FilesAreNamed, MgAssumption
<1> QED
  BY <1>1 DEF PassedIsRecorded

\* A run that is over owes nothing but its reason.
LEMMA EndedRunIsSound ==
  ASSUME NEW m \in Migrators, mgM'[m].pc \in {"idle", "lock", "done", "failed"},
         mgM'[m].dir \in MgDirs, mgM'[m].next = 0, mgM'[m].why # "duplicate",
         ReasonIsOfAFailure(m)',
         mgM'[m].why = "sql" => mgM'[m].early /\ StateExists(mgDb)'
  PROVE  RunIsSound(m)'
BY NothingPassed
   DEF RunIsSound, LockIsHeld, LooksAreFresh, ColumnIsThere, PreflightsHold, MgActive

\* An error return gives the lock up and writes nothing.
LEMMA FailuresAreClean ==
  ASSUME MgIndInv, NEW m \in Migrators, NEW why \in MgWhys \ {"duplicate"}, Fail(m, why),
         why = "sql" => mgM[m].early /\ StateExists(mgDb),
         UNCHANGED <<mgDb, mgRan, mgSvc, mgStarts>>
  PROVE  MgIndInv' /\ MigKeepsProvenance
<1> DEFINE early == mgM[m].early
           r == [IdleMigrator EXCEPT !.pc = "failed", !.early = early, !.why = why]
<1>0. early \in BOOLEAN
  BY DEF MgIndInv, MgTyped, MgRuns
<1>1. /\ r \in MgRuns /\ r.pc = "failed" /\ r.why = why /\ r.early = early
      /\ r.dir \in MgDirs /\ r.next = 0
  <2> HIDE DEF early
  <2> QED
    BY <1>0, IdleIsARun, MgAssumption DEF IdleMigrator
<1>2. mgM' = [mgM EXCEPT ![m] = r] /\ mgLock' = (IF mgLock = m THEN Nobody ELSE mgLock)
  BY DEF Fail, MigHolds
<1> HIDE DEF r
<1>3. mgM'[m] = r
  BY <1>2 DEF MgIndInv, MgTyped
<1>4. RunIsSound(m)'
  BY <1>1, <1>3, EndedRunIsSound DEF StateExists, ReasonIsOfAFailure
<1>5. DbEvolves /\ LedgerAgrees(mgDb, mgRan)'
  BY UnchangedEvolves, LedgerStaysTrue DEF MgIndInv, MgTyped
<1>6. mgRan' \in [MgNames -> Seq(MgDigests)] /\ mgStarts' \in 0..MgMaxStarts
  BY DEF MgIndInv, MgTyped
<1> QED
  BY <1>1, <1>2, <1>4, <1>5, <1>6, OneRunMoves

\* What a statement before the loop owes where it goes.
LEMMA StatementIsSound ==
  ASSUME MgIndInv, NEW m \in Migrators, NEW to \in MgActive \ {"file"},
         NEW r \in MgRuns, mgM' = [mgM EXCEPT ![m] = r], r.pc = to, r.why = mgM[m].why,
         r.dir = mgM[m].dir, r.next = mgM[m].next, mgM[m].pc # "failed",
         DbEvolves, mgDb'.ledger = mgDb.ledger,
         UNCHANGED <<mgRan, mgSvc, mgStarts>>,
         mgDb' = mgDb \/ mgM[m].pc \in MgActive,
         mgLock \in {m, Nobody}, mgLock' = m,
         to = "create" => ~mgDb'.table,
         to \notin {"table", "create", "sha256", "digest_origin"} => "digest_origin" \in mgDb'.cols,
         to \in {"dedup", "cases", "loop"} => r.early \/ Repaired("sentAtNotNull")',
         to \in {"cases", "loop"} => Repaired("badWorkspace")' /\ Repaired("badSubject")',
         to = "loop" => Repaired("duplicateCases")'
  PROVE  MgIndInv' /\ MigKeepsProvenance
<1>2. mgM'[m] = r
  BY DEF MgIndInv, MgTyped
<1>3. RunIsSound(m)'
  <2>1. LockIsHeld(m)' /\ LooksAreFresh(m)' /\ ColumnIsThere(m)'
    BY <1>2 DEF LockIsHeld, LooksAreFresh, ColumnIsThere
  <2>2. PreflightsHold(m)'
    BY <1>2 DEF PreflightsHold
  <2>3. RunIsSound(m) /\ mgM[m].dir \in MgDirs
    BY DEF MgIndInv, MgTyped, MgRuns
  <2>4. mgM'[m].why = ""
    BY <1>2, <2>3 DEF RunIsSound, ReasonIsOfAFailure
  <2>5. PassedIsRecorded(m)'
    BY <1>2, <2>3, PassedStays DEF RunIsSound
  <2> QED
    BY <2>1, <2>2, <2>4, <2>5 DEF RunIsSound, ReasonIsOfAFailure
<1>4. LedgerAgrees(mgDb, mgRan)'
  BY LedgerStaysTrue DEF MgIndInv, DbEvolves
<1>5. mgRan' \in [MgNames -> Seq(MgDigests)] /\ mgStarts' \in 0..MgMaxStarts
  BY DEF MgIndInv, MgTyped
<1> QED
  BY <1>3, <1>4, <1>5, OneRunMoves

\* ... when it changes nothing else of its run.
LEMMA GotoIsSound ==
  ASSUME MgIndInv, NEW m \in Migrators, NEW to \in MgActive \ {"file"}, Goto(m, to),
         mgM[m].pc # "failed",
         DbEvolves, mgDb'.ledger = mgDb.ledger,
         UNCHANGED <<mgRan, mgSvc, mgStarts>>,
         mgDb' = mgDb \/ mgM[m].pc \in MgActive,
         mgLock \in {m, Nobody}, mgLock' = m,
         to = "create" => ~mgDb'.table,
         to \notin {"table", "create", "sha256", "digest_origin"} => "digest_origin" \in mgDb'.cols,
         to \in {"dedup", "cases", "loop"} => mgM[m].early \/ Repaired("sentAtNotNull")',
         to \in {"cases", "loop"} => Repaired("badWorkspace")' /\ Repaired("badSubject")',
         to = "loop" => Repaired("duplicateCases")'
  PROVE  MgIndInv' /\ MigKeepsProvenance
<1>1. PICK r \in MgRuns : /\ mgM' = [mgM EXCEPT ![m] = r]
                          /\ r.pc = to /\ r.why = mgM[m].why /\ r.early = mgM[m].early
                          /\ r.dir = mgM[m].dir /\ r.next = mgM[m].next
  BY GotoIsARun DEF MgIndInv
<1> QED
  BY <1>1, StatementIsSound

LEMMA ActiveHolds ==
  ASSUME MgIndInv, NEW m \in Migrators, mgM[m].pc \in MgActive
  PROVE  mgLock = m /\ mgDb \in MgDbs
BY DEF MgIndInv, RunIsSound, LockIsHeld, MgTyped

\* Fields of the database that are not its ledger.
LEMMA FieldsEvolve ==
  ASSUME mgDb \in MgDbs, mgDb' \in MgDbs, mgDb'.ledger = mgDb.ledger,
         mgDb.cols \subseteq mgDb'.cols, mgDb'.shapes \subseteq mgDb.shapes
  PROVE  DbEvolves
BY DEF DbEvolves, MigKeepsProvenance

\* The advisory lock, the table and its columns, the checks and the revoke.
LEMMA SetupIsSound ==
  ASSUME MgIndInv, NEW m \in Migrators,
         \/ MigLock(m) \/ MigLookForTable(m) \/ MigCreateTable(m) \/ MigAddColumn(m)
         \/ MigCheckAuthority(m) \/ MigConstraint(m) \/ MigRevoke(m)
  PROVE  MgIndInv' /\ MigKeepsProvenance
<1>1. RunIsSound(m) /\ mgDb \in MgDbs
  BY DEF MgIndInv, MgTyped
<1>2. CASE MigLock(m)
  BY <1>1, <1>2, GotoIsSound, UnchangedEvolves DEF MigLock, MgActive
<1>3. CASE MigLookForTable(m)
  <2>1. mgLock = m
    BY <1>3, ActiveHolds DEF MigLookForTable, MgActive
  <2> QED
    BY <1>1, <1>3, <2>1, GotoIsSound, UnchangedEvolves DEF MigLookForTable, MgActive
<1>4. CASE MigCreateTable(m)
  <2>1. mgLock = m /\ ~mgDb.table
    BY <1>1, <1>4, ActiveHolds DEF MigCreateTable, MgActive, RunIsSound, LooksAreFresh
  <2>2. mgDb' = [mgDb EXCEPT !.table = TRUE] /\ Goto(m, "sha256") /\ mgLock' = mgLock
        /\ UNCHANGED <<mgRan, mgSvc, mgStarts>>
    BY <1>4, <2>1 DEF MigCreateTable
  <2>3. DbEvolves /\ mgDb'.ledger = mgDb.ledger
    <3>1. /\ mgDb' \in MgDbs /\ mgDb'.ledger = mgDb.ledger
          /\ mgDb.cols = mgDb'.cols /\ mgDb'.shapes = mgDb.shapes
      BY <1>1, <2>2 DEF MgDbs
    <3> QED
      BY <1>1, <3>1, FieldsEvolve
  <2> QED
    BY <1>4, <2>1, <2>2, <2>3, GotoIsSound DEF MigCreateTable, MgActive
<1>5. CASE MigAddColumn(m)
  <2> DEFINE col == mgM[m].pc
             to == IF col = "sha256" THEN "digest_origin" ELSE "authority"
  <2>1. mgLock = m /\ mgM[m].pc \in MgActive /\ to \in MgActive \ {"file"}
    BY <1>5, ActiveHolds DEF MigAddColumn, MgActive
  <2>2. mgDb' = [mgDb EXCEPT !.cols = @ \cup {col}] /\ Goto(m, to) /\ mgLock' = mgLock
        /\ UNCHANGED <<mgRan, mgSvc, mgStarts>> /\ col \in {"sha256", "digest_origin"}
    BY <1>5 DEF MigAddColumn
  <2>3. /\ mgDb' \in MgDbs /\ mgDb'.ledger = mgDb.ledger
        /\ mgDb'.cols = mgDb.cols \cup {col} /\ mgDb'.shapes = mgDb.shapes
    <3> DEFINE cols == mgDb.cols \cup {col}
    <3>1. cols \in SUBSET {"sha256", "digest_origin"} /\ mgDb' = [mgDb EXCEPT !.cols = cols]
      BY <1>1, <2>2 DEF MgDbs
    <3> HIDE DEF cols, col
    <3>2. /\ mgDb' \in MgDbs /\ mgDb'.ledger = mgDb.ledger
          /\ mgDb'.cols = cols /\ mgDb'.shapes = mgDb.shapes
      BY <1>1, <3>1 DEF MgDbs
    <3> QED
      BY <3>2 DEF cols
  <2>4. DbEvolves
    BY <1>1, <2>3, FieldsEvolve
  <2>5. to \notin {"table", "create", "sha256", "digest_origin"} => "digest_origin" \in mgDb'.cols
    BY <2>2, <2>3
  <2>6. to \notin {"create", "dedup", "cases", "loop"}
    OBVIOUS
  <2> HIDE DEF to
  <2> QED
    BY <2>1, <2>2, <2>3, <2>4, <2>5, <2>6, GotoIsSound
<1>6. CASE MigCheckAuthority(m)
  <2>1. mgLock = m /\ "digest_origin" \in mgDb.cols
    BY <1>1, <1>6, ActiveHolds DEF MigCheckAuthority, MgActive, RunIsSound, ColumnIsThere
  <2>2. CASE Goto(m, "constraint") /\ UNCHANGED mgLock
    BY <1>1, <1>6, <2>1, <2>2, GotoIsSound, UnchangedEvolves DEF MigCheckAuthority, MgActive
  <2>3. CASE Fail(m, "authority")
    BY <1>6, <2>3, FailuresAreClean DEF MigCheckAuthority, MgWhys
  <2> QED
    BY <1>6, <2>2, <2>3 DEF MigCheckAuthority
<1>7. CASE MigConstraint(m)
  <2>1. mgLock = m /\ "digest_origin" \in mgDb.cols
    BY <1>1, <1>7, ActiveHolds DEF MigConstraint, MgActive, RunIsSound, ColumnIsThere
  <2>2. CASE mgDb' = [mgDb EXCEPT !.check = "canonical"] /\ Goto(m, "revoke") /\ UNCHANGED mgLock
    <3>1. /\ mgDb' \in MgDbs /\ mgDb'.ledger = mgDb.ledger
          /\ mgDb.cols = mgDb'.cols /\ mgDb'.shapes = mgDb.shapes
      BY <1>1, <2>2 DEF MgDbs
    <3>2. DbEvolves
      BY <1>1, <3>1, FieldsEvolve
    <3> QED
      BY <1>7, <2>1, <2>2, <3>1, <3>2, GotoIsSound DEF MigConstraint, MgActive
  <2>3. CASE Fail(m, "constraint") /\ UNCHANGED mgDb
    BY <1>7, <2>3, FailuresAreClean DEF MigConstraint, MgWhys
  <2> QED
    BY <1>7, <2>2, <2>3 DEF MigConstraint
<1>8. CASE MigRevoke(m)
  <2>1. mgLock = m /\ "digest_origin" \in mgDb.cols
    BY <1>1, <1>8, ActiveHolds DEF MigRevoke, MgActive, RunIsSound, ColumnIsThere
  <2>2. /\ mgDb' \in MgDbs /\ mgDb'.ledger = mgDb.ledger
        /\ mgDb.cols = mgDb'.cols /\ mgDb'.shapes = mgDb.shapes
    BY <1>1, <1>8 DEF MgDbs, MigRevoke
  <2>3. DbEvolves
    BY <1>1, <2>2, FieldsEvolve
  <2> QED
    BY <1>8, <2>1, <2>2, <2>3, GotoIsSound DEF MigRevoke, MgActive
<1> QED
  BY <1>2, <1>3, <1>4, <1>5, <1>6, <1>7, <1>8

LEMMA RepairedStays ==
  ASSUME DbEvolves, NEW shape, Repaired(shape)
  PROVE  Repaired(shape)'
BY DEF Repaired, DbEvolves

\* A file that aborts on the shape has run: it is the only one.
LEMMA AppliedIsRepaired ==
  ASSUME NEW shape \in {"sentAtNotNull", "duplicateCases"}, Applied(mgDb, shape)
  PROVE  Repaired(shape)
BY MgAssumption DEF Applied, Repaired

LEMMA ShapesShrink ==
  ASSUME mgDb \in MgDbs, NEW shape,
         \/ mgDb' = mgDb
         \/ mgDb' = [mgDb EXCEPT !.shapes = @ \ {shape}]
         \/ mgDb' = [mgDb EXCEPT !.shapes = @ \ {shape}, !.wsColumn = TRUE]
  PROVE  /\ DbEvolves /\ mgDb'.ledger = mgDb.ledger /\ mgDb'.cols = mgDb.cols
         /\ mgDb' # mgDb => shape \notin mgDb'.shapes
<1> DEFINE rest == mgDb.shapes \ {shape}
<1>1. rest \in SUBSET MgShapes /\ rest \subseteq mgDb.shapes /\ shape \notin rest
  BY DEF MgDbs
<1>2. \/ mgDb' = mgDb
      \/ mgDb' = [mgDb EXCEPT !.shapes = rest]
      \/ mgDb' = [mgDb EXCEPT !.shapes = rest, !.wsColumn = TRUE]
  OBVIOUS
<1> HIDE DEF rest
<1>3. /\ mgDb' \in MgDbs /\ mgDb'.ledger = mgDb.ledger /\ mgDb'.cols = mgDb.cols
      /\ mgDb' = mgDb \/ mgDb'.shapes = rest
  BY <1>1, <1>2 DEF MgDbs
<1> QED
  BY <1>1, <1>3, FieldsEvolve

\* The repairs: past each one, no file of the loop meets its shape.
LEMMA PreflightsAreSound ==
  ASSUME MgIndInv, NEW m \in Migrators,
         MigPreflightSentAt(m) \/ MigPreflightDedup(m) \/ MigPreflightCases(m)
  PROVE  MgIndInv' /\ MigKeepsProvenance
<1>1. /\ mgDb \in MgDbs /\ mgLock = m /\ mgM[m].pc \in MgActive
      /\ "digest_origin" \in mgDb.cols /\ PreflightsHold(m)
  BY ActiveHolds DEF MigPreflightSentAt, MigPreflightDedup, MigPreflightCases, MgActive,
                     MgIndInv, RunIsSound, ColumnIsThere
<1>2. CASE MigPreflightSentAt(m)
  <2> DEFINE shape == "sentAtNotNull"
             early == ~StateExists(mgDb)
             r == [mgM[m] EXCEPT !.pc = "dedup", !.early = early]
  <2>1. /\ \/ mgDb' = mgDb /\ (early \/ Applied(mgDb, shape))
           \/ mgDb' = [mgDb EXCEPT !.shapes = @ \ {shape}]
        /\ mgM' = [mgM EXCEPT ![m].pc = "dedup", ![m].early = early]
        /\ UNCHANGED <<mgRan, mgLock, mgSvc, mgStarts>> /\ mgM[m].pc = "sent_at"
    BY <1>2 DEF MigPreflightSentAt
  <2>2. /\ DbEvolves /\ mgDb'.ledger = mgDb.ledger /\ mgDb'.cols = mgDb.cols
        /\ mgDb' # mgDb => shape \notin mgDb'.shapes
    BY <1>1, <2>1, ShapesShrink
  <2>3. early \/ Repaired(shape)'
    <3>1. CASE mgDb' = mgDb /\ Applied(mgDb, shape)
      BY <2>2, <3>1, AppliedIsRepaired, RepairedStays
    <3>2. CASE mgDb' = [mgDb EXCEPT !.shapes = @ \ {shape}]
      BY <1>1, <3>2 DEF Repaired, MgDbs
    <3> QED
      BY <2>1, <3>1, <3>2
  <2>4. /\ r \in MgRuns /\ mgM' = [mgM EXCEPT ![m] = r] /\ r.pc = "dedup" /\ r.early = early
        /\ r.why = mgM[m].why /\ r.dir = mgM[m].dir /\ r.next = mgM[m].next
    <3>1. mgM \in [Migrators -> MgRuns] /\ mgM[m] \in MgRuns /\ early \in BOOLEAN
      BY DEF MgIndInv, MgTyped, StateExists, Has
    <3> HIDE DEF early
    <3> QED
      BY <2>1, <3>1 DEF MgRuns, MgActive
  <2> HIDE DEF r, early
  <2> QED
    BY <1>1, <2>1, <2>2, <2>3, <2>4, StatementIsSound DEF MgActive
<1>3. CASE MigPreflightDedup(m)
  <2> DEFINE shape == "badWorkspace"
  <2>1. CASE "badSubject" \in mgDb.shapes
    BY <1>3, <2>1, FailuresAreClean DEF MigPreflightDedup, MgWhys
  <2>2. CASE "badSubject" \notin mgDb.shapes
    <3>1. /\ \/ mgDb' = mgDb /\ shape \notin mgDb.shapes
             \/ mgDb' = [mgDb EXCEPT !.shapes = @ \ {shape}, !.wsColumn = TRUE]
          /\ Goto(m, "cases") /\ UNCHANGED <<mgRan, mgLock, mgSvc, mgStarts>>
      BY <1>3, <2>2 DEF MigPreflightDedup
    <3>2. /\ DbEvolves /\ mgDb'.ledger = mgDb.ledger /\ mgDb'.cols = mgDb.cols
          /\ mgDb' # mgDb => shape \notin mgDb'.shapes
      BY <1>1, <3>1, ShapesShrink
    <3>3. shape \notin mgDb'.shapes /\ "badSubject" \notin mgDb'.shapes
      <4>1. "badSubject" \notin mgDb'.shapes
        BY <2>2, <3>2 DEF DbEvolves
      <4>2. CASE mgDb' = [mgDb EXCEPT !.shapes = @ \ {shape}, !.wsColumn = TRUE]
        BY <1>1, <4>1, <4>2 DEF MgDbs
      <4> QED
        BY <3>1, <4>1, <4>2
    <3>4. Repaired(shape)' /\ Repaired("badSubject")'
      BY <3>3 DEF Repaired
    <3>5. mgM[m].early \/ Repaired("sentAtNotNull")'
      BY <1>1, <1>3, <3>2, RepairedStays DEF PreflightsHold, MigPreflightDedup
    <3> QED
      BY <1>1, <3>1, <3>2, <3>4, <3>5, GotoIsSound DEF MgActive
  <2> QED
    BY <2>1, <2>2
<1>4. CASE MigPreflightCases(m)
  <2> DEFINE shape == "duplicateCases"
  <2>1. CASE Fail(m, "rekey") /\ UNCHANGED mgDb
    BY <1>4, <2>1, FailuresAreClean DEF MigPreflightCases, MgWhys
  <2>2. CASE /\ mgDb' = IF Applied(mgDb, shape) THEN mgDb
                        ELSE [mgDb EXCEPT !.shapes = @ \ {shape}]
             /\ Goto(m, "loop") /\ UNCHANGED mgLock
    <3>1. /\ (mgDb' = mgDb /\ Applied(mgDb, shape)) \/ mgDb' = [mgDb EXCEPT !.shapes = @ \ {shape}]
          /\ Goto(m, "loop") /\ UNCHANGED <<mgRan, mgLock, mgSvc, mgStarts>>
      BY <1>4, <2>2 DEF MigPreflightCases
    <3>2. /\ DbEvolves /\ mgDb'.ledger = mgDb.ledger /\ mgDb'.cols = mgDb.cols
      BY <1>1, <3>1, ShapesShrink
    <3>3. Repaired(shape)'
      <4>1. CASE mgDb' = mgDb /\ Applied(mgDb, shape)
        BY <3>2, <4>1, AppliedIsRepaired, RepairedStays
      <4>2. CASE mgDb' = [mgDb EXCEPT !.shapes = @ \ {shape}]
        BY <1>1, <4>2 DEF Repaired, MgDbs
      <4> QED
        BY <3>1, <4>1, <4>2
    <3>4. /\ mgM[m].early \/ Repaired("sentAtNotNull")'
          /\ Repaired("badWorkspace")' /\ Repaired("badSubject")'
      BY <1>1, <1>4, <3>2, RepairedStays DEF PreflightsHold, MigPreflightCases
    <3> QED
      BY <1>1, <3>1, <3>2, <3>3, <3>4, GotoIsSound DEF MgActive
  <2> QED
    BY <1>4, <2>1, <2>2 DEF MigPreflightCases
<1> QED
  BY <1>2, <1>3, <1>4

-----------------------------------------------------------------------------
(* The loop over the bundle.                                               *)

\* Where a run in the loop stands.
LEMMA LoopStands ==
  ASSUME MgIndInv, NEW m \in Migrators, mgM[m].pc \in {"loop", "file"}
  PROVE  /\ MgTyped /\ mgM[m] \in MgRuns /\ mgLock = m /\ mgDb \in MgDbs
         /\ "digest_origin" \in mgDb.cols
         /\ mgM[m].early \/ Repaired("sentAtNotNull")
         /\ \A shape \in MgShapes \ {"sentAtNotNull", "collidingAlerts"} : Repaired(shape)
         /\ mgM[m].why = "" /\ PassedIsRecorded(m)
<1>1. RunIsSound(m) /\ MgTyped /\ mgM[m].pc \in MgActive
  BY DEF MgIndInv, MgActive
<1>2. /\ mgM[m].early \/ Repaired("sentAtNotNull")
      /\ Repaired("badWorkspace") /\ Repaired("badSubject") /\ Repaired("duplicateCases")
  BY <1>1 DEF RunIsSound, PreflightsHold
<1>3. \A shape \in MgShapes \ {"sentAtNotNull", "collidingAlerts"} : Repaired(shape)
  BY <1>2 DEF MgShapes
<1>4. /\ mgLock = m /\ "digest_origin" \in mgDb.cols
      /\ mgM[m].why = "" /\ PassedIsRecorded(m)
  BY <1>1 DEF RunIsSound, LockIsHeld, ColumnIsThere, ReasonIsOfAFailure
<1> QED
  BY <1>1, <1>2, <1>3, <1>4 DEF MgTyped

\* At a file, the row the run has read is the row that is there.
LEMMA FileStands ==
  ASSUME MgIndInv, NEW m \in Migrators, mgM[m].pc = "file"
  PROVE  /\ Left(m) # {} /\ mgM[m].seen = mgDb.ledger[Current(m)]
         /\ Current(m) \in MgNames /\ Current(m) \in Nat /\ FileDigest(m) \in MgDigests
         /\ Current(m) \in DOMAIN mgM[m].dir.files /\ \A k \in Left(m) : Current(m) <= k
<1>1. RunIsSound(m) /\ MgTyped
  BY DEF MgIndInv
<1>2. Left(m) # {} /\ mgM[m].seen = mgDb.ledger[Current(m)]
  BY <1>1 DEF RunIsSound, LooksAreFresh
<1> QED
  BY <1>1, <1>2, CurrentIsLeft

\* A run that stays in the loop, its database evolved.
LEMMA LoopGoesOn ==
  ASSUME MgIndInv, NEW m \in Migrators, mgM[m].pc \in {"loop", "file"},
         NEW r \in MgRuns, mgM' = [mgM EXCEPT ![m] = r], r.why = mgM[m].why,
         r.early = mgM[m].early, r.pc \in {"loop", "file"}, LooksAreFresh(m)', PassedIsRecorded(m)',
         DbEvolves, LedgerAgrees(mgDb, mgRan)', mgRan' \in [MgNames -> Seq(MgDigests)],
         UNCHANGED <<mgLock, mgSvc, mgStarts>>
  PROVE  MgIndInv' /\ MigKeepsProvenance
<1>1. mgM'[m] = r
  BY DEF MgIndInv, MgTyped
<1>2. RunIsSound(m)'
  <2>1. LockIsHeld(m)' /\ mgM'[m].why = ""
    BY <1>1, LoopStands DEF LockIsHeld
  <2>2. ColumnIsThere(m)'
    BY LoopStands DEF ColumnIsThere, DbEvolves
  <2>3. PreflightsHold(m)'
    <3>1. /\ mgM[m].early \/ Repaired("sentAtNotNull")
          /\ Repaired("badWorkspace") /\ Repaired("badSubject") /\ Repaired("duplicateCases")
      BY LoopStands DEF MgShapes
    <3>2. /\ mgM[m].early \/ Repaired("sentAtNotNull")'
          /\ Repaired("badWorkspace")' /\ Repaired("badSubject")' /\ Repaired("duplicateCases")'
      BY <3>1, RepairedStays
    <3> QED
      BY <1>1, <3>2 DEF PreflightsHold
  <2> QED
    BY <2>1, <2>2, <2>3 DEF RunIsSound, ReasonIsOfAFailure
<1>3. mgM[m].pc \in MgActive /\ mgStarts' \in 0..MgMaxStarts
  BY DEF MgActive, MgIndInv, MgTyped
<1> QED
  BY <1>2, <1>3, OneRunMoves

LEMMA NextFileIsARun ==
  ASSUME MgIndInv, NEW m \in Migrators, mgM[m].pc = "file", NextFile(m),
         DbEvolves, Has(mgDb'.ledger[Current(m)])
  PROVE  /\ \E r \in MgRuns : /\ mgM' = [mgM EXCEPT ![m] = r] /\ r.why = mgM[m].why
                              /\ r.pc = "loop" /\ r.early = mgM[m].early
         /\ LooksAreFresh(m)' /\ PassedIsRecorded(m)'
<1> DEFINE n == Current(m)
           r == [mgM[m] EXCEPT !.pc = "loop", !.next = n, !.seen = NoRow]
<1>1. mgM \in [Migrators -> MgRuns] /\ mgM[m] \in MgRuns /\ n \in Nat /\ NoRow \in MgLedgerRows
  BY FileStands DEF MgIndInv, MgTyped, MgLedgerRows
<1>2. mgM' = [mgM EXCEPT ![m] = r]
  <2>1. mgM' = [mgM EXCEPT ![m].pc = "loop", ![m].next = n, ![m].seen = NoRow]
    BY DEF NextFile
  <2> HIDE DEF n
  <2> QED
    BY <1>1, <2>1
<1> HIDE DEF n
<1>3. /\ r \in MgRuns /\ r.why = mgM[m].why /\ r.pc = "loop" /\ r.early = mgM[m].early
      /\ r.dir = mgM[m].dir /\ r.next = n
  BY <1>1 DEF MgRuns, MgActive
<1> HIDE DEF r
<1>4. mgM'[m] = r
  BY <1>1, <1>2
<1>5. LooksAreFresh(m)'
  BY <1>3, <1>4 DEF LooksAreFresh
<1>6. PassedIsRecorded(m)'
  <2>1. SUFFICES ASSUME NEW k \in DOMAIN mgM[m].dir.files, k <= n PROVE Has(mgDb'.ledger[k])
    BY <1>3, <1>4 DEF PassedIsRecorded, Has
  <2>2. k \in MgNames /\ k \in Nat /\ mgM[m].next \in Nat
    BY <1>1, FilesAreNamed DEF MgRuns
  <2>3. CASE k <= mgM[m].next
    <3>1. Has(mgDb.ledger[k])
      BY <2>1, <2>3, LoopStands DEF PassedIsRecorded
    <3> QED
      BY <2>2, <3>1, RowsStay DEF Has
  <2>4. CASE k > mgM[m].next
    <3>1. k \in Left(m) /\ n <= k
      BY <2>1, <2>4, FileStands DEF Left, n
    <3>2. k = n
      BY <1>1, <2>1, <2>2, <3>1
    <3> QED
      BY <3>2 DEF n
  <2> QED
    BY <2>2, <2>3, <2>4
<1> QED
  BY <1>2, <1>3, <1>5, <1>6

\* Reading a file's row, and passing over a file whose bytes it names.
LEMMA ReadingIsSound ==
  ASSUME MgIndInv, NEW m \in Migrators, MigRead(m) \/ MigCompare(m)
  PROVE  MgIndInv' /\ MigKeepsProvenance
<1>1. /\ DbEvolves /\ LedgerAgrees(mgDb, mgRan)' /\ mgRan' \in [MgNames -> Seq(MgDigests)]
  BY UnchangedEvolves, LedgerStaysTrue DEF MigRead, MigCompare, MgIndInv, MgTyped
<1>2. CASE MigRead(m)
  <2> DEFINE row == mgDb.ledger[Current(m)]
             r == [mgM[m] EXCEPT !.pc = "file", !.seen = row]
  <2>1. MgTyped /\ mgM[m] \in MgRuns /\ Left(m) # {} /\ mgM[m].pc = "loop"
    BY <1>2, LoopStands DEF MigRead
  <2>2. row \in MgLedgerRows
    BY <2>1, CurrentIsLeft DEF MgTyped, MgDbs
  <2>3. mgM' = [mgM EXCEPT ![m] = r]
    BY <1>2, <2>1 DEF MigRead, MgTyped
  <2>4. /\ r \in MgRuns /\ r.pc = "file" /\ r.seen = row /\ r.why = mgM[m].why
        /\ r.dir = mgM[m].dir /\ r.next = mgM[m].next /\ r.early = mgM[m].early
    <3> HIDE DEF row
    <3> QED
      BY <2>1, <2>2 DEF MgRuns, MgActive
  <2>5. mgM'[m] = r
    BY <2>1, <2>3, <2>4 DEF MgTyped
  <2>6. LooksAreFresh(m)'
    <3> HIDE DEF r
    <3>1. Left(m)' = Left(m)
      BY <2>4, <2>5 DEF Left
    <3>2. Current(m)' = Current(m) /\ mgDb' = mgDb
      BY <1>2, <3>1 DEF Current, MigRead
    <3> QED
      BY <2>1, <2>4, <2>5, <3>1, <3>2 DEF LooksAreFresh
  <2> HIDE DEF r
  <2>7. PassedIsRecorded(m)'
    BY <1>1, <2>1, <2>4, <2>5, LoopStands, PassedStays DEF MgRuns
  <2> QED
    BY <1>1, <1>2, <2>1, <2>3, <2>4, <2>6, <2>7, LoopGoesOn DEF MigRead
<1>3. CASE MigCompare(m)
  <2>1. CASE NextFile(m) /\ UNCHANGED mgLock
    <3>1. Has(mgDb'.ledger[Current(m)])
      BY <1>3, FileStands DEF MigCompare, Has
    <3> QED
      BY <1>1, <1>3, <2>1, <3>1, NextFileIsARun, LoopGoesOn DEF MigCompare
  <2>2. CASE Fail(m, "edited")
    BY <1>3, <2>2, FailuresAreClean DEF MigCompare, MgWhys
  <2> QED
    BY <1>3, <2>1, <2>2 DEF MigCompare
<1> QED
  BY <1>2, <1>3

LEMMA RowsHaveOrigins ==
  ASSUME NEW sha \in MgDigests, NEW base \in BOOLEAN, NEW origin \in LegalOrigins
  PROVE  /\ Row(sha, base, origin) \in MgLedgerRows /\ Has(Row(sha, base, origin))
         /\ Row(sha, base, origin).sha = sha /\ Row(sha, base, origin).base = base
         /\ Row(sha, base, origin).origin = origin
BY DEF Row, Has, NoRow, MgLedgerRows, LegalOrigins

\* The one way a row is written: where none was, or over one without provenance.
LEMMA RowIsWritten ==
  ASSUME MgIndInv, NEW m \in Migrators, mgM[m].pc = "file",
         NEW row \in MgLedgerRows, Has(row), row.origin \in LegalOrigins, SetRow(Current(m), row),
         LET old == mgDb.ledger[Current(m)]
         IN \/ ~Has(old)
            \/ /\ old.origin = NoDigest /\ row.origin = "baseline" /\ row.base
               /\ old.sha \in {NoDigest, row.sha}
  PROVE  /\ DbEvolves /\ mgDb'.cols = mgDb.cols
         /\ mgDb'.ledger = [mgDb.ledger EXCEPT ![Current(m)] = row]
<1> DEFINE n == Current(m)
           ledger == [mgDb.ledger EXCEPT ![n] = row]
<1>1. mgDb \in MgDbs /\ mgDb.ledger \in [MgNames -> MgLedgerRows] /\ n \in MgNames
  BY LoopStands, FileStands DEF MgDbs
<1>2. mgDb' = [mgDb EXCEPT !.ledger = ledger]
  BY <1>1 DEF SetRow, MgDbs
<1>3. ledger \in [MgNames -> MgLedgerRows]
  BY <1>1
<1>4. /\ mgDb' \in MgDbs /\ mgDb'.ledger = ledger /\ mgDb'.cols = mgDb.cols
      /\ mgDb'.shapes = mgDb.shapes
  <2> HIDE DEF ledger
  <2> QED
    BY <1>1, <1>2, <1>3 DEF MgDbs
<1>5. \A k \in MgNames : ledger[k] = IF k = n THEN row ELSE mgDb.ledger[k]
  BY <1>1
<1>6. MigKeepsProvenance
  <2> HIDE DEF ledger, n
  <2> QED
    BY <1>4, <1>5 DEF MigKeepsProvenance, n
<1> QED
  <2> HIDE DEF ledger, n
  <2>1. DbEvolves
    BY <1>1, <1>4, <1>5, <1>6 DEF DbEvolves, n
  <2> QED
    BY <1>4, <2>1 DEF ledger, n

\* --accept-baseline, of a digest without provenance or of a row without digest.
LEMMA BaselinesAreSound ==
  ASSUME MgIndInv, NEW m \in Migrators, MigRedeclare(m) \/ MigBaseline(m)
  PROVE  MgIndInv' /\ MigKeepsProvenance
<1> DEFINE n == Current(m)
           old == mgDb.ledger[n]
<1>1. mgM[m].pc = "file" /\ mgRan' = mgRan /\ UNCHANGED <<mgSvc, mgStarts>>
  BY DEF MigRedeclare, MigBaseline
<1>2. /\ mgM[m].seen = old /\ n \in MgNames /\ FileDigest(m) \in MgDigests /\ mgDb \in MgDbs
      /\ "digest_origin" \in mgDb.cols
  BY <1>1, FileStands, LoopStands
<1>3. old \in MgLedgerRows /\ LedgerAgrees(mgDb, mgRan) /\ mgRan \in [MgNames -> Seq(MgDigests)]
  BY <1>2 DEF MgDbs, MgIndInv, MgTyped
<1>4. Has(old) => old.sha \in MgDigests \cup {NoDigest}
  BY <1>3 DEF MgLedgerRows, Has
<1>5. ASSUME NEW sha \in MgDigests, SetRow(n, Row(sha, TRUE, "baseline")), NextFile(m),
             UNCHANGED mgLock, Has(old), old.origin = NoDigest, old.sha \in {NoDigest, sha}
      PROVE  MgIndInv' /\ MigKeepsProvenance
  <2> DEFINE row == Row(sha, TRUE, "baseline")
  <2>1. /\ row \in MgLedgerRows /\ Has(row) /\ row.sha = sha /\ row.base = TRUE
        /\ row.origin = "baseline" /\ row.origin \in LegalOrigins
    BY RowsHaveOrigins DEF LegalOrigins
  <2>2. SetRow(n, row)
    BY <1>5
  <2> HIDE DEF row
  <2>3. DbEvolves /\ mgDb'.cols = mgDb.cols /\ mgDb'.ledger = [mgDb.ledger EXCEPT ![n] = row]
    BY <1>1, <1>5, <2>1, <2>2, RowIsWritten
  <2>4. \A k \in MgNames : mgDb'.ledger[k] = IF k = n THEN row ELSE mgDb.ledger[k]
    BY <1>2, <2>3 DEF MgDbs
  <2>5. sha # NoDigest
    BY MgAssumption
  <2>6. LedgerAgrees(mgDb, mgRan)'
    <3> HIDE DEF n
    <3>1. SUFFICES ASSUME NEW k \in MgNames
                   PROVE  LET r == mgDb'.ledger[k]
                          IN /\ Len(mgRan[k]) <= 1
                             /\ ~Has(r) => mgRan[k] = <<>>
                             /\ Has(r) /\ r.origin # NoDigest
                                  => r.sha # NoDigest /\ "digest_origin" \in mgDb'.cols
                             /\ r.origin = "applied" => mgRan[k] = <<r.sha>>
      BY <1>1 DEF LedgerAgrees, Has
    <3>2. CASE k = n
      BY <1>2, <1>3, <2>1, <2>3, <2>4, <2>5, <3>2 DEF LedgerAgrees
    <3>3. CASE k # n
      BY <1>3, <2>3, <2>4, <3>3 DEF LedgerAgrees
    <3> QED
      BY <3>2, <3>3
  <2> QED
    <3>1. Has(mgDb'.ledger[n])
      BY <1>2, <2>1, <2>4
    <3> QED
      BY <1>1, <1>3, <1>5, <2>3, <2>6, <3>1, NextFileIsARun, LoopGoesOn
<1>6. CASE MigRedeclare(m)
  <2>1. Has(old) /\ old.sha # NoDigest /\ old.origin = NoDigest
    BY <1>2, <1>6 DEF MigRedeclare, Unowned
  <2>2. CASE Fail(m, "provenance") /\ UNCHANGED mgDb
    BY <1>1, <2>2, FailuresAreClean DEF MgWhys
  <2>3. CASE /\ SetRow(n, Row(mgM[m].seen.sha, TRUE, "baseline"))
             /\ NextFile(m) /\ UNCHANGED mgLock
    BY <1>2, <1>4, <1>5, <2>1, <2>3
  <2> QED
    BY <1>6, <2>2, <2>3 DEF MigRedeclare
<1>7. CASE MigBaseline(m)
  <2>1. Has(old) /\ old.sha = NoDigest
    BY <1>2, <1>7 DEF MigBaseline, Unhashed
  <2>2. old.origin = NoDigest
    BY <1>2, <1>3, <2>1 DEF LedgerAgrees
  <2>3. CASE Fail(m, "unhashed") /\ UNCHANGED mgDb
    BY <1>1, <2>3, FailuresAreClean DEF MgWhys
  <2>4. CASE /\ SetRow(n, Row(FileDigest(m), TRUE, "baseline"))
             /\ NextFile(m) /\ UNCHANGED mgLock
    BY <1>2, <1>5, <2>1, <2>2, <2>4
  <2> QED
    BY <1>7, <2>3, <2>4 DEF MigBaseline
<1> QED
  BY <1>6, <1>7

\* One transaction executes a file and records it: the name was not in the ledger
\* and is still not, so nothing ran before, and the data is repaired.
LEMMA ApplyIsSound ==
  ASSUME MgIndInv, NEW m \in Migrators, MigApply(m)
  PROVE  MgIndInv' /\ MigKeepsProvenance
<1> DEFINE n == Current(m)
           d == FileDigest(m)
           row == Row(d, FALSE, "applied")
<1>1. mgM[m].pc = "file" /\ UNCHANGED <<mgSvc, mgStarts>>
  BY DEF MigApply
<1>2. /\ mgM[m].seen = mgDb.ledger[n] /\ n \in MgNames /\ d \in MgDigests /\ mgDb \in MgDbs
      /\ "digest_origin" \in mgDb.cols /\ PassedIsRecorded(m)
      /\ mgM[m].early \/ Repaired("sentAtNotNull")
      /\ \A shape \in MgShapes \ {"sentAtNotNull", "collidingAlerts"} : Repaired(shape)
      /\ n \in DOMAIN mgM[m].dir.files /\ \A k \in Left(m) : n <= k
  BY <1>1, FileStands, LoopStands
<1>3. ~Has(mgDb.ledger[n]) /\ LedgerAgrees(mgDb, mgRan) /\ mgRan \in [MgNames -> Seq(MgDigests)]
  BY <1>2 DEF MigApply, MgIndInv, MgTyped
<1>4. CASE mgDb.shapes \cap MgAbortsOn[n] # {}
  <2>1. PICK shape \in mgDb.shapes : shape \in MgAbortsOn[n]
    BY <1>4
  <2>2. shape = "sentAtNotNull" /\ mgM[m].early
    <3>1. shape \in MgShapes \ {"collidingAlerts"}
      BY <1>2, <2>1, MgAssumption
    <3>2. ~Repaired(shape)
      BY <1>2, <1>3, <2>1 DEF Repaired
    <3> QED
      BY <1>2, <3>1, <3>2
  <2>3. StateExists(mgDb)
    <3>1. mgM[m].dir \in MgDirs /\ mgM[m].next \in Nat
      BY <1>2, LoopStands, <1>1 DEF MgRuns
    <3>2. MgAddsState \in DOMAIN mgM[m].dir.files /\ MgAddsState < n
      BY <1>2, <2>1, <2>2, <3>1, MgAssumption
    <3>3. MgAddsState \in Nat /\ n \in Nat
      BY <1>1, FileStands, MgAssumption
    <3>4. MgAddsState \notin Left(m)
      BY <1>2, <3>2, <3>3
    <3>5. MgAddsState <= mgM[m].next
      BY <3>1, <3>2, <3>3, <3>4 DEF Left
    <3> QED
      BY <1>2, <3>2, <3>5 DEF PassedIsRecorded, StateExists
  <2>4. Fail(m, "sql") /\ UNCHANGED <<mgDb, mgRan>>
    BY <1>4 DEF MigApply
  <2> QED
    BY <1>1, <2>2, <2>3, <2>4, FailuresAreClean DEF MgWhys
<1>5. CASE mgDb.shapes \cap MgAbortsOn[n] = {}
  <2>1. /\ SetRow(n, row) /\ NextFile(m) /\ UNCHANGED mgLock
        /\ mgRan' = [mgRan EXCEPT ![n] = Append(@, d)]
    BY <1>3, <1>5 DEF MigApply
  <2>2. /\ row \in MgLedgerRows /\ Has(row) /\ row.sha = d
        /\ row.origin = "applied" /\ row.origin \in LegalOrigins /\ d # NoDigest
    BY <1>2, RowsHaveOrigins, MgAssumption DEF LegalOrigins
  <2>3. mgRan[n] = <<>> /\ Append(mgRan[n], d) = <<d>> /\ <<d>> \in Seq(MgDigests) /\ Len(<<d>>) = 1
    <3>1. mgRan[n] = <<>>
      BY <1>2, <1>3 DEF LedgerAgrees
    <3> QED
      BY <1>2, <3>1
  <2>4. /\ mgRan' \in [MgNames -> Seq(MgDigests)]
        /\ \A k \in MgNames : mgRan'[k] = IF k = n THEN <<d>> ELSE mgRan[k]
    <3> HIDE DEF n, d
    <3> QED
      BY <1>2, <1>3, <2>1, <2>3
  <2> HIDE DEF row
  <2>5. DbEvolves /\ mgDb'.cols = mgDb.cols /\ mgDb'.ledger = [mgDb.ledger EXCEPT ![n] = row]
    BY <1>1, <1>3, <2>1, <2>2, RowIsWritten
  <2>6. \A k \in MgNames : mgDb'.ledger[k] = IF k = n THEN row ELSE mgDb.ledger[k]
    BY <1>2, <2>5 DEF MgDbs
  <2>7. LedgerAgrees(mgDb, mgRan)'
    <3> HIDE DEF n, d
    <3>1. SUFFICES ASSUME NEW k \in MgNames
                   PROVE  LET r == mgDb'.ledger[k]
                          IN /\ Len(mgRan'[k]) <= 1
                             /\ ~Has(r) => mgRan'[k] = <<>>
                             /\ Has(r) /\ r.origin # NoDigest
                                  => r.sha # NoDigest /\ "digest_origin" \in mgDb'.cols
                             /\ r.origin = "applied" => mgRan'[k] = <<r.sha>>
      BY DEF LedgerAgrees, Has
    <3>2. CASE k = n
      <4>1. mgDb'.ledger[k] = row /\ mgRan'[k] = <<d>> /\ "digest_origin" \in mgDb'.cols
        BY <1>2, <2>4, <2>5, <2>6, <3>2
      <4>2. Len(mgRan'[k]) <= 1
        BY <2>3, <4>1
      <4>3. mgRan'[k] = <<row.sha>>
        BY <2>2, <4>1
      <4> QED
        BY <2>2, <4>1, <4>2, <4>3
    <3>3. CASE k # n
      BY <1>3, <2>4, <2>5, <2>6, <3>3 DEF LedgerAgrees
    <3> QED
      BY <3>2, <3>3
  <2>8. Has(mgDb'.ledger[n])
    BY <1>2, <2>2, <2>6
  <2> QED
    BY <1>1, <2>1, <2>4, <2>5, <2>7, <2>8, NextFileIsARun, LoopGoesOn
<1> QED
  BY <1>4, <1>5

\* A run begins, ends, or dies anywhere.
LEMMA RunsComeAndGo ==
  ASSUME MgIndInv, NEW m \in Migrators, MigStart(m) \/ MigDone(m) \/ MigDies(m)
  PROVE  MgIndInv' /\ MigKeepsProvenance
<1>1. MgTyped /\ mgM \in [Migrators -> MgRuns]
  BY DEF MgIndInv, MgTyped
<1>2. ASSUME NEW r \in MgRuns, mgM' = [mgM EXCEPT ![m] = r],
             r.pc \in {"idle", "lock", "done", "failed"}, r.dir \in MgDirs, r.next = 0,
             r.why \notin {"duplicate", "sql"}, r.pc # "failed" => r.why = "",
             UNCHANGED <<mgDb, mgRan, mgSvc>>, mgStarts' \in 0..MgMaxStarts,
             mgLock' = mgLock \/ (mgLock = m /\ mgLock' = Nobody)
      PROVE  MgIndInv' /\ MigKeepsProvenance
  <2>1. mgM'[m] = r
    BY <1>1, <1>2
  <2>2. RunIsSound(m)'
    BY <1>2, <2>1, EndedRunIsSound DEF ReasonIsOfAFailure
  <2>3. /\ DbEvolves /\ LedgerAgrees(mgDb, mgRan)' /\ mgRan' \in [MgNames -> Seq(MgDigests)]
    BY <1>2, UnchangedEvolves, LedgerStaysTrue DEF MgIndInv, MgTyped
  <2> QED
    BY <1>2, <2>2, <2>3, OneRunMoves
<1>3. CASE MigStart(m)
  <2>1. PICK launch \in {{}} \cup {{d} : d \in MgDirs}, accept \in BOOLEAN :
          LET dir == ResolveBundle(launch)
          IN mgM' = [mgM EXCEPT ![m] =
                       IF BundleValid(dir)
                       THEN [IdleMigrator EXCEPT !.pc = "lock", !.dir = dir, !.accept = accept]
                       ELSE [IdleMigrator EXCEPT !.pc = "failed", !.why = "bundle"]]
    BY <1>3 DEF MigStart
  <2> DEFINE dir == ResolveBundle(launch)
             ok == [IdleMigrator EXCEPT !.pc = "lock", !.dir = dir, !.accept = accept]
             bad == [IdleMigrator EXCEPT !.pc = "failed", !.why = "bundle"]
  <2>2. dir \in MgDirs
    BY <2>1, MgAssumption DEF ResolveBundle
  <2>3. mgStarts' \in 0..MgMaxStarts
    <3>1. MgMaxStarts \in Nat /\ mgStarts \in 0..MgMaxStarts
      BY <1>1, MgAssumption DEF MgTyped
    <3>2. mgStarts < MgMaxStarts /\ mgStarts' = mgStarts + 1
      BY <1>3 DEF MigStart
    <3> QED
      BY <3>1, <3>2
  <2>4. mgM' = [mgM EXCEPT ![m] = ok] \/ mgM' = [mgM EXCEPT ![m] = bad]
    BY <2>1
  <2>5. ok \in MgRuns /\ ok.pc = "lock" /\ ok.why = "" /\ ok.dir \in MgDirs /\ ok.next = 0
    <3> HIDE DEF dir
    <3>1. IdleMigrator \in MgRuns /\ IdleMigrator.why = "" /\ IdleMigrator.next = 0
      BY MgAssumption DEF IdleMigrator, MgRuns, MgLedgerRows, MgWhys
    <3> QED
      BY <2>2, <3>1 DEF MgRuns
  <2>6. /\ bad \in MgRuns /\ bad.pc = "failed" /\ bad.why = "bundle"
        /\ bad.dir \in MgDirs /\ bad.next = 0
    BY MgAssumption DEF IdleMigrator, MgRuns, MgLedgerRows, MgWhys
  <2> HIDE DEF ok, bad
  <2>7. UNCHANGED <<mgDb, mgRan, mgLock, mgSvc>>
    BY <1>3 DEF MigStart
  <2> QED
    BY <1>2, <2>3, <2>4, <2>5, <2>6, <2>7
<1>4. CASE MigDone(m)
  <2> DEFINE r == [IdleMigrator EXCEPT !.pc = "done"]
  <2>1. mgM' = [mgM EXCEPT ![m] = r] /\ mgLock' = (IF mgLock = m THEN Nobody ELSE mgLock)
        /\ UNCHANGED <<mgDb, mgRan, mgSvc, mgStarts>>
    BY <1>4 DEF MigDone, MigHolds
  <2>2. r \in MgRuns /\ r.pc = "done" /\ r.why = "" /\ r.dir \in MgDirs /\ r.next = 0
    BY MgAssumption DEF IdleMigrator, MgRuns, MgLedgerRows, MgWhys
  <2> HIDE DEF r
  <2> QED
    BY <1>1, <1>2, <2>1, <2>2 DEF MgTyped
<1>5. CASE MigDies(m)
  BY <1>5, FailuresAreClean DEF MigDies, MgWhys
<1> QED
  BY <1>3, <1>4, <1>5

\* ensure_schema_current: what it reads once it may rely on, and what it lets
\* through has its schema.
LEMMA ServicesAreSound ==
  ASSUME MgIndInv, NEW s \in MgServices, SvcRead(s) \/ SvcDecide(s)
  PROVE  MgIndInv' /\ MigKeepsProvenance
<1>1. UNCHANGED <<mgDb, mgRan, mgLock, mgM, mgStarts>>
  BY DEF SvcRead, SvcDecide
<1>2. MigKeepsProvenance /\ LedgerAgrees(mgDb, mgRan)' /\ \A m \in Migrators : RunIsSound(m)'
  BY <1>1 DEF MigKeepsProvenance, MgIndInv, LedgerAgrees, RunIsSound, LockIsHeld, LooksAreFresh,
              Left, Current, ColumnIsThere, PreflightsHold, Repaired, PassedIsRecorded,
              ReasonIsOfAFailure, StateExists
<1>3. mgSvc \in [MgServices -> MgSvcs] /\ mgSvc[s] \in MgSvcs
  BY DEF MgIndInv, MgTyped
<1>4. ASSUME NEW v \in MgSvcs, mgSvc' = [mgSvc EXCEPT ![s] = v],
             v.pc = "rows" => \A n \in MgNames : Has(mgDb.ledger[n]) =>
               /\ mgDb.ledger[n].origin \in LegalOrigins \cup {NoDigest}
               /\ "sha256" \in v.cols /\ Unowned(mgDb.ledger[n]) => n \in v.loose,
             v.pc = "running" => \A n \in DOMAIN v.dir.files :
               /\ Has(mgDb.ledger[n]) /\ mgDb.ledger[n].sha = v.dir.files[n]
               /\ mgDb.ledger[n].origin \in LegalOrigins
      PROVE  MgIndInv'
  <2>1. mgSvc'[s] = v /\ \A t \in MgServices \ {s} : mgSvc'[t] = mgSvc[t]
    BY <1>3, <1>4
  <2>2. MgTyped'
    BY <1>1, <1>3, <1>4 DEF MgIndInv, MgTyped
  <2>3. ReadsAreSafe'
    <3>1. SUFFICES ASSUME NEW t \in MgServices, mgSvc'[t].pc = "rows",
                          NEW n \in MgNames, Has(mgDb.ledger[n])
                   PROVE  /\ mgDb.ledger[n].origin \in LegalOrigins \cup {NoDigest}
                          /\ "sha256" \in mgSvc'[t].cols /\ Unowned(mgDb.ledger[n])
                               => n \in mgSvc'[t].loose
      BY <1>1 DEF ReadsAreSafe, Has, Unowned
    <3>2. CASE t = s
      BY <1>4, <2>1, <3>1, <3>2
    <3>3. CASE t # s
      BY <2>1, <3>1, <3>3 DEF MgIndInv, ReadsAreSafe
    <3> QED
      BY <3>2, <3>3
  <2>4. SvcRunsOnItsSchema'
    <3>1. SUFFICES ASSUME NEW t \in MgServices, mgSvc'[t].pc = "running",
                          NEW n \in DOMAIN mgSvc'[t].dir.files
                   PROVE  /\ Has(mgDb.ledger[n]) /\ mgDb.ledger[n].sha = mgSvc'[t].dir.files[n]
                          /\ mgDb.ledger[n].origin \in LegalOrigins
      BY <1>1 DEF SvcRunsOnItsSchema, Has
    <3>2. CASE t = s
      BY <1>4, <2>1, <3>1, <3>2
    <3>3. CASE t # s
      BY <2>1, <3>1, <3>3 DEF MgIndInv, SvcRunsOnItsSchema
    <3> QED
      BY <3>2, <3>3
  <2> QED
    BY <1>2, <2>2, <2>3, <2>4 DEF MgIndInv
<1>5. CASE SvcRefuse(s)
  <2> DEFINE v == [OffService EXCEPT !.pc = "refused"]
  <2>1. mgSvc' = [mgSvc EXCEPT ![s] = v]
    BY <1>5 DEF SvcRefuse
  <2>2. v \in MgSvcs /\ v.pc = "refused"
    BY MgAssumption DEF OffService, MgSvcs
  <2> HIDE DEF v
  <2> QED
    BY <1>2, <1>4, <2>1, <2>2
<1>6. CASE SvcRead(s)
  <2>1. CASE ~SvcRefuse(s)
    <3> DEFINE loose == {n \in MgNames : "sha256" \in mgDb.cols /\ Unowned(mgDb.ledger[n])}
    <3>1. PICK dir \in MgDirs :
            /\ "digest_origin" \in mgDb.cols => ValuesLegal(mgDb)
            /\ mgSvc' = [mgSvc EXCEPT ![s] = [pc |-> "rows", dir |-> dir, cols |-> mgDb.cols,
                                              loose |-> loose]]
      BY <1>6, <2>1 DEF SvcRead
    <3> DEFINE v == [pc |-> "rows", dir |-> dir, cols |-> mgDb.cols, loose |-> loose]
    <3>2. mgDb.cols \in SUBSET {"sha256", "digest_origin"} /\ loose \in SUBSET MgNames
      BY DEF MgIndInv, MgTyped, MgDbs
    <3>3. ASSUME NEW n \in MgNames, Has(mgDb.ledger[n])
          PROVE  /\ mgDb.ledger[n].origin \in LegalOrigins \cup {NoDigest}
                 /\ "sha256" \in mgDb.cols /\ Unowned(mgDb.ledger[n]) => n \in loose
      BY <3>1, <3>3 DEF MgIndInv, LedgerAgrees, ValuesLegal
    <3> HIDE DEF loose
    <3>4. v \in MgSvcs /\ v.pc = "rows" /\ v.cols = mgDb.cols /\ v.loose = loose
      BY <3>2 DEF MgSvcs
    <3>5. mgSvc' = [mgSvc EXCEPT ![s] = v]
      BY <3>1
    <3> HIDE DEF v
    <3> QED
      BY <1>2, <1>4, <3>3, <3>4, <3>5
  <2> QED
    BY <1>5, <2>1
<1>7. CASE SvcDecide(s)
  <2>1. CASE ~SvcRefuse(s)
    <3> DEFINE v == [mgSvc[s] EXCEPT !.pc = "running"]
               files == mgSvc[s].dir.files
    <3>1. /\ mgSvc[s].pc = "rows" /\ mgSvc' = [mgSvc EXCEPT ![s] = v]
          /\ Pending(mgDb, mgSvc[s].dir) = {} /\ Mismatched(mgDb, mgSvc[s].dir) = {}
          /\ Unverifiable(mgDb, mgSvc[s].dir, mgSvc[s].cols) = {} /\ mgSvc[s].loose = {}
      BY <1>7, <2>1 DEF SvcDecide
    <3>2. ASSUME NEW n \in DOMAIN files
          PROVE  /\ Has(mgDb.ledger[n]) /\ mgDb.ledger[n].sha = files[n]
                 /\ mgDb.ledger[n].origin \in LegalOrigins
      <4>1. n \in MgNames
        <5>1. mgSvc[s].dir \in MgDirs
          BY <1>3 DEF MgSvcs
        <5> QED
          BY <3>2, <5>1, FilesAreNamed
      <4>2. Has(mgDb.ledger[n])
        BY <3>1, <3>2 DEF Pending
      <4>3. mgDb.ledger[n].sha # NoDigest /\ "sha256" \in mgSvc[s].cols
        BY <3>1, <3>2, <4>2 DEF Unverifiable
      <4>4. mgDb.ledger[n].sha = files[n]
        BY <3>1, <3>2, <4>2, <4>3 DEF Mismatched
      <4>5. mgDb.ledger[n].origin \in LegalOrigins
        BY <3>1, <4>1, <4>2, <4>3 DEF MgIndInv, ReadsAreSafe, Unowned
      <4> QED
        BY <4>2, <4>4, <4>5
    <3>3. v \in MgSvcs /\ v.pc = "running" /\ v.dir = mgSvc[s].dir
      BY <1>3 DEF MgSvcs
    <3> HIDE DEF v
    <3> QED
      BY <1>2, <1>4, <3>1, <3>2, <3>3
  <2> QED
    BY <1>5, <2>1
<1> QED
  BY <1>6, <1>7

LEMMA MgInitial == ASSUME MgInit PROVE MgIndInv
<1>1. MgTyped /\ LedgerAgrees(mgDb, mgRan)
  <2>1. mgDb \in MgDbs /\ mgRan \in [MgNames -> Seq(MgDigests)] /\ LedgerAgrees(mgDb, mgRan)
    BY MgAssumption DEF MgInit
  <2>2. IdleMigrator \in MgRuns /\ OffService \in MgSvcs
    BY MgAssumption DEF IdleMigrator, OffService, MgRuns, MgSvcs, MgLedgerRows, MgWhys
  <2>3. mgM \in [Migrators -> MgRuns] /\ mgSvc \in [MgServices -> MgSvcs]
    BY <2>2 DEF MgInit
  <2>4. mgLock \in Migrators \cup {Nobody} /\ mgStarts \in 0..MgMaxStarts
    BY MgAssumption DEF MgInit
  <2> QED
    BY <2>1, <2>3, <2>4 DEF MgTyped
<1>2. \A m \in Migrators : RunIsSound(m)
  <2>1. \A n \in DOMAIN MgEmbedded.files : ~(n <= 0)
    BY FilesAreNamed, MgAssumption
  <2>2. SUFFICES ASSUME NEW m \in Migrators PROVE RunIsSound(m)
    OBVIOUS
  <2>3. /\ mgM[m].pc = "idle" /\ mgM[m].why = "" /\ mgM[m].next = 0
        /\ mgM[m].dir = MgEmbedded
    BY DEF MgInit, IdleMigrator
  <2>4. PassedIsRecorded(m)
    BY <2>1, <2>3 DEF PassedIsRecorded
  <2> QED
    BY <2>3, <2>4 DEF RunIsSound, LockIsHeld, LooksAreFresh, ColumnIsThere,
                      PreflightsHold, MgActive, ReasonIsOfAFailure
<1>3. ReadsAreSafe /\ SvcRunsOnItsSchema
  BY DEF MgInit, OffService, ReadsAreSafe, SvcRunsOnItsSchema
<1> QED
  BY <1>1, <1>2, <1>3 DEF MgIndInv

LEMMA MgSteps ==
  ASSUME MgIndInv, [MgNext]_mgVars
  PROVE  MgIndInv' /\ MigKeepsProvenance
<1>1. CASE UNCHANGED mgVars
  <2>1. MgTyped' /\ LedgerAgrees(mgDb, mgRan)' /\ MigKeepsProvenance
    BY <1>1 DEF mgVars, MigKeepsProvenance, MgIndInv, MgTyped, LedgerAgrees
  <2>2. \A m \in Migrators : RunIsSound(m)'
    <3>1. mgDb' = mgDb /\ mgLock' = mgLock /\ mgM' = mgM /\ DbEvolves
      BY <1>1, UnchangedEvolves DEF mgVars, MgIndInv, MgTyped
    <3>2. \A m \in Migrators : RunIsSound(m) /\ mgM[m].dir \in MgDirs
      BY DEF MgIndInv, MgTyped, MgRuns
    <3> QED
      BY <3>1, <3>2, OtherRunsStaySound
  <2>3. ReadsAreSafe' /\ SvcRunsOnItsSchema'
    BY <1>1 DEF mgVars, MgIndInv, ReadsAreSafe, SvcRunsOnItsSchema, Unowned, Has
  <2> QED
    BY <2>1, <2>2, <2>3 DEF MgIndInv
<1>2. ASSUME NEW m \in Migrators, MigStart(m) \/ MigStep(m) \/ MigDies(m)
      PROVE  MgIndInv' /\ MigKeepsProvenance
  BY <1>2, RunsComeAndGo, SetupIsSound, PreflightsAreSound, ReadingIsSound, BaselinesAreSound,
     ApplyIsSound DEF MigStep
<1> QED
  BY <1>1, <1>2, ServicesAreSound DEF MgNext

LEMMA MgInductive == MgSpec => []MgIndInv
BY MgInitial, MgSteps, PTL DEF MgSpec

\* Upgrades succeed (db.rs): for any bundles, files and old databases that do not lie
\* about what was executed, and any number of migrators and services, no run fails
\* because of another one; none fails on data the preflight knows unless it began
\* before 1033, and then 1033 is in and no later run will; and a service that runs has
\* exactly its own schema.
THEOREM UpgradesSucceed == MgSpec => []MigUpgradesSucceed
<1>1. MgIndInv => MigUpgradesSucceed
  BY DEF MgIndInv, RunIsSound, MigUpgradesSucceed, MigNoRaceFailure, MigKnownLanesUpgrade
<1> QED
  BY <1>1, MgInductive, PTL

\* The ledger is true (db.rs): every step leaves it agreeing with what was executed,
\* nothing executed twice, and no provenance upgraded or digest changed.
THEOREM LedgerIsTrue == MgSpec => MigLedgerIsTrue
<1>1. ASSUME MgIndInv PROVE MgTypeOK /\ MigExactlyOnce /\ MigAppliedIsWhatRan
  <2>1. \A n \in MgNames : mgDb.ledger[n] \in MgLedgerRows /\ mgRan[n] \in Seq(MgDigests)
    BY <1>1 DEF MgIndInv, MgTyped, MgDbs
  <2>2. MgTypeOK
    BY <1>1, <2>1 DEF MgTypeOK, MgIndInv, MgTyped, MgLedgerRows, NoRow
  <2> QED
    BY <1>1, <2>2 DEF MgIndInv, LedgerAgrees, MigExactlyOnce, MigAppliedIsWhatRan
<1>2. ASSUME MgIndInv, [MgNext]_mgVars
      PROVE  [MgTypeOK' /\ MigExactlyOnce' /\ MigAppliedIsWhatRan' /\ MigKeepsProvenance]_mgVars
  <2>1. MgIndInv' /\ MigKeepsProvenance
    BY <1>2, MgSteps
  <2>2. MgTypeOK' /\ MigExactlyOnce' /\ MigAppliedIsWhatRan'
    BY <1>1, <2>1, PTL
  <2> QED
    BY <2>1, <2>2
<1> QED
  BY <1>2, MgInductive, PTL DEF MgSpec, MigLedgerIsTrue

(***************************************************************************)
(* BlockCursor, for any processes, chain and window.                       *)
(***************************************************************************)

\* A block is tried once its loop has left "fetch".
Past == {"ingest", "save", "fail"}

\* The blocks below an active loop's block were tried, and its own is when it
\* is past the fetch: what makes saving the cursor safe, whoever moved it
\* meanwhile.
Behind(p) ==
    /\ \A b \in Blocks : b < block[p] => b \in tried
    /\ pc[p] \in Past => block[p] \in tried

\* An active loop is on a block of its round.
InRound(p) == pc[p] # "idle" => 1 <= block[p] /\ block[p] <= last[p]

IInv ==
    /\ TypeOK
    /\ NoBlockUnseen
    /\ \A p \in Loops : Behind(p) /\ InRound(p)

LEMMA InitInv == Init => IInv
BY BoundsAssumption DEF Init, IInv, TypeOK, NoBlockUnseen, Behind, InRound, Blocks, Past

\* A fault keeps the count within its bound.
LEMMA FaultBound == TypeOK /\ Fault => faults' \in 0..MaxFaults
BY BoundsAssumption DEF TypeOK, Fault

\* A round that begins at a value every block up to which was tried.
LEMMA RoundStep ==
    ASSUME IInv, NEW p \in Loops, NEW from \in 0..MaxBlock, Round(p, from),
           \A b \in Blocks : b <= from => b \in tried, faults' \in 0..MaxFaults
    PROVE  IInv'
<1>1. StartOf(from) \in 1..MaxBlock /\ EndOf(from) \in 0..MaxBlock
  BY BoundsAssumption DEF IInv, TypeOK, Round, StartOf, EndOf, Min2
<1>2. TypeOK'
  BY <1>1 DEF IInv, TypeOK, Round
<1>3. NoBlockUnseen'
  BY DEF IInv, NoBlockUnseen, Round, Blocks
<1>4. ASSUME NEW q \in Loops PROVE Behind(q)' /\ InRound(q)'
  <2>1. CASE q = p
    <3>1. block'[q] = from + 1 /\ last'[q] = EndOf(from) /\ pc'[q] = "fetch" /\ tried' = tried
      BY <2>1 DEF IInv, TypeOK, Round, StartOf
    <3>2. from + 1 <= EndOf(from)
      BY DEF Round, StartOf
    <3>3. Behind(q)'
      BY <3>1, BoundsAssumption DEF Behind, Past, Blocks
    <3> QED BY <3>1, <3>2, <3>3 DEF InRound
  <2>2. CASE q # p
    <3>1. block'[q] = block[q] /\ last'[q] = last[q] /\ pc'[q] = pc[q] /\ tried' = tried
      BY <2>2 DEF IInv, TypeOK, Round
    <3> QED BY <3>1 DEF IInv, Behind, InRound, Blocks
  <2> QED BY <2>1, <2>2
<1> QED BY <1>2, <1>3, <1>4 DEF IInv

\* The next block of the round, after one that was tried; or the end of the
\* round.
LEMMA AdvanceStep ==
    ASSUME IInv, NEW p \in Loops, pc[p] = "save", Advance(p) \/ Stop(p), tried' = tried
    PROVE  /\ pc' \in [Loops -> {"idle", "fetch", "ingest", "save", "fail"}]
           /\ block' \in [Loops -> 0..MaxBlock]
           /\ last' \in [Loops -> 0..MaxBlock]
           /\ \A q \in Loops : Behind(q)' /\ InRound(q)'
<1>1. /\ block[p] \in 1..MaxBlock
      /\ last[p] \in 0..MaxBlock
      /\ block[p] \in tried
      /\ \A b \in Blocks : b < block[p] => b \in tried
  BY BoundsAssumption DEF IInv, TypeOK, Behind, InRound, Past
<1>2. /\ pc' \in [Loops -> {"idle", "fetch", "ingest", "save", "fail"}]
      /\ block' \in [Loops -> 0..MaxBlock]
      /\ last' \in [Loops -> 0..MaxBlock]
  BY <1>1, BoundsAssumption DEF IInv, TypeOK, Advance, Stop
<1>3. ASSUME NEW q \in Loops PROVE Behind(q)' /\ InRound(q)'
  <2>1. CASE q = p
    <3>1. CASE pc'[p] = "idle"
      BY <2>1, <3>1, <1>1 DEF IInv, TypeOK, Advance, Stop, Behind, InRound, Past, Blocks
    <3>2. CASE pc'[p] # "idle"
      <4>1. /\ block[p] < last[p]
            /\ block'[p] = block[p] + 1
            /\ last'[p] = last[p]
            /\ pc'[p] = "fetch"
        BY <3>2 DEF IInv, TypeOK, Advance, Stop
      <4> QED BY <2>1, <4>1, <1>1, BoundsAssumption DEF Behind, InRound, Past, Blocks
    <3> QED BY <3>1, <3>2
  <2>2. CASE q # p
    <3>1. block'[q] = block[q] /\ last'[q] = last[q] /\ pc'[q] = pc[q]
      BY <2>2 DEF IInv, TypeOK, Advance, Stop
    <3> QED BY <3>1 DEF IInv, Behind, InRound, Blocks
  <2> QED BY <2>1, <2>2
<1> QED BY <1>2, <1>3

LEMMA StopStep ==
    ASSUME IInv, NEW p \in Loops, Stop(p), tried' = tried
    PROVE  /\ pc' \in [Loops -> {"idle", "fetch", "ingest", "save", "fail"}]
           /\ block' \in [Loops -> 0..MaxBlock]
           /\ last' \in [Loops -> 0..MaxBlock]
           /\ \A q \in Loops : Behind(q)' /\ InRound(q)'
<1>1. /\ pc' \in [Loops -> {"idle", "fetch", "ingest", "save", "fail"}]
      /\ block' \in [Loops -> 0..MaxBlock]
      /\ last' \in [Loops -> 0..MaxBlock]
  BY BoundsAssumption DEF IInv, TypeOK, Stop
<1>2. ASSUME NEW q \in Loops PROVE Behind(q)' /\ InRound(q)'
  <2>1. CASE q = p
    BY <2>1 DEF IInv, TypeOK, Stop, Behind, InRound, Past, Blocks
  <2>2. CASE q # p
    <3>1. block'[q] = block[q] /\ last'[q] = last[q] /\ pc'[q] = pc[q]
      BY <2>2 DEF IInv, TypeOK, Stop
    <3> QED BY <3>1 DEF IInv, Behind, InRound, Blocks
  <2> QED BY <2>1, <2>2
<1> QED BY <1>1, <1>2

\* The cursor written is a block that was tried, as was every one below it.
LEMMA SaveIsSafe ==
    ASSUME IInv, NEW p \in Loops, pc[p] \in Past
    PROVE  block[p] \in 0..MaxBlock /\ \A b \in Blocks : b <= block[p] => b \in tried
BY BoundsAssumption DEF IInv, TypeOK, Behind, Blocks

LEMMA NextInv == IInv /\ [Next]_vars => IInv'
<1> SUFFICES ASSUME IInv, [Next]_vars PROVE IInv'
  OBVIOUS
<1>1. CASE Grow
  <2>1. head' \in 0..MaxBlock
    BY <1>1, BoundsAssumption DEF IInv, TypeOK, Grow
  <2> QED BY <1>1, <2>1 DEF IInv, TypeOK, NoBlockUnseen, Behind, InRound, Grow, Blocks
<1>2. ASSUME NEW p \in Loops, Begin(p) PROVE IInv'
  <2>1. cursor \in 0..MaxBlock /\ \A b \in Blocks : b <= cursor => b \in tried
    BY DEF IInv, TypeOK, NoBlockUnseen
  <2>2. Round(p, cursor) /\ faults' \in 0..MaxFaults
    BY <1>2 DEF Begin, IInv, TypeOK
  <2> QED BY <2>1, <2>2, RoundStep
<1>3. ASSUME NEW p \in Loops, BeginUnread(p) PROVE IInv'
  <2>1. 0 \in 0..MaxBlock /\ \A b \in Blocks : b <= 0 => b \in tried
    BY BoundsAssumption DEF Blocks
  <2>2. Round(p, 0) /\ faults' \in 0..MaxFaults
    BY <1>3, FaultBound DEF BeginUnread, IInv
  <2> QED BY <2>1, <2>2, RoundStep
<1>4. ASSUME NEW p \in Loops, Fetch(p) \/ FetchFails(p) PROVE IInv'
  <2>1. /\ pc[p] = "fetch"
        /\ tried' = tried \cup {block[p]}
        /\ \E l \in Past : pc' = [pc EXCEPT ![p] = l]
        /\ UNCHANGED <<head, cursor, stored, block, last>>
    BY <1>4 DEF Fetch, FetchFails, Past
  <2>2. block[p] \in Blocks
    BY <2>1, BoundsAssumption DEF IInv, TypeOK, InRound, Blocks
  <2>3. faults' \in 0..MaxFaults
    BY <1>4, FaultBound DEF Fetch, FetchFails, IInv, TypeOK
  <2>4. TypeOK'
    BY <2>1, <2>2, <2>3 DEF IInv, TypeOK, Past
  <2>5. NoBlockUnseen'
    BY <2>1 DEF IInv, NoBlockUnseen, Blocks
  <2>6. ASSUME NEW q \in Loops PROVE Behind(q)' /\ InRound(q)'
    BY <2>1, <2>6 DEF IInv, TypeOK, Behind, InRound, Past, Blocks
  <2> QED BY <2>4, <2>5, <2>6 DEF IInv
<1>5. ASSUME NEW p \in Loops, Ingest(p) \/ IngestFails(p) PROVE IInv'
  <2>1. /\ pc[p] = "ingest"
        /\ stored' = stored \cup {block[p]} \/ stored' = stored
        /\ pc' = [pc EXCEPT ![p] = "save"]
        /\ UNCHANGED <<head, cursor, tried, block, last>>
    BY <1>5 DEF Ingest, IngestFails
  <2>2. block[p] \in Blocks
    BY <2>1, BoundsAssumption DEF IInv, TypeOK, InRound, Blocks
  <2>3. faults' \in 0..MaxFaults
    BY <1>5, FaultBound DEF Ingest, IngestFails, IInv, TypeOK
  <2>4. TypeOK'
    BY <2>1, <2>2, <2>3 DEF IInv, TypeOK
  <2>5. NoBlockUnseen'
    BY <2>1 DEF IInv, NoBlockUnseen, Blocks
  <2>6. ASSUME NEW q \in Loops PROVE Behind(q)' /\ InRound(q)'
    BY <2>1, <2>6 DEF IInv, TypeOK, Behind, InRound, Past, Blocks
  <2> QED BY <2>4, <2>5, <2>6 DEF IInv
<1>6. ASSUME NEW p \in Loops, Save(p) \/ SaveFails(p) PROVE IInv'
  <2>1. /\ pc[p] = "save"
        /\ cursor' = block[p] \/ cursor' = cursor
        /\ Advance(p)
        /\ UNCHANGED <<head, tried, stored>>
    BY <1>6 DEF Save, SaveFails, Saved
  <2>2. faults' \in 0..MaxFaults
    BY <1>6, FaultBound DEF Save, SaveFails, IInv, TypeOK
  <2>3. block[p] \in 0..MaxBlock /\ \A b \in Blocks : b <= block[p] => b \in tried
    BY <2>1, SaveIsSafe DEF Past
  <2>4. NoBlockUnseen' /\ cursor' \in 0..MaxBlock
    BY <2>1, <2>3 DEF IInv, TypeOK, NoBlockUnseen, Blocks
  <2>5. /\ pc' \in [Loops -> {"idle", "fetch", "ingest", "save", "fail"}]
        /\ block' \in [Loops -> 0..MaxBlock]
        /\ last' \in [Loops -> 0..MaxBlock]
        /\ \A q \in Loops : Behind(q)' /\ InRound(q)'
    BY <2>1, AdvanceStep
  <2> QED BY <2>1, <2>2, <2>4, <2>5 DEF IInv, TypeOK, Blocks
<1>7. ASSUME NEW p \in Loops, SaveFailed(p) \/ Abort(p) PROVE IInv'
  <2>1. /\ cursor' = cursor \/ (pc[p] \in Past /\ cursor' = block[p])
        /\ Stop(p)
        /\ UNCHANGED <<head, tried, stored>>
    BY <1>7 DEF SaveFailed, Abort, Saved, Past
  <2>2. faults' \in 0..MaxFaults
    BY <1>7, FaultBound DEF SaveFailed, Abort, IInv, TypeOK
  <2>3. NoBlockUnseen' /\ cursor' \in 0..MaxBlock
    BY <2>1, SaveIsSafe DEF IInv, TypeOK, NoBlockUnseen, Blocks
  <2>4. /\ pc' \in [Loops -> {"idle", "fetch", "ingest", "save", "fail"}]
        /\ block' \in [Loops -> 0..MaxBlock]
        /\ last' \in [Loops -> 0..MaxBlock]
        /\ \A q \in Loops : Behind(q)' /\ InRound(q)'
    BY <2>1, StopStep
  <2> QED BY <2>1, <2>2, <2>3, <2>4 DEF IInv, TypeOK, Blocks
<1>8. CASE UNCHANGED vars
  BY <1>8 DEF IInv, TypeOK, NoBlockUnseen, Behind, InRound, vars, Blocks
<1> QED
  BY <1>1, <1>2, <1>3, <1>4, <1>5, <1>6, <1>7, <1>8 DEF Next, Work, Fails

\* The inductive invariant holds of the loop, whatever fails and however many
\* processes share the cursor.
THEOREM Invariance == Spec => []IInv
BY InitInv, NextInv, PTL DEF Spec

\* The loop and its cursor stay in their types.
THEOREM TypeCorrect == Spec => []TypeOK
<1>1. IInv => TypeOK
  BY DEF IInv
<1> QED BY <1>1, Invariance, PTL

\* The cursor never stands beyond a block that no process has asked for.
THEOREM NothingUnseen == Spec => []NoBlockUnseen
<1>1. IInv => NoBlockUnseen
  BY DEF IInv
<1> QED BY <1>1, Invariance, PTL
=============================================================================
