----------------------------- MODULE QueueGate ------------------------------
(***************************************************************************)
(* Queue backpressure (queues.rs, workers.rs, admin.rs): the durable pause *)
(* an operator writes, the in-memory override of each process, and worker  *)
(* loops that ask before every round.  A pause in either place stops the   *)
(* queue and an unreadable authority does too; a round that has passed the *)
(* gate runs to its end.                                                   *)
(***************************************************************************)
EXTENDS Naturals, Sequences, Functions, FiniteSets

CONSTANTS QgQueues,    \* the queues, highest precedence first
          QgWorkers,   \* worker -> the queue it serves
          QgMaxWrites, \* bound on the operator's requests
          QgMaxFails   \* bound on unreadable gate reads

LiveWatch == "live_watch"
ASSUME QgAssumption == /\ QgMaxWrites \in Nat /\ QgMaxFails \in Nat
                       /\ QgQueues \in Seq(Range(QgQueues)) /\ QgQueues # <<>>
                       /\ QgQueues[1] = LiveWatch /\ IsInjective(QgQueues)
                       /\ Range(QgWorkers) \subseteq Range(QgQueues)

VARIABLES qgPaused,   \* queue_state: queue -> "none" (no row), "paused" or "running"
          qgLocal,    \* the in-memory map: queues paused in this process
          qgW,        \* worker -> "gate", "passed", "round" or "wait"
          qgWrites, qgFails,
          qgRounds    \* history: rounds a worker started since its queue was paused

qgVars == <<qgPaused, qgLocal, qgW, qgWrites, qgFails, qgRounds>>
QueueSet == Range(QgQueues)
Ws == DOMAIN QgWorkers
Paused(q) == qgPaused[q] = "paused"

-----------------------------------------------------------------------------

\* set_queue_pause: an upsert, so the last request wins; a name outside
\* ALL_QUEUES is a 404 and no row.
SetQueuePause(q, paused) ==
  /\ qgWrites < QgMaxWrites /\ qgWrites' = qgWrites + 1
  /\ qgPaused' = IF q \in QueueSet THEN [qgPaused EXCEPT ![q] = IF paused THEN "paused" ELSE "running"]
                 ELSE qgPaused
  /\ qgRounds' = [w \in Ws |-> IF QgWorkers[w] = q THEN 0 ELSE qgRounds[w]]
  /\ UNCHANGED <<qgLocal, qgW, qgFails>>

\* pause_bottom_up: from the lowest precedence up, until the target is met;
\* live_watch is passed over.  When the loop is at a queue, it has paused all the
\* candidates below.
Candidates(local) == {i \in DOMAIN QgQueues : QgQueues[i] # LiveWatch /\ QgQueues[i] \notin local}
CountAt(i, local) == Cardinality(local) + Cardinality({j \in Candidates(local) : j > i})
PauseBottomUp(local, target) ==
  local \union {QgQueues[i] : i \in {i \in Candidates(local) : CountAt(i, local) < target}}

Pressure(target) ==
  /\ qgLocal' = PauseBottomUp(qgLocal, target)
  /\ qgLocal' # qgLocal
  /\ UNCHANGED <<qgPaused, qgW, qgWrites, qgFails, qgRounds>>

ResumeAll ==
  /\ qgLocal # {} /\ qgLocal' = {}
  /\ UNCHANGED <<qgPaused, qgW, qgWrites, qgFails, qgRounds>>

-----------------------------------------------------------------------------

Passes(q) == q \notin qgLocal /\ ~Paused(q)

\* Mutant: a gate that cannot be read lets the round run.
UnreadableGateOpen(w) == "passed"

\* Mutant: a gate that cannot be read ends the worker.
UnreadableGateEnds(w) == "ended"

\* queue_allowed: an unreadable authority answers no.
UnreadableGate(w) == "wait"

Gate(w) ==
  /\ qgW[w] = "gate"
  /\ \/ /\ qgW' = [qgW EXCEPT ![w] = IF Passes(QgWorkers[w]) THEN "passed" ELSE "wait"]
        /\ UNCHANGED qgFails
     \/ /\ QgWorkers[w] \notin qgLocal /\ qgFails < QgMaxFails /\ qgFails' = qgFails + 1
        /\ qgW' = [qgW EXCEPT ![w] = UnreadableGate(w)]
  /\ UNCHANGED <<qgPaused, qgLocal, qgWrites, qgRounds>>

\* The round starts after the read returned; a pause may have come in between.
StartRound(w) ==
  /\ qgW[w] = "passed" /\ qgW' = [qgW EXCEPT ![w] = "round"]
  /\ qgRounds' = [qgRounds EXCEPT ![w] =
       IF Paused(QgWorkers[w]) /\ @ < 2 THEN @ + 1 ELSE @]
  /\ UNCHANGED <<qgPaused, qgLocal, qgWrites, qgFails>>

EndRound(w) ==
  /\ qgW[w] = "round" /\ qgW' = [qgW EXCEPT ![w] = "wait"]
  /\ UNCHANGED <<qgPaused, qgLocal, qgWrites, qgFails, qgRounds>>

NextTick(w) ==
  /\ qgW[w] = "wait" /\ qgW' = [qgW EXCEPT ![w] = "gate"]
  /\ UNCHANGED <<qgPaused, qgLocal, qgWrites, qgFails, qgRounds>>

Worker(w) == Gate(w) \/ StartRound(w) \/ EndRound(w) \/ NextTick(w)

QgInit ==
  /\ qgPaused = [q \in QueueSet |-> "none"] /\ qgLocal = {}
  /\ qgW = [w \in Ws |-> "gate"] /\ qgWrites = 0 /\ qgFails = 0
  /\ qgRounds = [w \in Ws |-> 0]

QgNext ==
  \/ \E w \in Ws : Worker(w)
  \/ \E q \in QueueSet \union {"unknown"}, paused \in BOOLEAN : SetQueuePause(q, paused)
  \/ \E target \in 1 .. Len(QgQueues) : Pressure(target)
  \/ ResumeAll

QgSpec == QgInit /\ [][QgNext]_qgVars

-----------------------------------------------------------------------------
(* Properties.                                                             *)

\* A pause takes hold: after it is acknowledged a worker of the queue starts at
\* most the one round whose gate it had already passed, however often the
\* authority cannot be read meanwhile.
PauseTakesHold == \A w \in Ws : Paused(QgWorkers[w]) => qgRounds[w] <= 1

\* Pressure pauses from the bottom: a queue is never paused by it while one of
\* lower precedence runs, and live_watch is not paused at all.
PressureFromTheBottom ==
  /\ LiveWatch \notin qgLocal
  /\ \A i, j \in 1 .. Len(QgQueues) :
       i < j /\ QgQueues[i] \in qgLocal => QgQueues[j] \in qgLocal

\* Pauses are obeyed: the operator's takes hold within a round, and pressure's
\* are the ones of the lowest precedence.
PausesAreObeyed == PauseTakesHold /\ PressureFromTheBottom

\* A queue that stays resumed is served again and again.
ResumedIsServed ==
  \A w \in Ws :
    <>[](QgWorkers[w] \notin qgLocal /\ ~Paused(QgWorkers[w])) => []<>(qgW[w] = "round")

-----------------------------------------------------------------------------
(* The inductive invariant behind PausesAreObeyed.                         *)

QgTypeOK ==
  /\ qgPaused \in [QueueSet -> {"none", "paused", "running"}]
  /\ qgLocal \subseteq QueueSet
  /\ qgW \in [Ws -> {"gate", "passed", "round", "wait"}]
  /\ qgRounds \in [Ws -> Nat]

\* The round a paused queue may still start is the one whose gate was passed; once
\* it has started, no worker stands behind the gate.
RoundWasPassed ==
  \A w \in Ws : Paused(QgWorkers[w]) =>
    qgRounds[w] <= (IF qgW[w] = "passed" THEN 0 ELSE 1)

QgIndInv == QgTypeOK /\ RoundWasPassed /\ PressureFromTheBottom
=============================================================================
