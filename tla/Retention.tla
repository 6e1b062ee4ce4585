----------------------------- MODULE Retention ------------------------------
(***************************************************************************)
(* Retention maintenance (maintenance.rs): one task that prunes raw events *)
(* in bounded batches, then market snapshots, records the outcome and      *)
(* sleeps; the health report that notices when it stopped; and the         *)
(* one-shot command that runs the same cycle from another process.         *)
(***************************************************************************)
EXTENDS Naturals, FiniteSets

CONSTANTS RtMaxRows,    \* bound on the rows ingested
          RtRetention,  \* retention, in ticks
          RtBatch,      \* BATCH_LIMIT
          RtMaxBatches, \* MAX_BATCHES_PER_CYCLE
          RtInterval,   \* interval between cycles, in ticks
          RtMaxFails    \* bound on the statements that fail

ASSUME RtAssumption ==
  /\ {RtRetention, RtBatch, RtMaxBatches, RtInterval} \subseteq Nat \ {0}
  /\ RtMaxRows \in Nat /\ RtMaxFails \in Nat

VARIABLES rtRows,    \* raw_events: row -> its age, capped one above the retention
          rtMarket,  \* expired market snapshots exist
          rtTask,    \* the scheduled task: [pc, batches]
          rtOnce,    \* `db retention run-once`: the same record, or finished
          rtSince,   \* ticks since the last success, or the start; capped
          rtErr,     \* last_error is set
          rtFails

rtVars == <<rtRows, rtMarket, rtTask, rtOnce, rtSince, rtErr, rtFails>>

RowIds == 1 .. RtMaxRows
Absent == 0                        \* not ingested yet
Gone == RtRetention + 3            \* pruned
Expired(r) == rtRows[r] = RtRetention + 2
Live(r) == rtRows[r] \in 1 .. RtRetention + 2
StaleAfter == 2 * RtInterval

At(pc) == [pc |-> pc, batches |-> 0]

-----------------------------------------------------------------------------
(* run_cycle, for the task and for the one-shot command.                   *)

ExpiredRows == {r \in RowIds : Expired(r)}

\* prune_raw_events_batch: the oldest expired rows, at most a batch of them.
Pruned(rows) ==
  \E out \in SUBSET ExpiredRows :
    /\ Cardinality(out) = IF Cardinality(ExpiredRows) < RtBatch THEN Cardinality(ExpiredRows)
                          ELSE RtBatch
    /\ rows = [r \in RowIds |-> IF r \in out THEN Gone ELSE rtRows[r]]

\* Another batch after one that found something, up to the ceiling.
AfterBatch(p) ==
  IF ExpiredRows = {} \/ p.batches + 1 = RtMaxBatches THEN At("market")
  ELSE [p EXCEPT !.batches = @ + 1]

\* Mutant: the loop ends on the first failure.
FailedTaskReturns(pc) == At("returned")

\* The error is recorded and logged; the loop sleeps and goes on.
FailedTask(pc) == At("sleep")

Statement(p) == p.pc \in {"batch", "market"}

\* One statement of a cycle, its outcome left to the caller.
CycleStep(p, p2) ==
  \/ p.pc = "batch" /\ Pruned(rtRows') /\ p2 = AfterBatch(p) /\ UNCHANGED rtMarket
  \/ p.pc = "market" /\ rtMarket' = FALSE /\ p2 = At("record") /\ UNCHANGED rtRows

TaskWake ==
  /\ rtTask.pc = "sleep" /\ rtTask' = At("batch")
  /\ UNCHANGED <<rtRows, rtMarket, rtOnce, rtSince, rtErr, rtFails>>

TaskStep ==
  /\ CycleStep(rtTask, rtTask')
  /\ UNCHANGED <<rtOnce, rtSince, rtErr, rtFails>>

TaskFails ==
  /\ Statement(rtTask) /\ rtFails < RtMaxFails /\ rtFails' = rtFails + 1
  /\ rtTask' = FailedTask(rtTask.pc)
  /\ rtErr' = TRUE
  /\ UNCHANGED <<rtRows, rtMarket, rtOnce, rtSince>>

\* record_success clears the error and moves the baseline of staleness.
TaskRecord ==
  /\ rtTask.pc = "record" /\ rtTask' = At("sleep")
  /\ rtSince' = 0 /\ rtErr' = FALSE
  /\ UNCHANGED <<rtRows, rtMarket, rtOnce, rtFails>>

\* The task is gone (a panic ends a spawned task) and the process lives on.
TaskDies ==
  /\ rtTask.pc # "dead" /\ rtTask' = At("dead")
  /\ UNCHANGED <<rtRows, rtMarket, rtOnce, rtSince, rtErr, rtFails>>

\* The one-shot command has a state of its own; a failure ends it.
OnceStep ==
  /\ rtOnce.pc # "done"
  /\ \/ CycleStep(rtOnce, rtOnce') /\ UNCHANGED rtFails
     \/ rtOnce.pc = "record" /\ rtOnce' = At("done") /\ UNCHANGED <<rtRows, rtMarket, rtFails>>
     \/ /\ Statement(rtOnce) /\ rtFails < RtMaxFails /\ rtFails' = rtFails + 1
        /\ rtOnce' = At("done") /\ UNCHANGED <<rtRows, rtMarket>>
  /\ UNCHANGED <<rtTask, rtSince, rtErr>>

-----------------------------------------------------------------------------
(* The world: rows arrive and age, and health is asked.                    *)

Arrive(r) ==
  /\ rtRows[r] = Absent /\ rtRows' = [rtRows EXCEPT ![r] = 1]
  /\ rtMarket' \in BOOLEAN
  /\ UNCHANGED <<rtTask, rtOnce, rtSince, rtErr, rtFails>>

RtTick ==
  /\ rtRows' = [r \in RowIds |-> IF Live(r) /\ ~Expired(r) THEN rtRows[r] + 1 ELSE rtRows[r]]
  /\ rtSince' = IF rtSince > StaleAfter THEN rtSince ELSE rtSince + 1
  /\ UNCHANGED <<rtMarket, rtTask, rtOnce, rtErr, rtFails>>

\* is_stale: more than two intervals since the last success or the start.
IsStale == rtSince > StaleAfter

-----------------------------------------------------------------------------

RtInit ==
  /\ rtRows = [r \in RowIds |-> Absent] /\ rtMarket \in BOOLEAN
  /\ rtTask = At("batch") /\ rtOnce \in {At("batch"), At("done")}
  /\ rtSince = 0 /\ rtErr = FALSE /\ rtFails = 0

RtNext ==
  \/ TaskWake \/ TaskStep \/ TaskFails \/ TaskRecord \/ TaskDies \/ OnceStep
  \/ (\E r \in RowIds : Arrive(r)) \/ RtTick

-----------------------------------------------------------------------------
(* Properties.                                                             *)

\* Expired rows are all pruned in the end unless the task has died: the
\* ceiling per cycle and failed statements delay the work, they never lose it.
BacklogDrains ==
  \A r \in RowIds : (Expired(r) /\ rtTask.pc # "dead") ~> (~Expired(r) \/ rtTask.pc = "dead")

\* A task that died, before its first success or after a failure, is reported
\* stale for good.
DeathIsReported == rtTask.pc = "dead" ~> [](rtTask.pc = "dead" => IsStale)

\* Retention is kept or its end is noticed: the backlog goes, and a task that
\* died does not look alive to health.
RetentionIsKept == BacklogDrains /\ DeathIsReported
=============================================================================
