----------------------------- MODULE MCService ------------------------------
(***************************************************************************)
(* The service around the intelligence: migrations and the start of the    *)
(* service, block polling, the queue gate and retention.  The components   *)
(* share no state, so `mode` chooses the one that runs and the others stay *)
(* in an initial state; every fairness condition is that of the component  *)
(* that runs.                                                              *)
(***************************************************************************)
EXTENDS Migrations, BlockCursor, QueueGate, Retention

VARIABLE mode
svVars == <<mode, mgVars, vars, qgVars, rtVars>>
Modes == {"migrate", "poll", "gate", "retain"}

-----------------------------------------------------------------------------
(* Migrations: three files; the first adds alerts.state, the second aborts *)
(* on undelivered rows with a delivery time, the third on cases it finds   *)
(* twice or in no workspace.                                               *)

Line(n, d) == [ok |-> TRUE, name |-> n, digest |-> d]
Whole(d) == [files |-> [n \in 1..3 |-> d[n]], manifest |-> [n \in 1..3 |-> Line(n, d[n])]]
MCEmbedded == Whole(<<"a", "a", "a">>)

\* The embedded bundle, an earlier one with another first file and its manifest out
\* of order, and bundles whose manifest names another digest or a file twice.
MCDirs == {MCEmbedded,
  [files |-> [n \in 1..2 |-> IF n = 1 THEN "b" ELSE "a"], manifest |-> <<Line(2, "a"), Line(1, "b")>>],
  [files |-> [n \in 1..2 |-> "a"], manifest |-> <<Line(1, "a"), Line(2, "b")>>],
  [files |-> [n \in 1..2 |-> "a"], manifest |-> <<Line(1, "a"), Line(2, "a"), Line(2, "b")>>]}
MCAborts == [n \in 1..3 |-> CASE n = 2 -> {"sentAtNotNull"}
                              [] n = 3 -> {"badWorkspace", "duplicateCases"} [] OTHER -> {}]

Db(table, cols, check, trusted, rows, shapes, ws) ==
  [table |-> table, cols |-> cols, check |-> check, trusted |-> trusted, writable |-> Roles,
   ledger |-> [n \in 1..3 |-> IF n <= Len(rows) THEN rows[n] ELSE NoRow],
   shapes |-> shapes, wsColumn |-> ws]
Ran(s) == [n \in 1..3 |-> IF n <= Len(s) THEN <<s[n]>> ELSE <<>>]
Cols == {"sha256", "digest_origin"}
Old == Row("null", FALSE, "null")
Bare(d) == Row(d, FALSE, "null")
App(d) == Row(d, FALSE, "applied")
Fresh == [db |-> Db(FALSE, {}, "absent", TRUE, <<>>, {}, FALSE), ran |-> Ran(<<>>)]

\* A fresh database, ledgers of four earlier releases (the first from before
\* alerts.state) with the data shapes those left behind, and ledgers someone
\* tampered with.
MCDatabases == {Fresh,
  [db |-> Db(TRUE, {}, "absent", TRUE, <<>>, {"sentAtNotNull", "badWorkspace"}, FALSE), ran |-> Ran(<<>>)],
  [db |-> Db(TRUE, {}, "absent", TRUE, <<Old>>, {"sentAtNotNull", "badWorkspace", "duplicateCases"}, FALSE),
   ran |-> Ran(<<"b">>)],
  [db |-> Db(TRUE, {"sha256"}, "absent", TRUE, <<Bare("a"), Bare("a")>>, {"badWorkspace"}, TRUE),
   ran |-> Ran(<<"b", "a">>)],
  [db |-> Db(TRUE, Cols, "canonical", TRUE, <<App("a"), App("a")>>, {"duplicateCases", "collidingAlerts"}, FALSE),
   ran |-> Ran(<<"a", "a">>)],
  [db |-> Db(TRUE, Cols, "canonical", TRUE, <<App("a")>>, {"badSubject"}, FALSE), ran |-> Ran(<<"a">>)],
  [db |-> Db(TRUE, Cols, "canonical", TRUE, <<App("b"), App("a"), App("a")>>, {}, TRUE),
   ran |-> Ran(<<"b", "a", "a">>)],
  [db |-> Db(TRUE, Cols, "absent", TRUE, <<Row("a", FALSE, "rogue")>>, {}, FALSE), ran |-> Ran(<<"a">>)],
  [db |-> Db(TRUE, Cols, "forged", TRUE, <<App("a")>>, {}, FALSE), ran |-> Ran(<<"a">>)],
  [db |-> Db(TRUE, Cols, "canonical", FALSE, <<App("a")>>, {}, FALSE), ran |-> Ran(<<"a">>)]}

-----------------------------------------------------------------------------
(* Block polling: windows of two blocks, a chain of two full windows.      *)

SmallSpan  == 2
SmallChain == 2 * SmallSpan

(* Queues: one worker above and one at the bottom of the precedence.       *)

MCQueues == <<"live_watch", "funding_radar", "seed_sync", "signal_eval">>
MCWorkers == [w \in {"w1", "w2"} |-> IF w = "w1" THEN "funding_radar" ELSE "signal_eval"]

-----------------------------------------------------------------------------

ServiceInit ==
  /\ mode \in Modes
  /\ MgInit /\ (mode # "migrate" => mgDb = Fresh.db)
  /\ Init
  /\ QgInit
  /\ RtInit /\ (mode # "retain" => rtMarket = FALSE /\ rtOnce.pc = "done")

Runs(m) == mode = m
ServiceNext ==
  /\ mode' = mode
  /\ \/ Runs("migrate") /\ MgNext /\ UNCHANGED <<vars, qgVars, rtVars>>
     \/ Runs("poll")    /\ Next   /\ UNCHANGED <<mgVars, qgVars, rtVars>>
     \/ Runs("gate")    /\ QgNext /\ UNCHANGED <<mgVars, vars, rtVars>>
     \/ Runs("retain")  /\ RtNext /\ UNCHANGED <<mgVars, vars, qgVars>>

\* A migrator that is not killed goes on, the polling loops and the workers are
\* polled by the runtime, the retention task is polled and time passes.
Fairness ==
  /\ \A m \in Migrators : WF_mgVars(Runs("migrate") /\ MigStep(m))
  /\ \A p \in Loops : WF_vars(Runs("poll") /\ Work(p))
  /\ \A w \in Ws : WF_qgVars(Runs("gate") /\ Worker(w))
  /\ WF_rtVars(Runs("retain") /\ (TaskWake \/ TaskStep \/ TaskRecord))
  /\ WF_rtVars(Runs("retain") /\ RtTick)

ServiceSpec == ServiceInit /\ [][ServiceNext]_svVars /\ Fairness

\* A queue that stays resumed is served again and again (queue_allowed and the
\* worker loops that ask it every round).
ResumedQueuesAreServed == Runs("gate") => ResumedIsServed
=============================================================================
