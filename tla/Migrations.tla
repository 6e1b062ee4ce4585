----------------------------- MODULE Migrations -----------------------------
(***************************************************************************)
(* The migration ledger (db.rs): several `db migrate` processes and        *)
(* services that start meanwhile, over one database.  A migration file is  *)
(* a number (filename order), its bytes are a digest.  The ledger is the   *)
(* table public._migrations: per file no row, or a row with the recorded   *)
(* digest, whether it carries the `baseline:` prefix, and digest_origin.   *)
(*                                                                         *)
(* A run may die at any statement (error or crash); a transaction is one   *)
(* step, so what it wrote is there or is not.                              *)
(***************************************************************************)
EXTENDS Naturals, Sequences, FiniteSets

CONSTANTS MgNames,       \* migration files, numbered in filename order
          MgDigests,     \* what a file's bytes can hash to
          MgDirs,        \* candidate bundles: [files, manifest]
          MgEmbedded,    \* the one compiled into the binary
          MgAbortsOn,    \* file -> the shapes of old data its SQL aborts on
          MgAddsState,   \* the file that adds alerts.state (1033)
          MgDatabases,   \* databases the processes may find
          Migrators, MgServices,
          MgMaxStarts    \* bound on the runs started

VARIABLES mgDb,       \* [table, cols, check, trusted, writable, ledger, shapes, wsColumn]
          mgRan,      \* history: the digests that were executed, per file
          mgLock,     \* holder of the session advisory lock
          mgM,        \* migrators: [pc, dir, accept, next, seen, early, why]
          mgSvc,      \* services: [pc, dir, cols, loose]
          mgStarts

mgVars == <<mgDb, mgRan, mgLock, mgM, mgSvc, mgStarts>>

Nobody == "nobody"
NoDigest == "null"
NoRow == [sha |-> "-", base |-> FALSE, origin |-> "-"]
Row(sha, base, origin) == [sha |-> sha, base |-> base, origin |-> origin]
Has(row) == row # NoRow

LegalOrigins == {"applied", "baseline"}
Roles == {"PUBLIC", "swi_legacy_runtime", "swi_app"}

\* sentAtNotNull: an alert that was not delivered bears a delivery time, in a column
\* that is NOT NULL.  Before 1033 that is a row with a delivery error; 1033 calls it
\* `dead` and leaves the time where it is; 1034 clears the time and aborts.
MgShapes == {"sentAtNotNull", "badWorkspace", "badSubject", "duplicateCases", "collidingAlerts"}

\* An origin that is none of the code's is rogue, a check that is not its own forged.
MgLedgerRows ==
  {NoRow} \cup [sha : MgDigests \cup {NoDigest}, base : BOOLEAN,
                origin : {"applied", "baseline", "rogue", NoDigest}]
MgDbs == [table : BOOLEAN, cols : SUBSET {"sha256", "digest_origin"},
          check : {"absent", "canonical", "forged"},
          trusted : BOOLEAN, writable : SUBSET Roles, ledger : [MgNames -> MgLedgerRows],
          shapes : SUBSET MgShapes, wsColumn : BOOLEAN]

\* A ledger agrees with what was executed: a file without a row never ran, none
\* ran twice, a provenance comes with its digest in a column of its own, and
\* `applied` names the bytes that ran.
LedgerAgrees(db, ran) ==
  \A n \in MgNames :
    LET row == db.ledger[n]
    IN /\ Len(ran[n]) <= 1
       /\ ~Has(row) => ran[n] = <<>>
       /\ Has(row) /\ row.origin # NoDigest => row.sha # NoDigest /\ "digest_origin" \in db.cols
       /\ row.origin = "applied" => ran[n] = <<row.sha>>

\* NULL is not a digest; files are numbered; databases may be of any earlier
\* build or edited by hand, as long as they do not lie about what was executed;
\* the shapes files abort on are the ones the preflight knows, and the two whose
\* repair asks whether the file ran belong to one file each.  The file that clears
\* delivery times reads alerts.state: a bundle with it has the one that adds it, before.
ASSUME MgAssumption ==
  /\ NoDigest \notin MgDigests /\ Nobody \notin Migrators /\ MgMaxStarts \in Nat
  /\ MgNames \subseteq Nat \ {0} /\ MgAddsState \in MgNames /\ MgEmbedded \in MgDirs
  /\ \A d \in MgDirs : /\ DOMAIN d.files \subseteq MgNames
                       /\ \A n \in DOMAIN d.files :
                            /\ d.files[n] \in MgDigests
                            /\ "sentAtNotNull" \in MgAbortsOn[n] =>
                                 MgAddsState \in DOMAIN d.files /\ MgAddsState < n
  /\ \A d \in MgDatabases : /\ d.db \in MgDbs /\ d.ran \in [MgNames -> Seq(MgDigests)]
                            /\ LedgerAgrees(d.db, d.ran)
  /\ MgAbortsOn \in [MgNames -> SUBSET (MgShapes \ {"collidingAlerts"})]
  /\ \A shape \in {"sentAtNotNull", "duplicateCases"}, n, k \in MgNames :
       shape \in MgAbortsOn[n] /\ shape \in MgAbortsOn[k] => n = k

-----------------------------------------------------------------------------
(* Bundles.                                                                *)

\* parse_migration_manifest: every line well formed, no file listed twice.
ManifestParses(lines) ==
  /\ \A i \in DOMAIN lines : lines[i].ok
  /\ \A i, j \in DOMAIN lines : lines[i].name = lines[j].name => i = j

\* MigrationBundle::build: manifest and files are in bijection and every file
\* hashes to what the manifest records, before any SQL runs.
BundleValid(dir) ==
  /\ ManifestParses(dir.manifest)
  /\ {dir.manifest[i].name : i \in DOMAIN dir.manifest} = DOMAIN dir.files
  /\ \A i \in DOMAIN dir.manifest : dir.files[dir.manifest[i].name] = dir.manifest[i].digest

ManifestDigest(dir, n) ==
  dir.manifest[CHOOSE i \in DOMAIN dir.manifest : dir.manifest[i].name = n].digest

\* resolve: only the override captured from the launching environment
\* displaces the embedded bundle; what a .env file says is never consulted.
ResolveBundle(launch) == IF launch = {} THEN MgEmbedded ELSE CHOOSE d \in launch : TRUE

-----------------------------------------------------------------------------
(* The run of a migrator.                                                  *)

IdleMigrator == [pc |-> "idle", dir |-> MgEmbedded, accept |-> FALSE, next |-> 0,
                 seen |-> NoRow, early |-> FALSE, why |-> ""]

Goto(m, pc) == mgM' = [mgM EXCEPT ![m].pc = pc]
MigHolds(m) == mgLock = m

\* Any error return drops MigrationLock, which closes the locking session.
Fail(m, why) ==
  /\ mgM' = [mgM EXCEPT ![m] =
               [IdleMigrator EXCEPT !.pc = "failed", !.early = mgM[m].early, !.why = why]]
  /\ mgLock' = IF MigHolds(m) THEN Nobody ELSE mgLock

MigStart(m) ==
  /\ mgM[m].pc \in {"idle", "done", "failed"}
  /\ mgStarts < MgMaxStarts
  /\ mgStarts' = mgStarts + 1
  /\ \E launch \in {{}} \cup {{d} : d \in MgDirs}, accept \in BOOLEAN :
       LET dir == ResolveBundle(launch)
       IN mgM' = [mgM EXCEPT ![m] =
                    IF BundleValid(dir)
                    THEN [IdleMigrator EXCEPT !.pc = "lock", !.dir = dir, !.accept = accept]
                    ELSE [IdleMigrator EXCEPT !.pc = "failed", !.why = "bundle"]]
  /\ UNCHANGED <<mgDb, mgRan, mgLock, mgSvc>>

\* pg_advisory_lock, on a connection of its own, before the first statement.
MigLock(m) ==
  /\ mgM[m].pc = "lock"
  /\ mgLock = Nobody
  /\ mgLock' = m
  /\ Goto(m, "table")
  /\ UNCHANGED <<mgDb, mgRan, mgSvc, mgStarts>>

\* CREATE TABLE IF NOT EXISTS looks first ...
MigLookForTable(m) ==
  /\ mgM[m].pc = "table"
  /\ Goto(m, IF mgDb.table THEN "sha256" ELSE "create")
  /\ UNCHANGED <<mgDb, mgRan, mgLock, mgSvc, mgStarts>>

\* ... and inserts into the catalog afterwards.
MigCreateTable(m) ==
  /\ mgM[m].pc = "create"
  /\ IF mgDb.table
     THEN Fail(m, "duplicate") /\ UNCHANGED mgDb
     ELSE /\ mgDb' = [mgDb EXCEPT !.table = TRUE]
          /\ Goto(m, "sha256")
          /\ UNCHANGED mgLock
  /\ UNCHANGED <<mgRan, mgSvc, mgStarts>>

\* ADD COLUMN IF NOT EXISTS, one statement a column.
MigAddColumn(m) ==
  /\ mgM[m].pc \in {"sha256", "digest_origin"}
  /\ mgDb' = [mgDb EXCEPT !.cols = @ \cup {mgM[m].pc}]
  /\ Goto(m, IF mgM[m].pc = "sha256" THEN "digest_origin" ELSE "authority")
  /\ UNCHANGED <<mgRan, mgLock, mgSvc, mgStarts>>

\* assert_ledger_provenance_authority: a byte-wise collation, no descendant
\* tables, no NO INHERIT constraint.
AuthorityTrusted(db) == db.trusted

\* assert_ledger_provenance_values
ValuesLegal(db) ==
  \A n \in MgNames : Has(db.ledger[n]) => db.ledger[n].origin \in LegalOrigins \cup {NoDigest}

MigCheckAuthority(m) ==
  /\ mgM[m].pc = "authority"
  /\ IF AuthorityTrusted(mgDb) THEN Goto(m, "constraint") /\ UNCHANGED mgLock
                               ELSE Fail(m, "authority")
  /\ UNCHANGED <<mgDb, mgRan, mgSvc, mgStarts>>

\* digest_origin_check_is_canonical: a predicate that is there must be exactly
\* the one this build adds; an equivalent or weaker one is refused.
CheckAllowed(db) == db.check \in {"absent", "canonical"}

\* Missing: added once the rows allow it.  Present: canonical, never replaced.
MigConstraint(m) ==
  /\ mgM[m].pc = "constraint"
  /\ IF CheckAllowed(mgDb) /\ ValuesLegal(mgDb)
     THEN /\ mgDb' = [mgDb EXCEPT !.check = "canonical"]
          /\ Goto(m, "revoke")
          /\ UNCHANGED mgLock
     ELSE Fail(m, "constraint") /\ UNCHANGED mgDb
  /\ UNCHANGED <<mgRan, mgSvc, mgStarts>>

MigRevoke(m) ==
  /\ mgM[m].pc = "revoke"
  /\ mgDb' = [mgDb EXCEPT !.writable = {}]
  /\ Goto(m, "sent_at")
  /\ UNCHANGED <<mgRan, mgLock, mgSvc, mgStarts>>

-----------------------------------------------------------------------------
(* Preflight repairs: known shapes of old data that a shipped, immutable   *)
(* file aborts on.  Each is detected from the data and repaired in one     *)
(* transaction before the loop.                                            *)

Applied(db, shape) == \E n \in MgNames : shape \in MgAbortsOn[n] /\ Has(db.ledger[n])

\* alerts.state is there once the file that adds it is recorded.
StateExists(db) == Has(db.ledger[MgAddsState])

\* preflight_repair_alerts_sent_at: never on a lane that already ran the file, and
\* not on one without alerts.state: there it returns early, and the run goes on.
MigPreflightSentAt(m) ==
  /\ mgM[m].pc = "sent_at"
  /\ mgDb' = IF ~StateExists(mgDb) \/ Applied(mgDb, "sentAtNotNull") THEN mgDb
             ELSE [mgDb EXCEPT !.shapes = @ \ {"sentAtNotNull"}]
  /\ mgM' = [mgM EXCEPT ![m].pc = "dedup", ![m].early = ~StateExists(mgDb)]
  /\ UNCHANGED <<mgRan, mgLock, mgSvc, mgStarts>>

\* Mutant: the repair counts as done as soon as the column is there.
MigPreflightDedupByColumn(m) ==
  /\ mgM[m].pc = "dedup"
  /\ IF "badSubject" \in mgDb.shapes
     THEN Fail(m, "subject") /\ UNCHANGED mgDb
     ELSE /\ mgDb' = IF mgDb.wsColumn THEN mgDb
                     ELSE [mgDb EXCEPT !.shapes = @ \ {"badWorkspace"}, !.wsColumn = TRUE]
          /\ Goto(m, "cases")
          /\ UNCHANGED mgLock
  /\ UNCHANGED <<mgRan, mgSvc, mgStarts>>

\* preflight_repair_legacy_dedup_keys: an unrepairable subject segment stops
\* the run first, before any DDL; otherwise unowned rows get the default
\* workspace, whether or not an earlier run left the column behind.
MigPreflightDedup(m) ==
  /\ mgM[m].pc = "dedup"
  /\ IF "badSubject" \in mgDb.shapes
     THEN Fail(m, "subject") /\ UNCHANGED mgDb
     ELSE /\ mgDb' = IF "badWorkspace" \notin mgDb.shapes THEN mgDb
                     ELSE [mgDb EXCEPT !.shapes = @ \ {"badWorkspace"}, !.wsColumn = TRUE]
          /\ Goto(m, "cases")
          /\ UNCHANGED mgLock
  /\ UNCHANGED <<mgRan, mgSvc, mgStarts>>

\* preflight_repair_funding_case_identity (its merge: module CaseRepair).  Two
\* alerts that would get one key violate the primary key and end the run.
MigPreflightCases(m) ==
  /\ mgM[m].pc = "cases"
  /\ IF "collidingAlerts" \in mgDb.shapes /\ ~Applied(mgDb, "duplicateCases")
     THEN Fail(m, "rekey") /\ UNCHANGED mgDb
     ELSE /\ mgDb' = IF Applied(mgDb, "duplicateCases") THEN mgDb
                     ELSE [mgDb EXCEPT !.shapes = @ \ {"duplicateCases"}]
          /\ Goto(m, "loop")
          /\ UNCHANGED mgLock
  /\ UNCHANGED <<mgRan, mgSvc, mgStarts>>

-----------------------------------------------------------------------------
(* The loop over the bundle, in filename order.                            *)

Left(m) == {n \in DOMAIN mgM[m].dir.files : n > mgM[m].next}
Current(m) == CHOOSE n \in Left(m) : \A k \in Left(m) : n <= k
FileDigest(m) == mgM[m].dir.files[Current(m)]
NextFile(m) == mgM' = [mgM EXCEPT ![m].pc = "loop", ![m].next = Current(m), ![m].seen = NoRow]

\* Mutant: the lock was taken on a pooled connection and stays with it.
MigDoneKeepsLock(m) ==
  /\ mgM[m].pc = "loop"
  /\ Left(m) = {}
  /\ mgM' = [mgM EXCEPT ![m] = [IdleMigrator EXCEPT !.pc = "done"]]
  /\ UNCHANGED <<mgDb, mgRan, mgLock, mgSvc, mgStarts>>

MigDone(m) ==
  /\ mgM[m].pc = "loop"
  /\ Left(m) = {}
  /\ mgM' = [mgM EXCEPT ![m] = [IdleMigrator EXCEPT !.pc = "done"]]
  /\ mgLock' = IF MigHolds(m) THEN Nobody ELSE mgLock
  /\ UNCHANGED <<mgDb, mgRan, mgSvc, mgStarts>>

MigRead(m) ==
  /\ mgM[m].pc = "loop"
  /\ Left(m) # {}
  /\ mgM' = [mgM EXCEPT ![m].pc = "file", ![m].seen = mgDb.ledger[Current(m)]]
  /\ UNCHANGED <<mgDb, mgRan, mgLock, mgSvc, mgStarts>>

Unowned(row) == Has(row) /\ row.sha # NoDigest /\ row.origin = NoDigest
Unhashed(row) == Has(row) /\ row.sha = NoDigest

SetRow(n, row) == mgDb' = [mgDb EXCEPT !.ledger[n] = row]

\* A digest without provenance: re-declared as a baseline with the operator's
\* consent.  The digest is kept as recorded; it is not compared with the file.
MigRedeclare(m) ==
  /\ mgM[m].pc = "file" /\ Unowned(mgM[m].seen)
  /\ IF mgM[m].accept
     THEN /\ SetRow(Current(m), Row(mgM[m].seen.sha, TRUE, "baseline"))
          /\ NextFile(m) /\ UNCHANGED mgLock
     ELSE Fail(m, "provenance") /\ UNCHANGED mgDb
  /\ UNCHANGED <<mgRan, mgSvc, mgStarts>>

\* A row from before digests: the manifest must vouch for the file, the
\* operator must consent, and the row is only ever a baseline.
MigBaseline(m) ==
  /\ mgM[m].pc = "file" /\ Unhashed(mgM[m].seen)
  /\ IF ManifestDigest(mgM[m].dir, Current(m)) = FileDigest(m) /\ mgM[m].accept
     THEN /\ SetRow(Current(m), Row(FileDigest(m), TRUE, "baseline"))
          /\ NextFile(m) /\ UNCHANGED mgLock
     ELSE Fail(m, "unhashed") /\ UNCHANGED mgDb
  /\ UNCHANGED <<mgRan, mgSvc, mgStarts>>

\* A row with digest and provenance: the file must still be those bytes.
MigCompare(m) ==
  /\ mgM[m].pc = "file"
  /\ LET row == mgM[m].seen
     IN /\ Has(row) /\ ~Unowned(row) /\ ~Unhashed(row)
        /\ IF row.sha = FileDigest(m) THEN NextFile(m) /\ UNCHANGED mgLock
                                      ELSE Fail(m, "edited")
  /\ UNCHANGED <<mgDb, mgRan, mgSvc, mgStarts>>

\* Mutant: the SQL commits and the ledger row is left for a later statement.
MigApplyUnrecorded(m) ==
  /\ mgM[m].pc = "file" /\ ~Has(mgM[m].seen)
  /\ mgRan' = [mgRan EXCEPT ![Current(m)] = Append(@, FileDigest(m))]
  /\ mgDb' = [mgDb EXCEPT !.shapes = @ \ MgAbortsOn[Current(m)]]
  /\ NextFile(m)
  /\ UNCHANGED <<mgLock, mgSvc, mgStarts>>

\* One transaction: the SQL and its ledger row.  The name is the primary key.
MigApply(m) ==
  /\ mgM[m].pc = "file" /\ ~Has(mgM[m].seen)
  /\ LET n == Current(m)
     IN IF mgDb.shapes \cap MgAbortsOn[n] # {}
        THEN Fail(m, "sql") /\ UNCHANGED <<mgDb, mgRan>>
        ELSE IF Has(mgDb.ledger[n])
        THEN Fail(m, "duplicate") /\ UNCHANGED <<mgDb, mgRan>>
        ELSE /\ SetRow(n, Row(FileDigest(m), FALSE, "applied"))
             /\ mgRan' = [mgRan EXCEPT ![n] = Append(@, FileDigest(m))]
             /\ NextFile(m)
             /\ UNCHANGED mgLock
  /\ UNCHANGED <<mgSvc, mgStarts>>

\* A statement fails or the process dies.
MigDies(m) ==
  /\ mgM[m].pc \notin {"idle", "done", "failed"}
  /\ Fail(m, "died")
  /\ UNCHANGED <<mgDb, mgRan, mgSvc, mgStarts>>

-----------------------------------------------------------------------------
(* ensure_schema_current: read-only, no lock, several statements.          *)

OffService == [pc |-> "off", dir |-> MgEmbedded, cols |-> {}, loose |-> {}]
SvcRefuse(s) == mgSvc' = [mgSvc EXCEPT ![s] = [OffService EXCEPT !.pc = "refused"]]

\* Ledger, authority, bundle, values, then the digests without provenance.
SvcRead(s) ==
  /\ mgSvc[s].pc = "off"
  /\ \E dir \in MgDirs :
       IF ~mgDb.table \/ ~AuthorityTrusted(mgDb) \/ ~BundleValid(dir)
          \/ ("digest_origin" \in mgDb.cols /\ ~ValuesLegal(mgDb))
       THEN SvcRefuse(s)
       ELSE mgSvc' = [mgSvc EXCEPT ![s] =
              [pc |-> "rows", dir |-> dir, cols |-> mgDb.cols,
               loose |-> {n \in MgNames : "sha256" \in mgDb.cols /\ Unowned(mgDb.ledger[n])}]]
  /\ UNCHANGED <<mgDb, mgRan, mgLock, mgM, mgStarts>>

Pending(db, dir) == {n \in DOMAIN dir.files : ~Has(db.ledger[n])}
Unknown(db, dir) == {n \in MgNames \ DOMAIN dir.files : Has(db.ledger[n])}
Unverifiable(db, dir, cols) ==
  {n \in DOMAIN dir.files : Has(db.ledger[n])
                            /\ (db.ledger[n].sha = NoDigest \/ "sha256" \notin cols)}

Mismatched(db, dir) ==
  {n \in DOMAIN dir.files : /\ Has(db.ledger[n]) /\ db.ledger[n].sha # NoDigest
                            /\ db.ledger[n].sha # dir.files[n]}

\* Any pending, mismatched, unknown, unverifiable or provenance-less file
\* keeps the service down; baselines are only reported.
SvcDecide(s) ==
  /\ mgSvc[s].pc = "rows"
  /\ IF Pending(mgDb, mgSvc[s].dir) \cup Mismatched(mgDb, mgSvc[s].dir)
        \cup Unknown(mgDb, mgSvc[s].dir)
        \cup Unverifiable(mgDb, mgSvc[s].dir, mgSvc[s].cols) \cup mgSvc[s].loose = {}
     THEN mgSvc' = [mgSvc EXCEPT ![s].pc = "running"]
     ELSE SvcRefuse(s)
  /\ UNCHANGED <<mgDb, mgRan, mgLock, mgM, mgStarts>>

-----------------------------------------------------------------------------
MgInit ==
  /\ \E d \in MgDatabases : mgDb = d.db /\ mgRan = d.ran
  /\ mgLock = Nobody
  /\ mgM = [m \in Migrators |-> IdleMigrator]
  /\ mgSvc = [s \in MgServices |-> OffService]
  /\ mgStarts = 0

MigStep(m) ==
  \/ MigLock(m) \/ MigLookForTable(m) \/ MigCreateTable(m) \/ MigAddColumn(m)
  \/ MigCheckAuthority(m) \/ MigConstraint(m) \/ MigRevoke(m)
  \/ MigPreflightSentAt(m) \/ MigPreflightDedup(m) \/ MigPreflightCases(m)
  \/ MigDone(m) \/ MigRead(m) \/ MigRedeclare(m) \/ MigBaseline(m)
  \/ MigCompare(m) \/ MigApply(m)

MgNext == \/ \E m \in Migrators : MigStart(m) \/ MigStep(m) \/ MigDies(m)
          \/ \E s \in MgServices : SvcRead(s) \/ SvcDecide(s)

MgSpec == MgInit /\ [][MgNext]_mgVars

-----------------------------------------------------------------------------
(* Properties.                                                             *)

MgTypeOK ==
  /\ \A n \in MgNames : /\ mgDb.ledger[n].sha \in MgDigests \cup {NoDigest, "-"}
                        /\ mgRan[n] \in Seq(MgDigests)
  /\ mgLock \in Migrators \cup {Nobody}
  /\ mgStarts \in 0..MgMaxStarts

\* However runs interleave, die and are repeated, no file's SQL is executed
\* twice on one database, nor on one where an earlier build already ran it.
MigExactlyOnce == \A n \in MgNames : Len(mgRan[n]) <= 1

\* `applied` is a statement about history: this is the digest of the bytes that
\* were executed (REV-041: a filename-only row cannot prove it).
MigAppliedIsWhatRan ==
  \A n \in MgNames : mgDb.ledger[n].origin = "applied" => mgRan[n] = <<mgDb.ledger[n].sha>>

\* Provenance is never upgraded, and a recorded digest never changes: rows only
\* appear as applied, or go from unknown to baseline.
MigKeepsProvenance ==
  \A n \in MgNames : mgDb'.ledger[n] # mgDb.ledger[n] =>
    \/ ~Has(mgDb.ledger[n])
    \/ /\ mgDb.ledger[n].origin = NoDigest
       /\ mgDb'.ledger[n].origin = "baseline" /\ mgDb'.ledger[n].base
       /\ mgDb.ledger[n].sha \in {NoDigest, mgDb'.ledger[n].sha}

\* The ledger tells the truth after every step of migrators that race, die and
\* are run again with other files and consents: nothing ran twice, what it calls
\* applied is what ran, and nothing unverified came to read as verified.
MigLedgerIsTrue ==
  [][MgTypeOK' /\ MigExactlyOnce' /\ MigAppliedIsWhatRan' /\ MigKeepsProvenance]_mgVars

\* Migrators that start together wait for each other; none aborts on what
\* another one has just created (REV-097-F03).
MigNoRaceFailure == \A m \in Migrators : mgM[m].why # "duplicate"

\* The old lanes upgrade: no file meets the data it aborts on, whatever an
\* interrupted earlier run or build left behind, but in one case.  A run that found
\* alerts without `state` adds it and aborts on the rows it made `dead`; by then
\* 1033 is committed, so no later run is such a run and the next one repairs them.
MigKnownLanesUpgrade ==
  \A m \in Migrators : mgM[m].why = "sql" => mgM[m].early /\ StateExists(mgDb)

\* A running service's schema is the one of its bundle: every file is in the
\* ledger with exactly these bytes, and none of unknown provenance.
SvcRunsOnItsSchema ==
  \A s \in MgServices : mgSvc[s].pc = "running" =>
    \A n \in DOMAIN mgSvc[s].dir.files :
      LET row == mgDb.ledger[n]
      IN Has(row) /\ row.sha = mgSvc[s].dir.files[n] /\ row.origin \in LegalOrigins

\* Upgrades succeed: no race of migrators fails a run, the data of an old lane
\* fails none but the first over a database from before 1033, and a service that
\* was let through runs on its own schema.
MigUpgradesSucceed == MigNoRaceFailure /\ MigKnownLanesUpgrade /\ SvcRunsOnItsSchema

\* The lock always comes free again: a migrator that waits for it ends its run.
MigWaiterEnds ==
  \A m \in Migrators : mgM[m].pc = "lock" ~> mgM[m].pc \in {"done", "failed"}

-----------------------------------------------------------------------------
(* The inductive invariant behind MigLedgerIsTrue and MigUpgradesSucceed.  *)

MgActive == {"table", "create", "sha256", "digest_origin", "authority", "constraint", "revoke",
             "sent_at", "dedup", "cases", "loop", "file"}
MgWhys == {"", "bundle", "duplicate", "authority", "constraint", "subject", "rekey", "provenance",
           "unhashed", "edited", "sql", "died"}
MgRuns == [pc : MgActive \cup {"idle", "lock", "done", "failed"}, dir : MgDirs, accept : BOOLEAN,
           next : Nat, seen : MgLedgerRows, early : BOOLEAN, why : MgWhys]
MgSvcs == [pc : {"off", "rows", "running", "refused"}, dir : MgDirs,
           cols : SUBSET {"sha256", "digest_origin"}, loose : SUBSET MgNames]

MgTyped ==
  /\ mgDb \in MgDbs /\ mgRan \in [MgNames -> Seq(MgDigests)]
  /\ mgLock \in Migrators \cup {Nobody}
  /\ mgM \in [Migrators -> MgRuns] /\ mgSvc \in [MgServices -> MgSvcs]
  /\ mgStarts \in 0..MgMaxStarts

\* Past the lock, the lock is held; so what a run has looked at is still so.
LockIsHeld(m) == mgM[m].pc \in MgActive => mgLock = m
LooksAreFresh(m) ==
  /\ mgM[m].pc = "create" => ~mgDb.table
  /\ mgM[m].pc = "file" => Left(m) # {} /\ mgM[m].seen = mgDb.ledger[Current(m)]

\* Past the statement that adds it, the column is there.
ColumnIsThere(m) ==
  mgM[m].pc \in MgActive \ {"table", "create", "sha256", "digest_origin"}
    => "digest_origin" \in mgDb.cols

\* Only a run that failed has a reason for it.
ReasonIsOfAFailure(m) == mgM[m].pc # "failed" => mgM[m].why = ""

\* The files a run has passed are in the ledger.
PassedIsRecorded(m) ==
  \A k \in DOMAIN mgM[m].dir.files : k <= mgM[m].next => Has(mgDb.ledger[k])

\* Past its preflight, a shape is gone or the file that aborts on it has run; the
\* first repair may have been skipped, in a run that found no alerts.state.
Repaired(shape) ==
  shape \in mgDb.shapes => \A n \in MgNames : shape \in MgAbortsOn[n] => Has(mgDb.ledger[n])
PreflightsHold(m) ==
  /\ mgM[m].pc \in {"dedup", "cases", "loop", "file"} =>
       mgM[m].early \/ Repaired("sentAtNotNull")
  /\ mgM[m].pc \in {"cases", "loop", "file"} => Repaired("badWorkspace") /\ Repaired("badSubject")
  /\ mgM[m].pc \in {"loop", "file"} => Repaired("duplicateCases")

RunIsSound(m) ==
  /\ LockIsHeld(m) /\ LooksAreFresh(m) /\ ColumnIsThere(m) /\ PreflightsHold(m)
  /\ PassedIsRecorded(m) /\ ReasonIsOfAFailure(m)
  /\ mgM[m].why # "duplicate"
  /\ mgM[m].why = "sql" => mgM[m].early /\ StateExists(mgDb)

\* What a service has read of provenance is still on the safe side: rows it did
\* not find loose have one, or have no digest.
ReadsAreSafe ==
  \A s \in MgServices : mgSvc[s].pc = "rows" =>
    \A n \in MgNames : Has(mgDb.ledger[n]) =>
      /\ mgDb.ledger[n].origin \in LegalOrigins \cup {NoDigest}
      /\ "sha256" \in mgSvc[s].cols /\ Unowned(mgDb.ledger[n]) => n \in mgSvc[s].loose

MgIndInv ==
  /\ MgTyped /\ LedgerAgrees(mgDb, mgRan)
  /\ \A m \in Migrators : RunIsSound(m)
  /\ ReadsAreSafe /\ SvcRunsOnItsSchema
=============================================================================
