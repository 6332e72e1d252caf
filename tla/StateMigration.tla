---------------------------- MODULE StateMigration ----------------------------
(***************************************************************************)
(* The import of the two legacy files into the state database, its backup,    *)
(* and the rollback (src/wsp_core/state_migration_v3.py): one operator, whose   *)
(* commands may die at any step, while other programs rewrite the legacy files.  *)
(* The processes that use the database are stopped, as docs/V3_BACKUP_RESTORE.md *)
(* asks; between two commands they run.                                          *)
(*                                                                         *)
(* The database is its main file and its write-ahead log; both hold a whole      *)
(* content here, and the log's is the newer one.  A legacy file's bytes are a     *)
(* number: the health file may return to earlier bytes (an empty table), the     *)
(* samples file, whose entries carry their time, never does.                     *)
(***************************************************************************)
EXTENDS Integers, Sequences, FiniteSets

CONSTANTS
    HealthFiles,   \* bytes of provider_health.json; 0 is an empty or missing file
    Broken,        \* the ones that are not a valid table
    MaxSamples,    \* bound: times provider_stats.json is rewritten (0: missing)
    MaxUse,        \* bound: times the database is used between commands
    MaxBackups,    \* bound: backups made
    MaxPairs,      \* bound: different contents the two legacy files have together
    Nothing        \* no file; no content; no import

ASSUME MigrationAssumption ==
    /\ HealthFiles \subseteq Nat /\ 0 \in HealthFiles /\ Broken \subseteq HealthFiles \ {0}
    /\ MaxSamples \in Nat /\ MaxUse \in Nat /\ MaxBackups \in Nat /\ MaxPairs \in Nat

VARIABLES
    table, samples,       \* the bytes of the legacy files
    main, wal, secret,    \* the database's files
    backups,              \* [db, secret, sealed]: directories; sealed once the manifest is there
    step,                 \* where the command stands
    round,                \* which reading of the legacy files it is at
    hashes, read,         \* the first hashes; the tables that were read
    report,               \* what the last command said
    before,               \* state of the database when the command began (for the properties)
    pairs                 \* contents the legacy files had at one time (for the properties)

sources == <<table, samples>>
files   == <<main, wal, secret>>
command == <<step, round, hashes, read>>
migvars   == <<sources, files, backups, command, report, before, pairs>>

Unread == <<Nothing, Nothing>>

NewDb == [used |-> 0, import |-> Nothing]

\* What a reader of the database sees.
Effective == IF wal # Nothing THEN wal ELSE main
Seen      == [db |-> Effective, secret |-> secret]

Go(where) == step' = where

\* A command ends and forgets what it has read; a rollback that went well is remembered with
\* the backup it restored (for the properties).
Refusals == {"blocked", "unchanged", "ready", "degraded"}
Unseen   == [db |-> Nothing, secret |-> 0]

Reports(what) ==
    /\ Go("idle")
    /\ report' = what
    /\ hashes' = Unread /\ read' = Unread
    /\ round' = IF what = "rolled_back" THEN round ELSE 0
    /\ before' = IF what \in Refusals THEN before ELSE Unseen

Proceed(where) == Go(where) /\ UNCHANGED <<report, round, hashes, read, before>>

\* SQLiteStateStore creates the database and the secret that are not there.
Opened == IF Effective = Nothing THEN NewDb ELSE Effective
Create == /\ main' = IF main = Nothing THEN NewDb ELSE main
          /\ secret' = IF secret = 0 THEN 1 ELSE secret

MigrationInit ==
    /\ table = 0 /\ samples = 0
    /\ main = Nothing /\ wal = Nothing /\ secret = 0
    /\ backups = <<>>
    /\ step = "idle" /\ round = 0
    /\ hashes = Unread /\ read = Unread
    /\ report = "none"
    /\ before = Unseen
    /\ pairs = {<<0, 0>>}

-----------------------------------------------------------------------------
(* Others                                                                  *)

\* _save_provider_health and _save_stats replace their file as a whole.
Rewrite ==
    /\ \/ \E bytes \in HealthFiles \ {table} : table' = bytes /\ UNCHANGED samples
       \/ samples < MaxSamples /\ samples' = samples + 1 /\ UNCHANGED table
    /\ pairs' = pairs \cup {<<table', samples'>>} /\ Cardinality(pairs') <= MaxPairs
    /\ UNCHANGED <<files, backups, command, report, before>>

\* A process uses the database: its writes stay in the log, as its connections do not
\* checkpoint when they close.
Use ==
    /\ step = "idle"
    /\ Opened.used < MaxUse
    /\ Create
    /\ wal' = [Opened EXCEPT !.used = @ + 1]
    /\ Reports("none")
    /\ UNCHANGED <<sources, backups, pairs>>

\* The log is written back into the main file.
Checkpointed == main' = Effective /\ wal' = Nothing

Checkpoint ==
    /\ step = "idle" /\ wal # Nothing
    /\ Checkpointed
    /\ UNCHANGED <<sources, secret, backups, command, report, before, pairs>>

-----------------------------------------------------------------------------
(* migrate_legacy_state                                                     *)

Apply ==
    /\ step = "idle"
    /\ Go("health") /\ round' = 1
    /\ report' = "none" /\ before' = Seen
    /\ hashes' = Unread /\ read' = Unread
    /\ UNCHANGED <<sources, files, backups, pairs>>

\* The legacy files are gone through seven times, one after the other: hashed, read, hashed
\* again, hashed before the backup, copied, hashed after it, and hashed before the import.
Hashing     == 1
Reading     == 2
Again       == 3
Copying     == 5
LastReading == 7

MustMatch(n) == n >= Again

Reached(n) == CASE n = Again -> "judge" [] n = 4 -> "backup" [] n = 6 -> "seal" [] n = LastReading -> "open" [] OTHER -> "health"

Look(where, i, bytes) ==
    /\ step = where
    /\ IF MustMatch(round) /\ hashes[i] # bytes
       THEN /\ Reports("blocked")
            /\ backups' = IF round \in {Copying, 6} THEN SubSeq(backups, 1, Len(backups) - 1) ELSE backups
       ELSE /\ hashes' = IF round = Hashing THEN [hashes EXCEPT ![i] = bytes] ELSE hashes
            /\ read'   = IF round = Reading THEN [read EXCEPT ![i] = bytes] ELSE read
            /\ UNCHANGED <<backups, report, before>>
            /\ IF i = 1 THEN Go("samples") /\ UNCHANGED round
               ELSE Go(Reached(round)) /\ round' = round + 1
    /\ UNCHANGED <<sources, files, pairs>>

LookHealth  == Look("health", 1, table)
LookSamples == Look("samples", 2, samples)

\* What sqlite_preflight finds: the migration's row, in the main file.
Imported == main # Nothing /\ main.import = read

\* Mutant: the store is opened, which makes its files.
DryRunOpens == Reports("ready") /\ Create /\ UNCHANGED wal

\* A dry run says what it would import.
DryRun == Reports("ready") /\ UNCHANGED files

\* The tables are normalized and the database is looked at: its main file only.
Judge ==
    /\ step = "judge"
    /\ \/ /\ \/ read[1] \in Broken /\ Reports("blocked")
             \/ read[1] \notin Broken /\ Reports("degraded")                       \* no usable database
             \/ (read = <<0, 0>> \/ Imported) /\ Reports("unchanged")
          /\ UNCHANGED files
       \/ /\ read[1] \notin Broken /\ read # <<0, 0>> /\ ~ Imported
          /\ DryRun \/ (Proceed("health") /\ UNCHANGED files)
    /\ UNCHANGED <<sources, backups, pairs>>

\* The copy is made by the database itself, which reads its log.
Copied == Effective

\* A backup that fails half-way is removed, and its command blocked.
Backup ==
    /\ step = "backup"
    /\ Len(backups) < MaxBackups
    /\ \/ Proceed("health") /\ backups' = Append(backups, [db |-> Copied, secret |-> secret, was |-> before, sealed |-> FALSE])
       \/ Reports("blocked") /\ UNCHANGED backups
    /\ UNCHANGED <<sources, files, pairs>>

Seal ==
    /\ step = "seal"
    /\ backups' = [backups EXCEPT ![Len(backups)].sealed = TRUE]
    /\ Proceed("health")
    /\ UNCHANGED <<sources, files, pairs>>

\* The store is opened; it may not be available, or fail once it has made its files.
Open ==
    /\ step = "open"
    /\ \/ Proceed("undo") /\ UNCHANGED files
       \/ Create /\ (Proceed("import") \/ Proceed("undo")) /\ UNCHANGED wal
    /\ UNCHANGED <<sources, backups, pairs>>

\* Both tables and the migration's row in one transaction.
Import ==
    /\ step = "import"
    /\ \/ Proceed("undo") /\ UNCHANGED wal
       \/ Proceed("close") /\ wal' = [Effective EXCEPT !.import = read]
    /\ UNCHANGED <<sources, main, secret, backups, pairs>>

\* The connection is closed, which checkpoints unless another one is open; then the modes
\* of the files are set, and even that may fail.
Close ==
    /\ step = "close"
    /\ Checkpointed \/ UNCHANGED <<main, wal>>
    /\ Reports("applied") \/ Proceed("undo")
    /\ UNCHANGED <<sources, secret, backups, pairs>>

\* A failed import is rolled back from the backup just made.
Undo ==
    /\ step = "undo"
    /\ Go("drop") /\ round' = Len(backups)
    /\ UNCHANGED <<sources, files, backups, hashes, read, report, before, pairs>>

-----------------------------------------------------------------------------
(* rollback_legacy_state; round is the backup it restores                    *)

Rollback ==
    /\ step = "idle"
    /\ \E i \in DOMAIN backups :
        \/ backups[i].sealed /\ Go("drop") /\ round' = i /\ report' = "none" /\ UNCHANGED <<hashes, read, before>>
        \/ ~ backups[i].sealed /\ Reports("none")   \* refused: nothing has been touched
    /\ UNCHANGED <<sources, files, backups, pairs>>

\* Restoring may fail for want of space or rights.
Fail == Reports("failed")

DropLog ==
    /\ step = "drop"
    /\ \/ Proceed("restore") /\ wal' = Nothing
       \/ Fail /\ UNCHANGED wal
    /\ UNCHANGED <<sources, main, secret, backups, pairs>>

Restored == backups[round].db

RestoreDb ==
    /\ step = "restore"
    /\ \/ Proceed("secret") /\ main' = Restored
       \/ Fail /\ UNCHANGED main
    /\ UNCHANGED <<sources, wal, secret, backups, pairs>>

RestoreSecret ==
    /\ step = "secret"
    /\ \/ /\ Reports(IF hashes = Unread THEN "rolled_back" ELSE "degraded")
          /\ secret' = backups[round].secret
       \/ Fail /\ UNCHANGED secret
    /\ UNCHANGED <<sources, main, wal, backups, pairs>>

\* The command's process dies.
Killed ==
    /\ step # "idle"
    /\ Reports("none")
    /\ UNCHANGED <<sources, files, backups, pairs>>

MigrationNext ==
    \/ Rewrite \/ Use \/ Checkpoint \/ Killed
    \/ Apply \/ LookHealth \/ LookSamples \/ Judge \/ Backup \/ Seal \/ Open \/ Import \/ Close \/ Undo
    \/ Rollback \/ DropLog \/ RestoreDb \/ RestoreSecret

MigrationSpec == MigrationInit /\ [][MigrationNext]_migvars

-----------------------------------------------------------------------------
(* Correctness                                                             *)

\* What is in the database as imported is one content the two files had together, though
\* each is read at a time of its own while others rewrite them (migrate_legacy_state's
\* repeated hashing).
ImportIsOnePair ==
    \A content \in {main, wal} \ {Nothing} : content.import \in pairs \cup {Nothing}

\* A rollback that reports success has brought back the database and the secret as they were
\* when the backup's command began, log included, whatever died or was done in between
\* (_create_backup and rollback_legacy_state).
RollbackRestores ==
    report = "rolled_back" => Seen = backups[round].was

\* A command that imported nothing leaves the database and the secret as it found them; so
\* does one whose import failed after it had created or changed them (the reports of
\* migrate_legacy_state).
RefusedLeavesState ==
    report \in Refusals => Seen = before

\* The three promises of the migration commands: what was imported is one pair, what is
\* rolled back is what was backed up, what is refused changes nothing.
MigrationSound == ImportIsOnePair /\ RollbackRestores /\ RefusedLeavesState
=============================================================================
