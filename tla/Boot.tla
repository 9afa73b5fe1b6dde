-------------------------------- MODULE Boot --------------------------------
(***************************************************************************)
(* The start of the process (main.rs): open the SQLite file, run Apalis's  *)
(* migrations, run the application's, then serve.  Both sets are recorded  *)
(* in the one table _sqlx_migrations, so each migrator finds versions that *)
(* are not its own and must be told to overlook them.                      *)
(*                                                                         *)
(* sqlx's Migrator is external: it refuses a database with a version it    *)
(* does not know unless ignore_missing is set, then applies and records    *)
(* its missing versions one by one.  The process may stop between any two  *)
(* of them, which is FeedRelay's Stop; so is a main that returns an error. *)
(***************************************************************************)

CONSTANTS
  ApalisMigrations,   \* versions of SqliteStorage::migrations()
  AppMigrations       \* versions under migrations/

ASSUME BootAssumption == ApalisMigrations \cap AppMigrations = {}

VARIABLES
  stage,      \* where main stands; "down" when there is no process
  applied     \* the versions in _sqlx_migrations

bootVars == <<stage, applied>>

Stages == {"down", "queue", "tables", "serving"}

BootTypeOK ==
  /\ stage \in Stages
  /\ applied \subseteq ApalisMigrations \cup AppMigrations

\* A first installation.
BootInit == stage = "down" /\ applied = {}

\* build_pool: the file is created if it is missing, and used as it is if not.
OpenPool ==
  /\ stage = "down"
  /\ stage' = "queue"
  /\ UNCHANGED applied

\* Migrator::run on the versions own, and the stage after it.
RunMigrator(own, ignoreMissing, next) ==
  \/ /\ ~ignoreMissing /\ ~(applied \subseteq own)
     /\ stage' = "down"
     /\ UNCHANGED applied
  \/ /\ ignoreMissing \/ applied \subseteq own
     /\ \/ \E version \in own \ applied : applied' = applied \cup {version}
        \/ own \subseteq applied /\ UNCHANGED applied
     /\ stage' = IF own \subseteq applied THEN next ELSE stage

\* Mutant: Apalis's own setup, which checks for unknown versions.
SetupStorageStrict ==
  /\ stage = "queue"
  /\ RunMigrator(ApalisMigrations, FALSE, "tables")

\* setup_storage
SetupStorage ==
  /\ stage = "queue"
  /\ RunMigrator(ApalisMigrations, TRUE, "tables")

\* run_migrations; then the credentials are checked, the port is bound and
\* the worker spawned.
RunMigrations ==
  /\ stage = "tables"
  /\ RunMigrator(AppMigrations, TRUE, "serving")

BootStep == OpenPool \/ SetupStorage \/ RunMigrations
=============================================================================
