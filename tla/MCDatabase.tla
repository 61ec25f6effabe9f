------------------------------ MODULE MCDatabase ------------------------------
(* The database on small instances: the calls that open transactions, and the     *)
(* migrations that make its tables.  Neither touches the state of the other, so a *)
(* behaviour is about one of them: where the program makes no calls, the          *)
(* processes are consoles that migrate.                                           *)
EXTENDS MCTransactions

CONSTANTS NumMigrations, Idempotent, Backfills, Targets, Seeders, Fills, Commands, Alone, Empty, MaxSteps, MaxCommands, MaxKills

VARIABLES present, tables, filled, deploy, writer, cmd, pc, steps, mem, batch, todo, file,
          lost, cut, beside, commands, kills

Mig == INSTANCE Migrations WITH Procs <- Conns

\* Files, seeders and commands are what they are, and the values that stand for nothing are
\* none of those.
ASSUME DatabaseAssumption ==
  /\ Backfills \subseteq Idempotent /\ Idempotent \subseteq Mig!AllMigrations
  /\ Targets \in [Backfills -> SUBSET Mig!AllMigrations]
  /\ NumMigrations \in Nat /\ Seeders \subseteq Nat /\ Fills \in [Seeders -> Mig!AllMigrations]
  /\ Alone \subseteq Commands /\ Commands \subseteq Mig!AllCommands
  /\ None \notin Conns \cup Mig!AllCommands /\ Empty \notin Mig!Data
  /\ {MaxSteps, MaxCommands, MaxKills} \subseteq Nat

DatabasePrograms == MCPrograms \cup {{}}
TargetFirst == [f \in Backfills |-> {1}]
FillFirst == [s \in Seeders |-> 1]

schemaVars == <<present, tables, filled, deploy, writer, cmd, pc, steps, mem, batch, todo, file,
                lost, cut, beside, commands, kills>>

DatabaseInit == Init /\ Mig!Init

DatabaseNext ==
  \/ calls # {} /\ Next /\ UNCHANGED schemaVars
  \/ calls = {} /\ Mig!Next /\ UNCHANGED vars

DatabaseSpec == DatabaseInit /\ [][DatabaseNext]_<<vars, schemaVars>>

(* ------------------------------ properties ------------------------------- *)
\* Between commands deploy.json tells the schema, however many processes migrate at once, unless
\* a file threw half way or one of these processes had an idempotent one to do
\* (MigrationRunner::saveDeployData).
RecordIsSound == Mig!RecordIsSound

\* What a command that was cut short leaves wrong are the tables it was working on.
OnlyTheLostIsOff == Mig!OnlyTheLostIsOff

\* A rollback undoes the latest migration that is left (MigrationRunner::rollback).
RollsBackTheLatest == Mig!RollsBackTheLatest
===============================================================================
