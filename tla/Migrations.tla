------------------------------ MODULE Migrations ------------------------------
(***************************************************************************)
(* MigrationRunner: migrations and seeders applied to the schema by any    *)
(* number of console processes, and the file deploy.json that records what *)
(* has been applied.                                                       *)
(*                                                                         *)
(* A migration is its place in the order of file names.  Its up() makes    *)
(* what is called its table here, one or several tables or columns, and    *)
(* its down() drops them.  MySQL commits each such statement by itself, so *)
(* a file that throws may leave a part behind.  An up() throws where its   *)
(* table is there, unless the file is Idempotent; one of the Backfills     *)
(* makes no table, it changes another one as far as that is still to do.   *)
(*                                                                         *)
(* deploy.json is loaded without a lock, kept in memory for the whole      *)
(* command and written back after each file; the rollback entries it       *)
(* collects are never read and are left out.  An entry, like a table, has  *)
(* its place in the order as the set of those before it.                   *)
(***************************************************************************)
EXTENDS Naturals, FiniteSetsExt

CONSTANTS
  Procs,
  NumMigrations, \* migration files there may be, in the order of their names
  Idempotent,    \* those whose up() takes what is there for done (createIfNotExists)
  Backfills,     \* of these the ones with no table of their own, whose down() does nothing
  Targets,       \* [Backfills -> SUBSET migrations]: the tables such a file changes
  Seeders,       \* seeders, each a number
  Fills,         \* [Seeders -> migrations]: the table a seeder writes to
  Commands,      \* the commands that are run
  Alone,         \* those nobody runs beside another command
  Empty,         \* a truncated deploy.json
  None,
  MaxSteps,      \* bound: the argument of migrate:rollback --step
  MaxCommands,   \* bound: commands begun
  MaxKills       \* bound: processes killed

AllCommands == {"migrate", "rollback", "reset", "fresh", "seed"}
AllMigrations == 1..NumMigrations

VARIABLES
  present, \* the migration files that exist by now
  tables,  \* the tables of the database, each after those that were there
  filled,  \* seeders whose rows are there
  deploy,  \* contents of deploy.json, or Empty
  writer,  \* the process in the middle of writing it, or None
  cmd, pc,
  steps,   \* batches a rollback goes back
  mem,     \* deployData of each process
  batch,   \* the batch of its migrations
  todo,    \* the files it has still to do
  file,    \* the file in hand, 0 when there is none
  lost,    \* history: tables made or dropped by commands that could not record it
  cut,     \* history: a process was killed while deploy.json was truncated
  beside,  \* history: commands that ran beside another one, and "idempotent" if one of
           \* these had such a file to do
  commands, kills

history == <<lost, cut, beside>>
counts == <<commands, kills>>
procs == <<cmd, pc, steps, mem, batch, todo, file>>
vars == <<present, tables, filled, deploy, writer, procs, history, counts>>

\* The entries of deploy.json with status "migrated", and the files of those with "seeded".
Entries == [file: AllMigrations, batch: Nat, after: SUBSET AllMigrations]
Data == [migrated: SUBSET Entries, seeded: SUBSET Seeders]
Nothing == [migrated |-> {}, seeded |-> {}]

FilesOf(S) == {e.file : e \in S}
\* S and a new e, after all the others; S without the files F.
With(S, e) == S \cup {[e EXCEPT !.after = FilesOf(S)]}
Without(S, F) == {[e EXCEPT !.after = @ \ F] : e \in {e \in S : e.file \notin F}}

TypeOK ==
  /\ present \subseteq AllMigrations
  /\ tables \subseteq [file: AllMigrations, after: SUBSET AllMigrations]
  /\ \A t, u \in tables : t.file = u.file => t = u
  /\ filled \subseteq Seeders
  /\ deploy \in Data \cup {Empty}
  /\ writer \in Procs \cup {None} /\ (writer # None => deploy = Empty)
  /\ cmd \in [Procs -> AllCommands \cup {None}]
  /\ pc \in [Procs -> {"idle", "load", "run", "reload", "drop", "save", "write"}]
  /\ steps \in [Procs -> Nat] /\ mem \in [Procs -> Data] /\ batch \in [Procs -> Nat]
  /\ todo \in [Procs -> SUBSET Nat] /\ file \in [Procs -> Nat]
  /\ lost \subseteq AllMigrations /\ cut \in BOOLEAN /\ beside \subseteq AllCommands \cup {"idempotent"}
  /\ commands \in 0..MaxCommands /\ kills \in 0..MaxKills

Init ==
  /\ present = {} /\ tables = {} /\ filled = {} /\ deploy = Nothing /\ writer = None
  /\ cmd = [p \in Procs |-> None] /\ pc = [p \in Procs |-> "idle"]
  /\ steps = [p \in Procs |-> 0] /\ mem = [p \in Procs |-> Nothing]
  /\ batch = [p \in Procs |-> 0] /\ todo = [p \in Procs |-> {}] /\ file = [p \in Procs |-> 0]
  /\ lost = {} /\ cut = FALSE /\ beside = {} /\ commands = 0 /\ kills = 0

-----------------------------------------------------------------------------
Loaded == IF deploy = Empty THEN Nothing ELSE deploy

Migrated(d) == FilesOf(d.migrated)
LastBatch(d) == Max({0} \cup {e.batch : e \in d.migrated})

PendingMigrations(d) == present \ Migrated(d)
PendingSeeders(d) == Seeders \ d.seeded

\* The last s batches of d.
ToRollBack(d, s) == FilesOf({e \in d.migrated : LastBatch(d) < e.batch + s})

\* Mutant: the batches are rolled back in the order they were applied.
RollsBackForward(p, f) ==
  IF cmd[p] = "rollback"
  THEN \A e \in mem[p].migrated : e.file = f => e.after \cap todo[p] = {}
  ELSE \A g \in todo[p] : f <= g

\* Files are done in the order of their names, and undone in the reverse of the order in
\* which they were done.
IsFirst(p, f) ==
  IF cmd[p] = "rollback"
  THEN \A e \in mem[p].migrated : e.file \in todo[p] => f \notin e.after
  ELSE \A g \in todo[p] : f <= g
First(p) == {f \in todo[p] : IsFirst(p, f)}

Running == {p \in Procs : pc[p] # "idle"}
Repeatable(F) == IF F \cap Idempotent = {} THEN {} ELSE {"idempotent"}
GoTo(p, l) == pc' = [pc EXCEPT ![p] = l]

\* The command is over, and its process with it.
Exit(p) ==
  /\ GoTo(p, "idle") /\ cmd' = [cmd EXCEPT ![p] = None]
  /\ steps' = [steps EXCEPT ![p] = 0] /\ mem' = [mem EXCEPT ![p] = Nothing]
  /\ batch' = [batch EXCEPT ![p] = 0] /\ todo' = [todo EXCEPT ![p] = {}]
  /\ file' = [file EXCEPT ![p] = 0]

\* Between commands a new migration file arrives, with a name before or after the others.
Release(f) ==
  /\ Running = {} /\ f \in AllMigrations \ present
  /\ present' = present \cup {f}
  /\ UNCHANGED <<tables, filled, deploy, writer, procs, history, counts>>

\* A command of the console: fresh drops the tables first, the others load deploy.json.
\* Nothing in the code keeps two commands apart; Alone is what the operators do.
Begin(p, c) ==
  /\ pc[p] = "idle" /\ commands < MaxCommands /\ c \in Commands
  /\ \A q \in Running : c \notin Alone /\ cmd[q] \notin Alone
  /\ commands' = commands + 1
  /\ beside' = beside \cup (IF Running = {} THEN {} ELSE {c} \cup {cmd[q] : q \in Running})
                       \cup Repeatable(UNION {todo[q] : q \in Running})
  /\ cmd' = [cmd EXCEPT ![p] = c]
  /\ IF c = "rollback" THEN \E s \in 1..MaxSteps : steps' = [steps EXCEPT ![p] = s]
     ELSE UNCHANGED steps
  /\ GoTo(p, IF c = "fresh" THEN "drop" ELSE "load")
  /\ UNCHANGED <<present, tables, filled, deploy, writer, mem, batch, todo, file, lost, cut, kills>>

\* What a command has to do, by the deploy.json it has loaded.
Plan(p) ==
  CASE cmd[p] = "migrate" -> PendingMigrations(Loaded)
    [] cmd[p] = "seed" -> PendingSeeders(Loaded)
    [] OTHER -> ToRollBack(Loaded, steps[p])

\* deploy.json is read and the work planned; reset() reads it and calls rollback().
Load(p) ==
  /\ pc[p] = "load"
  /\ beside' = beside \cup (IF Running = {p} THEN {} ELSE Repeatable(Plan(p)))
  /\ IF cmd[p] = "reset" /\ Loaded.migrated # {}
     THEN /\ cmd' = [cmd EXCEPT ![p] = "rollback"]
          /\ steps' = [steps EXCEPT ![p] = LastBatch(Loaded)]
          /\ UNCHANGED <<pc, mem, batch, todo, file>>
     ELSE IF Plan(p) = {} THEN Exit(p)
     ELSE /\ mem' = [mem EXCEPT ![p] = Loaded]
          /\ todo' = [todo EXCEPT ![p] = Plan(p)]
          /\ batch' = [batch EXCEPT ![p] = LastBatch(Loaded) + 1]
          /\ GoTo(p, "run") /\ UNCHANGED <<cmd, steps, file>>
  /\ UNCHANGED <<present, tables, filled, deploy, writer, lost, cut, counts>>

\* The tables of F are gone, with their rows.
Drop(F) ==
  /\ tables' = Without(tables, F)
  /\ filled' = {s \in filled : Fills[s] \notin F}

\* fresh(): every table is dropped, and an empty deploy.json saved next.
DropAll(p) ==
  /\ pc[p] = "drop"
  /\ Drop(FilesOf(tables)) /\ GoTo(p, "save")
  /\ UNCHANGED <<present, deploy, writer, cmd, steps, mem, batch, todo, file, history, counts>>

\* An exception among the DROP statements ends the command, and so would a kill there.
DropFails(p) ==
  /\ pc[p] = "drop"
  /\ \E F \in SUBSET FilesOf(tables) : Drop(F) /\ lost' = lost \cup F
  /\ Exit(p)
  /\ UNCHANGED <<present, deploy, writer, cut, beside, counts>>

\* Mutant: any migration leaves a table that exists as it is.
CreatesIfNotExists(f) ==
  \/ f \in Backfills \cup FilesOf(tables) /\ UNCHANGED tables
  \/ f \notin Backfills \cup FilesOf(tables) /\ tables' = With(tables, [file |-> f, after |-> {}])

\* up() makes a table that must not exist yet, takes it for done, or changes other ones (as
\* 20260502_012_add_user_directory_indexes adds the indexes that are missing).
Create(f) ==
  \/ f \in Backfills /\ Targets[f] \subseteq FilesOf(tables) /\ UNCHANGED tables
  \/ f \in Idempotent \ Backfills /\ f \in FilesOf(tables) /\ UNCHANGED tables
  \/ f \notin Backfills \cup FilesOf(tables) /\ tables' = With(tables, [file |-> f, after |-> {}])

\* The file in hand is done, and d is to be saved.
Done(p, f, d) ==
  /\ mem' = [mem EXCEPT ![p] = d]
  /\ file' = [file EXCEPT ![p] = f] /\ todo' = [todo EXCEPT ![p] = @ \ {f}]
  /\ GoTo(p, "save")
  /\ UNCHANGED <<present, deploy, writer, cmd, steps, batch, history, counts>>

Up(p) ==
  /\ pc[p] = "run" /\ cmd[p] = "migrate"
  /\ \E f \in First(p) :
       /\ Create(f) /\ UNCHANGED filled
       /\ Done(p, f, [mem[p] EXCEPT !.migrated = With(@, [file |-> f, batch |-> batch[p], after |-> {}])])

\* down() drops the table if it exists, with its rows; a backfill has none.
Down(p) ==
  /\ pc[p] = "run" /\ cmd[p] = "rollback"
  /\ \E f \in First(p) :
       /\ Drop({f})
       /\ Done(p, f, [mem[p] EXCEPT !.migrated = Without(@, {f})])

\* run() of a seeder needs its table.
Seed(p) ==
  /\ pc[p] = "run" /\ cmd[p] = "seed"
  /\ \E f \in First(p) :
       /\ Fills[f] \in FilesOf(tables)
       /\ filled' = filled \cup {f} /\ UNCHANGED tables
       /\ Done(p, f, [mem[p] EXCEPT !.seeded = @ \cup {f}])

\* up(), down() or run() throws, of itself or because of the table, before it has changed
\* anything: the command stops.
Fails(p) ==
  /\ pc[p] = "run" /\ Exit(p)
  /\ UNCHANGED <<present, tables, filled, deploy, writer, history, counts>>

\* It throws, or the process ends, between two of its statements.
PartlyFails(p) ==
  /\ pc[p] = "run"
  /\ \E f \in First(p) :
       \/ /\ cmd[p] = "migrate" /\ f \notin Backfills
          /\ Create(f) /\ lost' = lost \cup {f} /\ UNCHANGED filled
       \/ /\ cmd[p] = "rollback" /\ f \notin Backfills
          /\ Drop({f}) /\ lost' = lost \cup {f}
       \/ /\ cmd[p] = "seed" /\ Fills[f] \in FilesOf(tables)
          /\ filled' = filled \cup {f} /\ UNCHANGED <<tables, lost>>
  /\ Exit(p)
  /\ UNCHANGED <<present, deploy, writer, cut, beside, counts>>

\* file_put_contents(LOCK_EX): the file is locked and truncated, then written.
Truncate(p) ==
  /\ pc[p] = "save" /\ writer = None
  /\ writer' = p /\ deploy' = Empty
  /\ GoTo(p, "write")
  /\ UNCHANGED <<present, tables, filled, cmd, steps, mem, batch, todo, file, history, counts>>

\* The next file, or the end; fresh() goes on as migrate().
GoOn(p) ==
  IF cmd[p] = "fresh"
  THEN /\ cmd' = [cmd EXCEPT ![p] = "migrate"] /\ GoTo(p, "load")
       /\ UNCHANGED <<steps, mem, batch, todo, file>>
  ELSE IF todo[p] = {} THEN Exit(p)
  ELSE /\ GoTo(p, IF cmd[p] = "seed" THEN "reload" ELSE "run")
       /\ file' = [file EXCEPT ![p] = 0]
       /\ UNCHANGED <<cmd, steps, mem, batch, todo>>

\* Mutant: the command saves the data it loaded.
SavesLoaded(p) ==
  /\ pc[p] = "write"
  /\ deploy' = [mem[p] EXCEPT !.migrated = {e \in @ : e.batch < batch[p]}] /\ writer' = None
  /\ GoOn(p)
  /\ UNCHANGED <<present, tables, filled, history, counts>>

Save(p) ==
  /\ pc[p] = "write"
  /\ deploy' = mem[p] /\ writer' = None
  /\ GoOn(p)
  /\ UNCHANGED <<present, tables, filled, history, counts>>

\* seed() loads deploy.json again before the next file, and skips it if it is recorded.
Reload(p) ==
  /\ pc[p] = "reload"
  /\ \E f \in First(p) :
       IF f \notin Loaded.seeded
       THEN GoTo(p, "run") /\ mem' = [mem EXCEPT ![p] = Loaded] /\ UNCHANGED <<cmd, steps, batch, todo, file>>
       ELSE IF todo[p] = {f} THEN Exit(p)
       ELSE todo' = [todo EXCEPT ![p] = @ \ {f}] /\ UNCHANGED <<pc, mem, cmd, steps, batch, file>>
  /\ UNCHANGED <<present, tables, filled, deploy, writer, history, counts>>

Killed(p) ==
  /\ pc[p] # "idle" /\ kills < MaxKills
  /\ kills' = kills + 1
  /\ Exit(p)
  /\ lost' = lost \cup (IF pc[p] \notin {"save", "write"} \/ cmd[p] = "seed" THEN {}
                        ELSE IF cmd[p] = "fresh" THEN AllMigrations ELSE {file[p]})
  /\ cut' = (cut \/ pc[p] = "write")
  /\ writer' = IF writer = p THEN None ELSE writer
  /\ UNCHANGED <<present, tables, filled, deploy, beside, commands>>

-----------------------------------------------------------------------------
Next ==
  \/ \E p \in Procs :
       \/ Load(p) \/ DropAll(p) \/ DropFails(p) \/ Up(p) \/ Down(p) \/ Seed(p) \/ Fails(p)
       \/ PartlyFails(p) \/ Truncate(p) \/ Save(p) \/ Reload(p) \/ Killed(p)
       \/ \E c \in Commands : Begin(p, c)
  \/ \E f \in AllMigrations : Release(f)

Spec == Init /\ [][Next]_vars

-----------------------------------------------------------------------------
(* Properties. *)

\* No command was stopped between a table and its record, nor within a file; of the commands
\* that ran side by side none was anything but migrate, and none had an idempotent file to do.
Orderly == lost = {} /\ ~cut /\ beside \subseteq {"migrate"}

\* The tables d tells of: a backfill has none.
Order(S) == {[file |-> e.file, after |-> e.after] : e \in S}
Schema(d) == Order(Without(d.migrated, Backfills))

\* Between commands deploy.json lists the tables of the database in the order they were
\* created ("Tracks migration/seeder state in a flat JSON file"), however many processes
\* migrate at once: of two with the same file to do, the one that finds its table there throws.
\* That is no help with an idempotent file (two processes with one to do may drop entries of
\* each other), nor with a file that throws after a part of its statements: Orderly excepts both.
RecordIsTheSchema == Orderly /\ Running = {} => deploy # Empty /\ Schema(deploy) = tables

\* A rollback undoes the latest migration that is left (rollback(), reset()).
RollsBackTheLatest ==
  [][\A p \in Procs : Orderly /\ Down(p) => \A t \in tables' : t \in tables]_vars

\* After a command that was cut short, only the tables it was working on are recorded wrongly,
\* unless it was killed while it wrote deploy.json, or commands ran side by side: the
\* unrecorded table no longer stops the second of two migrate processes.
OnlyTheLostIsOff ==
  Running = {} /\ ~cut /\ beside = {} =>
    /\ Migrated(Loaded) \ (Backfills \cup FilesOf(tables)) \subseteq lost
    /\ FilesOf(tables) \ Migrated(Loaded) \subseteq lost

\* The record is what the commands take it for: it tells the schema, and the state has its
\* shape (MigrationRunner::saveDeployData).
RecordIsSound == TypeOK /\ RecordIsTheSchema
=============================================================================
