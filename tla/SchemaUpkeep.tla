----------------------------- MODULE SchemaUpkeep -----------------------------
(***************************************************************************)
(* The commands an operator runs on the database file, each a process of   *)
(* its own: migrate up and down (MigrationRunner of components/backup),    *)
(* backup (Dump) and restore (Restore), while the server goes on writing.   *)
(* A migration and the row that records it are two statements without a     *)
(* transaction, a dump reads one table after the other, a restore is one    *)
(* transaction of the dump's own making; a statement may fail and a command *)
(* may be killed anywhere.  Each migration makes one table.                 *)
(***************************************************************************)
EXTENDS Naturals, FiniteSets, FiniteSetsExt

CONSTANTS
    Versions,       \* the migrations in the directory, by number
    MaxCommands,    \* bound: commands run
    MaxRowWrites    \* bound: transactions of the server

ASSUME UpkeepBounds ==
    Versions \subseteq Nat \ {0} /\ IsFiniteSet(Versions) /\ {MaxCommands, MaxRowWrites} \subseteq Nat

VARIABLES
    schema,         \* how much of each migration the database has
    recorded,       \* schema_migrations
    pair,           \* two tables the server always writes in one transaction
    dump,           \* the dump file, as far as it was written
    cli,            \* the command under way and where it is
    rowWrites,      \* transactions so far; also what the server writes
    commands,       \* bound: commands so far
    adrift,         \* auxiliary: versions that a failure, a kill or a restore left behind
    torn            \* auxiliary: the two tables are those of a dump the server wrote into

database == <<schema, recorded, pair>>
upkeepVars == <<schema, recorded, pair, dump, cli, rowWrites, commands, adrift, torn>>

NoDump == [state |-> "none", first |-> 0, second |-> 0, recorded |-> {}, tables |-> {}, adrift |-> {}]
NoCli == [at |-> "idle", known |-> {}, version |-> 0]

UpkeepInit ==
    /\ schema = [v \in Versions |-> "no"]
    /\ recorded = {}
    /\ pair = [first |-> 0, second |-> 0]
    /\ dump = NoDump
    /\ cli = NoCli
    /\ rowWrites = 0 /\ commands = 0
    /\ adrift = {}
    /\ torn = FALSE

\* The restore holds SQLite's write lock from its first statement; the server's
\* transaction fails meanwhile.
ServerWrites ==
    /\ rowWrites < MaxRowWrites /\ cli.at # "restoring"
    /\ rowWrites' = rowWrites + 1
    /\ pair' = [first |-> rowWrites + 1, second |-> rowWrites + 1]
    /\ torn' = FALSE
    /\ UNCHANGED <<schema, recorded, dump, cli, commands, adrift>>

BeginCommand(c) ==
    /\ cli.at = "idle" /\ commands < MaxCommands
    /\ commands' = commands + 1 /\ cli' = c
EndCommand == cli' = NoCli

----------------------------------------------------------------------------
(* migrate up.                                                              *)

\* Up reads schema_migrations once
MigrateUp ==
    /\ BeginCommand([at |-> "up", known |-> recorded, version |-> 0])
    /\ UNCHANGED <<database, dump, rowWrites, adrift, torn>>

\* and takes the files in the order of their numbers (listFiles).
Pending == {v \in Versions : v \notin cli.known /\ v > cli.version}

\* An Up that goes on to the record when a statement failed.
ApplyCarelessly ==
    /\ cli.at = "up" /\ Pending # {}
    /\ \/ schema' = [schema EXCEPT ![Min(Pending)] = "yes"]
       \/ schema' = [schema EXCEPT ![Min(Pending)] = "part"]
    /\ cli' = [cli EXCEPT !.at = "record", !.version = Min(Pending)]
    /\ UNCHANGED <<recorded, pair, dump, rowWrites, commands, adrift, torn>>

\* The file's statements; one that fails, because the table exists or by itself, ends the
\* command and the ones before it stay.
ApplyNext ==
    /\ cli.at = "up" /\ Pending # {}
    /\ LET v == Min(Pending)
       IN  \/ /\ schema[v] = "no"
              /\ schema' = [schema EXCEPT ![v] = "yes"]
              /\ cli' = [cli EXCEPT !.at = "record", !.version = v]
              /\ UNCHANGED adrift
           \/ /\ schema' = [schema EXCEPT ![v] = IF @ = "no" THEN "part" ELSE @]
              /\ adrift' = adrift \cup {v} /\ EndCommand
    /\ UNCHANGED <<recorded, pair, dump, rowWrites, commands, torn>>

RecordVersion ==
    /\ cli.at = "record"
    /\ \/ recorded' = recorded \cup {cli.version} /\ cli' = [cli EXCEPT !.at = "up"] /\ UNCHANGED adrift
       \/ adrift' = adrift \cup {cli.version} /\ EndCommand /\ UNCHANGED recorded
    /\ UNCHANGED <<schema, pair, dump, rowWrites, commands, torn>>

UpEnds ==
    /\ cli.at = "up" /\ Pending = {} /\ EndCommand
    /\ UNCHANGED <<database, dump, rowWrites, commands, adrift, torn>>

----------------------------------------------------------------------------
(* migrate down: the latest version recorded, its file, its row.            *)

MigrateDown ==
    /\ recorded # {}
    /\ BeginCommand([at |-> "down", known |-> {}, version |-> Max(recorded)])
    /\ UNCHANGED <<database, dump, rowWrites, adrift, torn>>

Revert ==
    /\ cli.at = "down"
    /\ \/ /\ schema' = [schema EXCEPT ![cli.version] = "no"]
          /\ cli' = [cli EXCEPT !.at = "unrecord"] /\ UNCHANGED adrift
       \/ /\ schema' = [schema EXCEPT ![cli.version] = IF @ = "yes" THEN "part" ELSE @]
          /\ adrift' = adrift \cup {cli.version} /\ EndCommand
    /\ UNCHANGED <<recorded, pair, dump, rowWrites, commands, torn>>

Unrecord ==
    /\ cli.at = "unrecord" /\ EndCommand
    /\ \/ recorded' = recorded \ {cli.version} /\ UNCHANGED adrift
       \/ adrift' = adrift \cup {cli.version} /\ UNCHANGED recorded
    /\ UNCHANGED <<schema, pair, dump, rowWrites, commands, torn>>

----------------------------------------------------------------------------
(* backup: os.Create empties the file; Dump lists the tables, then reads each *)
(* by a query of its own, and only the last line makes the file whole.        *)

RunBackup ==
    /\ BeginCommand([NoCli EXCEPT !.at = "dump1"])
    /\ dump' = [NoDump EXCEPT !.state = "part", !.adrift = adrift,
                             !.tables = {v \in Versions : schema[v] = "yes"}]
    /\ UNCHANGED <<database, rowWrites, adrift, torn>>

DumpTable ==
    /\ \/ /\ cli.at = "dump1"
          /\ dump' = [dump EXCEPT !.first = pair.first, !.recorded = recorded]
          /\ cli' = [cli EXCEPT !.at = "dump2"]
       \/ /\ cli.at = "dump2"
          /\ dump' = [dump EXCEPT !.second = pair.second, !.state = "whole"]
          /\ EndCommand
    /\ UNCHANGED <<database, rowWrites, commands, adrift, torn>>

----------------------------------------------------------------------------
(* restore: the dump's own BEGIN and COMMIT make it a transaction.            *)

RunRestore ==
    /\ dump.state # "none"
    /\ BeginCommand([NoCli EXCEPT !.at = "restoring"])
    /\ UNCHANGED <<database, dump, rowWrites, adrift, torn>>

\* Restore: tables of the dump are dropped and made again, tables it does not know stay;
\* a statement that fails ends the process and the open transaction with it, and so does
\* the end of a dump that has no COMMIT, which is reported as complete.
RestoreDump ==
    /\ cli.at = "restoring" /\ EndCommand
    /\ \/ /\ dump.state = "whole"
          /\ pair' = [first |-> dump.first, second |-> dump.second]
          /\ recorded' = dump.recorded
          /\ schema' = [v \in Versions |-> IF v \in dump.tables THEN "yes" ELSE schema[v]]
          /\ adrift' = dump.adrift \cup {v \in Versions \ dump.tables : schema[v] # "no"}
          /\ torn' = (dump.first # dump.second)
       \/ UNCHANGED <<database, adrift, torn>>
    /\ UNCHANGED <<dump, rowWrites, commands>>

\* The process of the command is killed between two statements.
KillCommand ==
    /\ cli.at # "idle" /\ EndCommand
    /\ adrift' = adrift \cup (IF cli.at \in {"record", "unrecord"} THEN {cli.version} ELSE {})
    /\ UNCHANGED <<database, dump, rowWrites, commands, torn>>

UpkeepNext ==
    \/ ServerWrites
    \/ MigrateUp \/ ApplyNext \/ RecordVersion \/ UpEnds
    \/ MigrateDown \/ Revert \/ Unrecord
    \/ RunBackup \/ DumpTable \/ RunRestore \/ RestoreDump \/ KillCommand

UpkeepSpec == UpkeepInit /\ [][UpkeepNext]_upkeepVars

----------------------------------------------------------------------------
UpkeepTypeOK ==
    /\ schema \in [Versions -> {"no", "part", "yes"}]
    /\ recorded \subseteq Versions /\ adrift \subseteq Versions
    /\ dump.state \in {"none", "part", "whole"}
    /\ cli.at \in {"idle", "up", "record", "down", "unrecord", "dump1", "dump2", "restoring"}

\* schema_migrations and the schema agree on every version that no failed or killed
\* command and no restore has left adrift, and the version under way; and the server's two
\* tables agree unless a dump that was torn by the server's writes was restored (Up, Down,
\* Restore: a restore changes everything or nothing).
UpkeepSound ==
    /\ \A v \in Versions \ adrift :
           (schema[v] = "yes") = (v \in recorded) \/ (cli.at \in {"record", "unrecord"} /\ v = cli.version)
    /\ pair.first # pair.second => torn

=============================================================================
