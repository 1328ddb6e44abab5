------------------------------- MODULE Backup -------------------------------
(***************************************************************************)
(* The backup service (backup_daemon.py), the tools it and the operator    *)
(* use (storage_tools.py), and the database file they copy and replace.    *)
(*                                                                         *)
(* The service and the bot are two processes; each may die between any two *)
(* steps.  A file is represented by the number of the committed state it   *)
(* holds, 0 when it holds none: half written, or a mixture.  A backup is   *)
(* named by the wall clock at the second its making began.                 *)
(*                                                                         *)
(* SQLite keeps a rollback journal while the bot writes.  A bot that dies  *)
(* in a write leaves both; the next one to open the file for writing puts  *)
(* the old pages back, into whatever file has the name by then.            *)
(***************************************************************************)
EXTENDS Naturals, FiniteSets

CONSTANTS Retention,   \* BACKUP_RETENTION_COUNT
          MaxClock,    \* bound: the wall clock
          MaxStates,   \* bound: states committed
          MaxSets      \* bound: how often the clock is set

ASSUME BackupOK ==
    /\ Retention \in Nat \ {0} /\ MaxClock \in Nat \ {0} /\ MaxStates \in Nat \ {0}
    /\ MaxSets \in Nat

VARIABLES
    clock, sets,   \* the wall clock, and how often it was set
    db, journal,   \* the database file; the state its journal rolls back to, 0 without one
    alien,         \* the journal is of another file, which a restore has replaced
    bot,           \* "up", "writes" or "down"
    last,          \* the states committed so far
    kept, holds,   \* the names in the directory, and per name what the file holds
    service,       \* the service: where it is, the name it makes, its temporary file,
                   \* and the names it is about to remove
    restore,       \* the restore tool: where it is, its temporary file
    made,          \* history: per name under which a backup was completed, the names of
                   \* those completed since
    origin         \* history: what the database should hold, 0 after an alien journal

bvars == <<clock, sets, db, journal, alien, bot, last, kept, holds, service, restore,
           made, origin>>

Names == 1..MaxClock
Down == [pc |-> "down", name |-> 0, temp |-> 0, doomed |-> {}]
Asleep == [Down EXCEPT !.pc = "asleep"]
NoRestore == [pc |-> "idle", temp |-> 0]

BackupInit ==
    /\ clock = 1 /\ sets = 0
    /\ db = 1 /\ journal = 0 /\ alien = FALSE /\ bot = "up" /\ last = 1
    /\ kept = {} /\ holds = [n \in Names |-> 0]
    /\ service = Asleep /\ restore = NoRestore
    /\ made = [n \in {} |-> {}] /\ origin = 1

database == <<db, journal, alien, bot, last, origin>>
directory == <<kept, holds, made>>

----------------------------------------------------------------------------
(* The backup service.                                                     *)

\* create_backup_once: the name is the time now.  Without a source it sleeps
\* and tries again: nothing changes.
BackupBegins ==
    /\ service.pc \in {"asleep", "failed"}
    /\ service' = [service EXCEPT !.pc = "copies", !.name = clock, !.temp = 0]
    /\ UNCHANGED <<clock, sets, database, directory, restore>>

\* backup_database: one consistent copy, which passes the integrity check.
\* The source is opened for reading, so a journal cannot be rolled back.
Copied ==
    /\ service.pc = "copies" /\ journal = 0 /\ db # 0
    /\ service' = [service EXCEPT !.pc = "checked", !.temp = db]
    /\ UNCHANGED <<clock, sets, database, directory, restore>>

\* Mutant: the names are sorted the other way round.
DoomedNewest(names) == {n \in names : Cardinality({k \in names : k < n}) >= Retention}

\* prune_backups: the names beyond the limit in descending order.
Doomed(names) == {n \in names : Cardinality({k \in names : k > n}) >= Retention}

\* A backup is completed: it is newer than all the others.
Completed(name) ==
    [n \in DOMAIN made \cup {name} |-> IF n = name THEN {} ELSE made[n] \cup {name}]

\* os.replace; the names to remove are listed next, and nobody else adds any.
Named ==
    /\ service.pc = "checked"
    /\ kept' = kept \cup {service.name} /\ made' = Completed(service.name)
    /\ holds' = [holds EXCEPT ![service.name] = service.temp]
    /\ service' = [service EXCEPT !.pc = "prunes", !.doomed = Doomed(kept')]
    /\ UNCHANGED <<clock, sets, database, restore>>

\* Mutant: the name stays on the list.
UnlinkAgain ==
    /\ service.pc = "prunes"
    /\ \E n \in service.doomed : kept' = kept \ {n}
    /\ UNCHANGED <<clock, sets, database, holds, service, made, restore>>

\* The file is removed, the newest of the doomed first.
Unlink ==
    /\ service.pc = "prunes"
    /\ \E n \in service.doomed :
        /\ \A k \in service.doomed : k =< n
        /\ kept' = kept \ {n}
        /\ service' = [service EXCEPT !.doomed = @ \ {n}]
    /\ UNCHANGED <<clock, sets, database, holds, made, restore>>

\* Mutant: one more is left than the limit says.
PrunedButOne ==
    /\ service.pc = "prunes" /\ Cardinality(service.doomed) =< 1
    /\ service' = Asleep
    /\ UNCHANGED <<clock, sets, database, directory, restore>>

Pruned ==
    /\ service.pc = "prunes" /\ service.doomed = {}
    /\ service' = Asleep
    /\ UNCHANGED <<clock, sets, database, directory, restore>>

\* Anything fails before the end: the temporary file goes, and the service
\* tries again later.
BackupFails ==
    /\ service.pc \in {"copies", "checked", "prunes"}
    /\ service' = [Asleep EXCEPT !.pc = "failed"]
    /\ UNCHANGED <<clock, sets, database, directory, restore>>

\* The service dies, or is stopped, and is started again.
ServiceDies ==
    /\ service.pc # "down"
    /\ service' = Down
    /\ UNCHANGED <<clock, sets, database, directory, restore>>
ServiceStarts ==
    /\ service.pc = "down"
    /\ service' = Asleep
    /\ UNCHANGED <<clock, sets, database, directory, restore>>

----------------------------------------------------------------------------
(* The bot and its database.                                               *)

WriteBegins ==
    /\ bot = "up" /\ last < MaxStates /\ db # 0
    /\ bot' = "writes" /\ journal' = db /\ db' = 0
    /\ UNCHANGED <<clock, sets, alien, last, origin, directory, service, restore>>

\* The commit: the journal is removed.
WriteEnds ==
    /\ bot = "writes"
    /\ bot' = "up" /\ last' = last + 1
    /\ db' = last + 1 /\ journal' = 0 /\ origin' = last + 1
    /\ UNCHANGED <<clock, sets, alien, directory, service, restore>>

\* The bot stops, or dies, in a write too.
BotEnds ==
    /\ bot # "down"
    /\ bot' = "down"
    /\ UNCHANGED <<clock, sets, db, journal, alien, last, origin, directory, service, restore>>

\* The bot starts and SQLite rolls a journal back: into the file it belongs
\* to, or into a restored one, which is a mixture then.
BotStarts ==
    /\ bot = "down" /\ restore.pc = "idle"
    /\ bot' = "up" /\ journal' = 0 /\ alien' = FALSE
    /\ db' = IF alien THEN 0 ELSE IF journal # 0 THEN journal ELSE db
    /\ origin' = IF alien THEN 0 ELSE origin
    /\ UNCHANGED <<clock, sets, last, directory, service, restore>>

----------------------------------------------------------------------------
(* The restore tool: the bot must be stopped first.                        *)

RestoreBegins(n) ==
    /\ bot = "down" /\ restore.pc = "idle" /\ n \in kept
    /\ restore' = [pc |-> "replaces", temp |-> holds[n]]
    /\ UNCHANGED <<clock, sets, database, directory, service>>

\* Mutant: the copy is made in place, and may be cut short.
RestoredInPlace ==
    /\ restore.pc = "replaces"
    /\ db' \in {0, restore.temp} /\ origin' = restore.temp
    /\ alien' = (journal # 0)
    /\ restore' = NoRestore
    /\ UNCHANGED <<clock, sets, journal, bot, last, directory, service>>

\* os.replace: the checked copy takes the place of the database.  A journal
\* beside it is left where it is.
Restored ==
    /\ restore.pc = "replaces"
    /\ db' = restore.temp /\ origin' = restore.temp
    /\ alien' = (journal # 0)
    /\ restore' = NoRestore
    /\ UNCHANGED <<clock, sets, journal, bot, last, directory, service>>

\* The tool fails or dies before that.
RestoreFails ==
    /\ restore.pc = "replaces"
    /\ restore' = NoRestore
    /\ UNCHANGED <<clock, sets, database, directory, service>>

----------------------------------------------------------------------------

ClockTick ==
    /\ clock < MaxClock
    /\ clock' = clock + 1
    /\ UNCHANGED <<sets, database, directory, service, restore>>

\* The clock of the host is set back.
ClockSet ==
    /\ sets < MaxSets
    /\ sets' = sets + 1
    /\ clock' \in 1..(clock - 1)
    /\ UNCHANGED <<database, directory, service, restore>>

BackupNext ==
    \/ BackupBegins \/ Copied \/ Named \/ Unlink \/ Pruned \/ BackupFails
    \/ ServiceDies \/ ServiceStarts
    \/ WriteBegins \/ WriteEnds \/ BotEnds \/ BotStarts
    \/ (\E n \in kept : RestoreBegins(n)) \/ Restored \/ RestoreFails
    \/ ClockTick \/ ClockSet

BackupSpec == BackupInit /\ [][BackupNext]_bvars

----------------------------------------------------------------------------
(* Correctness.                                                            *)

\* Every variable has its type.
BackupTypeOK ==
    /\ clock \in Names /\ sets \in 0..MaxSets
    /\ last \in 1..MaxStates /\ {db, journal, origin} \subseteq 0..last
    /\ bot \in {"up", "writes", "down"} /\ alien \in BOOLEAN
    /\ DOMAIN made \subseteq Names /\ made \in [DOMAIN made -> SUBSET DOMAIN made]
    /\ kept \subseteq DOMAIN made /\ holds \in [Names -> 0..last]
    /\ service \in [pc : {"down", "asleep", "failed", "copies", "checked", "prunes"},
                    name : 0..MaxClock, temp : 0..last, doomed : SUBSET kept]
    /\ restore \in [pc : {"idle", "replaces"}, temp : 0..last]

\* Every file with the name of a backup holds a state that was committed,
\* whatever died while it was made.
BackupsWhole == \A n \in kept : holds[n] # 0

\* As long as the clock is not set back, the backups made last, as many as
\* the limit, are all there: pruning takes the older ones, and a failed or
\* interrupted round takes none too many.
NewestKept ==
    sets = 0 => \A n \in DOMAIN made : Cardinality(made[n]) < Retention => n \in kept

\* A round that got through its pruning leaves as many as the limit, however
\* many rounds were cut short before it.
PrunedToLimit ==
    [][(service.pc = "prunes" /\ service'.pc = "asleep") => Cardinality(kept) =< Retention]_bvars

\* The database a bot works with is the state committed or restored last,
\* through crashes in a write and interrupted restores; unless a restore
\* replaced the file of a bot that had died in a write.
DatabaseWhole == bot = "up" => db = origin

\* No file is half copied, whatever is interrupted: neither a backup, nor the
\* database a bot works with.
NothingTorn == BackupsWhole /\ DatabaseWhole

=============================================================================
