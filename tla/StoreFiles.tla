----------------------------- MODULE StoreFiles -----------------------------
(***************************************************************************)
(* The files of metrics.db: how they are opened, checked, repaired, reset  *)
(* and moved aside, with crashes, power losses and a disk that damages     *)
(* them or cannot be read.                                                 *)
(*                                                                         *)
(* The agent (or db maintain) opens the store and uses it; db check, db    *)
(* repair and db reset are runs of their own, while the service is         *)
(* stopped.  A database is the number of its committed transactions: the   *)
(* first SchemaSteps are the statements of createSchema, each committed on *)
(* its own, of which the last one sets user_version; rows follow.  The     *)
(* write-ahead log holds those that are not in the database file yet.  The *)
(* -shm file is an index of the log which SQLite rebuilds; it is left out. *)
(***************************************************************************)
EXTENDS Integers

CONSTANTS
  SchemaSteps,       \* statements of createSchema
  MaxCommits,        \* bound on the transactions of one database
  MaxGen,            \* bound on the databases created
  MovesInterrupted,  \* whether moving files aside may stop halfway
  None               \* no file

ASSUME BoundAssumption ==
  SchemaSteps \in Nat \ {0} /\ MaxCommits \in Nat /\ SchemaSteps <= MaxCommits
  /\ MaxGen \in Nat \ {0}
ASSUME MoveAssumption == MovesInterrupted \in BOOLEAN

VARIABLES
  db,         \* metrics.db
  wal,        \* metrics.db-wal
  backups,    \* the files moved aside
  committed,  \* committed[g]: transactions of database g that no power loss undid
  proc,       \* the process that uses the store
  readable,   \* whether the disk answers reads
  said        \* what the command that ended last printed

vars == <<db, wal, backups, committed, proc, readable, said>>

Gens == 1 .. MaxGen
Commits == 0 .. MaxCommits

\* user_version is 1 to 3 in an obsolete database, more than 4 in a newer one.
Format == {"current", "obsolete", "newer"}

\* Damage to the header shows when the file is opened, to other pages in quick_check.
Database == [gen : Gens, n : Commits, format : Format, damage : {"none", "header", "pages"}]
Log == [gen : Gens, n : Commits]
Backup == [gen : Gens, n : Commits, part : {"db", "wal"}]

Commands == {"open", "check", "repair", "reset"}

\* again: the files were moved aside, and the store is opened once more.
Process == [cmd : Commands, again : BOOLEAN,
            stage : {"open", "schema", "verify", "check", "move", "moveWal", "running"}]
Idle == [stage |-> "idle"]

Answer == {"ok", "failed", "damaged", "run db repair", "unsupported"}
Said == [cmd : Commands, answer : Answer]

ASSUME NoneAssumption == None \notin Database \cup Log \cup Said

TypeOK ==
  /\ db \in Database \cup {None}
  /\ wal \in Log \cup {None}
  /\ backups \subseteq Backup
  /\ committed \in [Gens -> Commits]
  /\ proc \in Process \cup {Idle}
  /\ readable \in BOOLEAN
  /\ said \in Said \cup {None}

\* No database, one of this version with a row or two, or one of another version.
Init ==
  /\ \/ db = None /\ committed = [g \in Gens |-> 0]
     \/ \E n \in SchemaSteps .. MaxCommits, f \in Format :
          /\ db = [gen |-> 1, n |-> n, format |-> f, damage |-> "none"]
          /\ committed = [g \in Gens |-> IF g = 1 THEN n ELSE 0]
  /\ wal = None
  /\ backups = {}
  /\ proc = Idle
  /\ readable = TRUE
  /\ said = None

-----------------------------------------------------------------------------
Damaged == db # None /\ db.damage # "none"

\* The transactions a connection sees.
Seen == IF wal = None THEN db.n ELSE wal.n

\* A faulty variant: createSchema sets user_version first.
VersionFirst(n) == IF n >= 1 THEN 4 ELSE 0

\* user_version of a database that this version created.
Version(n) == IF n >= SchemaSteps THEN 4 ELSE 0

\* The database is one that the agent can use.
Complete == db # None /\ db.damage = "none" /\ db.format = "current" /\ Seen >= SchemaSteps

Used == {g \in Gens : committed[g] > 0 \/ (db # None /\ db.gen = g)
                      \/ (\E b \in backups : b.gen = g)}

\* The last connection is closed: SQLite copies the log into the file and deletes it.
CloseDB ==
  IF wal = None \/ db = None \/ db.damage = "header" THEN UNCHANGED <<db, wal>>
  ELSE /\ db' = [db EXCEPT !.n = wal.n]
       /\ wal' = None

GoTo(stage) == proc' = [proc EXCEPT !.stage = stage]

Ends(answer) ==
  /\ proc' = Idle
  /\ said' = [cmd |-> proc.cmd, answer |-> answer]

-----------------------------------------------------------------------------
(* Commands and the agent.                                                  *)

Start ==
  /\ proc = Idle
  /\ \E c \in Commands :
       proc' = [cmd |-> c, again |-> FALSE,
                stage |-> CASE c = "check" -> "check"
                            [] c = "reset" -> "move"
                            [] OTHER -> "open"]
  /\ said' = None
  /\ UNCHANGED <<db, wal, backups, committed, readable>>

\* openStoreDB finds no file: SQLite creates one, and deletes a log beside it.
CreateDB ==
  /\ proc.stage = "open"
  /\ db = None
  /\ readable
  /\ \E g \in Gens :
       /\ Used = 1 .. g - 1
       /\ db' = [gen |-> g, n |-> 0, format |-> "current", damage |-> "none"]
  /\ wal' = None
  /\ GoTo("schema")
  /\ UNCHANGED <<backups, committed, readable, said>>

\* A faulty variant: every error of opening is taken for damage.
RecoverableAlways == TRUE

\* recoverableStoreOpenError: SQLITE_CORRUPT and SQLITE_NOTADB.
Recoverable == readable /\ Damaged /\ db.damage = "header"

\* openStoreDB fails, before or after the files were moved aside.
OpenFails ==
  /\ proc.stage = "open"
  /\ \/ ~ readable
     \/ db # None /\ (db.damage = "header" \/ db.format # "current")
  /\ IF Recoverable /\ ~ proc.again
       THEN GoTo("move") /\ UNCHANGED said
       ELSE Ends(IF ~ readable THEN "failed"
                 ELSE IF db.damage = "header" THEN "damaged" ELSE "unsupported")
  /\ IF readable THEN CloseDB ELSE UNCHANGED <<db, wal>>
  /\ UNCHANGED <<backups, committed, readable>>

OpenDB ==
  /\ proc.stage = "open"
  /\ readable
  /\ db # None /\ db.damage # "header" /\ db.format = "current"
  /\ GoTo("schema")
  /\ UNCHANGED <<db, wal, backups, committed, readable, said>>

\* A transaction goes to the log; SQLite may move the log into the file.
Commit ==
  /\ Seen < MaxCommits
  /\ wal' = [gen |-> db.gen, n |-> Seen + 1]
  /\ committed' = [committed EXCEPT ![db.gen] = Seen + 1]
  /\ UNCHANGED db

\* createSchema: the next statement that is not void by IF NOT EXISTS.
CreateStatement ==
  /\ proc.stage = "schema"
  /\ Seen < SchemaSteps
  /\ Commit
  /\ UNCHANGED <<backups, proc, readable, said>>

\* createSchema ends.  The agent goes on, a repair checks a store it has not replaced.
SchemaDone ==
  /\ proc.stage = "schema"
  /\ Seen >= SchemaSteps
  /\ CASE proc.cmd = "open" -> /\ GoTo("running")
                               /\ UNCHANGED <<db, wal, said>>
       [] proc.cmd = "repair" /\ ~ proc.again -> /\ GoTo("verify")
                                                 /\ UNCHANGED <<db, wal, said>>
       [] OTHER -> Ends("ok") /\ CloseDB
  /\ UNCHANGED <<backups, committed, readable>>

\* A faulty variant: a store that opens is not checked.
VerifyNothing ==
  /\ proc.stage = "verify"
  /\ Ends("ok")
  /\ CloseDB
  /\ UNCHANGED <<backups, committed, readable>>

\* RepairDatabase: any issue or error of quick_check counts.
Verify ==
  /\ proc.stage = "verify"
  /\ IF ~ Damaged /\ readable
       THEN Ends("ok")
       ELSE GoTo("move") /\ UNCHANGED said
  /\ CloseDB
  /\ UNCHANGED <<backups, committed, readable>>

\* CheckDatabase: quick_check, then the version.
CheckDatabase ==
  /\ proc.stage = "check"
  /\ Ends(IF db = None \/ ~ readable THEN "failed"
          ELSE IF Damaged THEN "damaged"
          ELSE CASE db.format = "obsolete" -> "run db repair"
                 [] db.format = "current" /\ Version(Seen) = 4 -> "ok"
                 [] OTHER -> "unsupported")
  /\ IF db # None /\ readable THEN CloseDB ELSE UNCHANGED <<db, wal>>
  /\ UNCHANGED <<backups, committed, readable>>

\* A faulty variant: the old file is removed.
RemoveDB ==
  /\ proc.stage = "move"
  /\ db' = None
  /\ GoTo("moveWal")
  /\ UNCHANGED <<wal, backups, committed, readable, said>>

\* moveAsideStoreFiles: metrics.db first, under a name that holds the time.
MoveDB ==
  /\ proc.stage = "move"
  /\ backups' = backups \cup (IF db = None THEN {}
                              ELSE {[gen |-> db.gen, n |-> db.n, part |-> "db"]})
  /\ db' = None
  /\ GoTo("moveWal")
  /\ UNCHANGED <<wal, committed, readable, said>>

\* Then the log; after that the store is opened again.
MoveWal ==
  /\ proc.stage = "moveWal"
  /\ backups' = backups \cup (IF wal = None THEN {}
                              ELSE {[gen |-> wal.gen, n |-> wal.n, part |-> "wal"]})
  /\ wal' = None
  /\ proc' = [proc EXCEPT !.stage = "open", !.again = TRUE]
  /\ UNCHANGED <<db, committed, readable, said>>

\* A file cannot be renamed.
MoveFails ==
  /\ proc.stage = "move" \/ (proc.stage = "moveWal" /\ MovesInterrupted)
  /\ Ends("failed")
  /\ UNCHANGED <<db, wal, backups, committed, readable>>

\* The agent writes a row, SQLite makes a checkpoint, the agent closes the store.
WriteRow ==
  /\ proc.stage = "running"
  /\ Commit
  /\ UNCHANGED <<backups, proc, readable, said>>

Checkpoint ==
  /\ proc.stage = "running"
  /\ wal # None
  /\ db' = [db EXCEPT !.n = wal.n]
  /\ UNCHANGED <<wal, backups, committed, proc, readable, said>>

CloseStore ==
  /\ proc.stage = "running"
  /\ Ends("ok")
  /\ CloseDB
  /\ UNCHANGED <<backups, committed, readable>>

-----------------------------------------------------------------------------
(* The environment.                                                         *)

\* The process is killed; the log stays.
Crash ==
  /\ proc # Idle
  /\ proc.stage = "moveWal" => MovesInterrupted
  /\ proc' = Idle
  /\ UNCHANGED <<db, wal, backups, committed, readable, said>>

\* With synchronous = NORMAL the end of the log may be lost with the power.
PowerLoss ==
  /\ proc.stage = "moveWal" => MovesInterrupted
  /\ wal # None /\ db # None
  /\ \E n \in db.n .. wal.n - 1 :
       /\ wal' = [wal EXCEPT !.n = n]
       /\ committed' = [committed EXCEPT ![wal.gen] = n]
  /\ proc' = Idle
  /\ UNCHANGED <<db, backups, readable, said>>

\* The file is damaged while no command works on it.
Damage ==
  /\ proc.stage \in {"idle", "running"}
  /\ db # None /\ db.damage = "none"
  /\ \E d \in {"header", "pages"} : db' = [db EXCEPT !.damage = d]
  /\ UNCHANGED <<wal, backups, committed, proc, readable, said>>

DiskChanges ==
  /\ readable' = ~ readable
  /\ UNCHANGED <<db, wal, backups, committed, proc, said>>

-----------------------------------------------------------------------------
Next ==
  \/ Start \/ CreateDB \/ OpenFails \/ OpenDB \/ CreateStatement \/ SchemaDone
  \/ Verify \/ CheckDatabase \/ MoveDB \/ MoveWal \/ MoveFails
  \/ WriteRow \/ Checkpoint \/ CloseStore
  \/ Crash \/ PowerLoss \/ Damage \/ DiskChanges

Spec == Init /\ [][Next]_vars

-----------------------------------------------------------------------------
(* Properties.                                                              *)

\* What exists of database g: in place or moved aside, in the file or in the log.
Found(g) ==
  {x.n : x \in {y \in ({db, wal} \ {None}) \cup backups : y.gen = g}} \cup {0}

(***************************************************************************)
(* The old files are preserved: whatever was committed to a database, and  *)
(* no power loss undid, is in a file that exists, moved aside or in place. *)
(***************************************************************************)
NothingLost == \A g \in Gens : committed[g] \in Found(g)

(***************************************************************************)
(* Opening and db repair recreate a database only if it is damaged or      *)
(* cannot be read.                                                         *)
(***************************************************************************)
HealthyStays ==
  [][proc'.stage = "move" /\ proc.stage # "move" /\ proc.stage # "idle" =>
       Damaged \/ ~ readable]_vars

(***************************************************************************)
(* db check answers ok only for a database with the whole schema, even     *)
(* after a createSchema that was killed or lost its end.                   *)
(***************************************************************************)
CheckIsHonest ==
  [][proc.stage = "check" /\ said' = [cmd |-> "check", answer |-> "ok"] => Complete]_vars

(***************************************************************************)
(* A repair or a reset that answers ok leaves a sound database with the    *)
(* whole schema.                                                           *)
(***************************************************************************)
RepairRestores ==
  [][said' # said /\ said' # None /\ said'.answer = "ok" /\ said'.cmd \in {"repair", "reset"}
       => Complete']_vars

(***************************************************************************)
(* db repair does not refuse a database for which db check advises it.     *)
(***************************************************************************)
AdviceHelps ==
  said = [cmd |-> "repair", answer |-> "unsupported"] /\ db # None => db.format # "obsolete"

=============================================================================
