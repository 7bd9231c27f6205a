-------------------------- MODULE StoreFilesProofs --------------------------
(***************************************************************************)
(* Proofs about StoreFiles: the type invariant, that no committed row is   *)
(* lost as long as moving the files aside is not interrupted, and what the *)
(* answers of db check, db repair and db reset say of the database.        *)
(***************************************************************************)
EXTENDS StoreFiles, TLAPS

(***************************************************************************)
(* A log belongs to the database beside it and is at least as long; unless *)
(* moves are interrupted, there is a log without a database only between   *)
(* the two renames; and whoever uses the store has a file.                 *)
(***************************************************************************)
LogFollowsFile ==
  /\ db # None /\ wal # None => wal.gen = db.gen /\ db.n <= wal.n
  /\ db = None /\ wal # None => proc.stage = "moveWal" \/ MovesInterrupted
  /\ proc.stage = "moveWal" => db = None
  /\ proc.stage \in {"schema", "verify", "running"} => db # None

\* The type invariant, and what it needs of the files.
FilesInv == TypeOK /\ LogFollowsFile

\* n transactions of database g are found in a file.
InFile(g, n) ==
  \/ n = 0
  \/ db # None /\ db.gen = g /\ db.n = n
  \/ wal # None /\ wal.gen = g /\ wal.n = n
  \/ \E b \in backups : b.gen = g /\ b.n = n

(***************************************************************************)
(* What was committed is in a file, and that of the database in use is     *)
(* what its connection sees.                                               *)
(***************************************************************************)
PreservedInv ==
  /\ FilesInv
  /\ db # None => committed[db.gen] = Seen
  /\ \A g \in Gens : InFile(g, committed[g])

\* The definition of Found, as a disjunction.
LEMMA FoundInFile == (\A g \in Gens : InFile(g, committed[g])) => NothingLost
  BY DEF NothingLost, Found, InFile

-----------------------------------------------------------------------------
\* A store that is closed keeps its transactions, in the file alone.
LEMMA CloseKeeps ==
  ASSUME FilesInv, CloseDB
  PROVE  /\ db' \in Database \cup {None}
         /\ wal' \in Log \cup {None}
         /\ db' = None <=> db = None
         /\ wal = None => wal' = None
         /\ db # None => db'.gen = db.gen
         /\ db' # None /\ wal' # None => wal'.gen = db'.gen /\ db'.n <= wal'.n
  BY NoneAssumption, BoundAssumption DEF FilesInv, TypeOK, LogFollowsFile, CloseDB, Database, Log, Gens, Commits, Format

\* Where a running process goes, and that an ended one has left every stage.
LEMMA ProcessMoves ==
  ASSUME TypeOK, proc # Idle
  PROVE  /\ \A s \in {"open", "schema", "verify", "check", "move", "moveWal", "running"} :
              GoTo(s) => proc' \in Process /\ proc'.stage = s
         /\ \A a \in Answer : Ends(a) =>
              /\ proc' = Idle
              /\ said' \in Said \cup {None}
  BY DEF TypeOK, Process, Idle, GoTo, Ends, Said

\* A transaction lengthens the log of the database in use.
LEMMA CommitGrows ==
  ASSUME FilesInv, db # None, Commit
  PROVE  /\ wal' \in Log /\ wal' # None /\ db' = db
         /\ wal'.gen = db.gen /\ wal'.n = Seen + 1 /\ db.n <= wal'.n
         /\ committed' = [committed EXCEPT ![db.gen] = Seen + 1]
         /\ committed' \in [Gens -> Commits]
  <1> USE BoundAssumption, NoneAssumption DEF FilesInv, TypeOK, LogFollowsFile, Database, Log, Gens, Commits
  <1>1. Seen \in 0 .. MaxCommits /\ Seen + 1 \in 0 .. MaxCommits /\ db.n <= Seen
    BY DEF Commit, Seen
  <1>2. wal' = [gen |-> db.gen, n |-> Seen + 1] /\ db' = db
    BY DEF Commit
  <1>3. committed' = [committed EXCEPT ![db.gen] = Seen + 1]
    BY DEF Commit
  <1> QED
    BY <1>1, <1>2, <1>3

\* A process that ends leaves the files as they are or closes the store.
LEMMA EndKeepsFiles ==
  ASSUME FilesInv, proc # Idle, proc.stage # "moveWal",
         (db' = db /\ wal' = wal) \/ CloseDB,
         UNCHANGED <<backups, committed, readable>>,
         NEW a \in Answer, Ends(a)
  PROVE  FilesInv'
  <1>1. /\ proc' = Idle
        /\ said' \in Said \cup {None}
    BY ProcessMoves DEF FilesInv
  <1>2. /\ db' \in Database \cup {None}
        /\ wal' \in Log \cup {None}
        /\ db' = None => wal' = None \/ MovesInterrupted
        /\ db' # None /\ wal' # None => wal'.gen = db'.gen /\ db'.n <= wal'.n
    BY CloseKeeps DEF FilesInv, TypeOK, LogFollowsFile
  <1>3. TypeOK'
    BY <1>1, <1>2 DEF FilesInv, TypeOK
  <1>4. LogFollowsFile'
    BY <1>1, <1>2 DEF LogFollowsFile, Idle
  <1> QED
    BY <1>3, <1>4 DEF FilesInv

\* The type invariant and what it needs of the files are invariant.
THEOREM FilesInvariant == Spec => []FilesInv
<1> USE BoundAssumption, NoneAssumption, MoveAssumption
<1>1. Init => FilesInv
  BY DEF Init, FilesInv, TypeOK, LogFollowsFile, Database, Log, Gens, Commits, Format, Idle
<1>2. FilesInv /\ [Next]_vars => FilesInv'
  <2> SUFFICES ASSUME FilesInv, [Next]_vars PROVE FilesInv'
    OBVIOUS
  <2> USE DEF FilesInv, LogFollowsFile
  <2>0. TypeOK
    OBVIOUS
  <2>1. CASE Start
    <3>1. proc' \in Process /\ proc'.stage \in {"open", "check", "move"}
      BY <2>1 DEF Start, Process, Commands
    <3> QED
      BY <2>1, <3>1, <2>0 DEF Start, TypeOK, Idle
  <2>2. CASE CreateDB
    <3>0. proc # Idle
      BY <2>2 DEF CreateDB, Idle
    <3>1. PICK g \in Gens : db' = [gen |-> g, n |-> 0, format |-> "current", damage |-> "none"]
      BY <2>2 DEF CreateDB
    <3>2. db' \in Database
      BY <3>1 DEF Database, Format, Commits
    <3> QED
      BY <2>2, <3>0, <3>2, ProcessMoves DEF CreateDB, TypeOK
  <2>3. CASE OpenFails
    <3>0. proc # Idle
      BY <2>3 DEF OpenFails, Idle
    <3>1. (db' = db /\ wal' = wal) \/ CloseDB
      BY <2>3 DEF OpenFails
    <3>2. \/ proc' \in Process /\ proc'.stage = "move" /\ said' = said
          \/ proc' = Idle /\ said' \in Said \cup {None}
      BY <2>3, <3>0, ProcessMoves DEF OpenFails, Answer
    <3> QED
      BY <2>3, <3>1, <3>2, CloseKeeps DEF OpenFails, TypeOK, Idle
  <2>4. CASE OpenDB
    <3>0. proc # Idle
      BY <2>4 DEF OpenDB, Idle
    <3> QED
      BY <2>4, <3>0, ProcessMoves DEF OpenDB, TypeOK
  <2>5. CASE CreateStatement
    BY <2>5, CommitGrows DEF CreateStatement, TypeOK
  <2>6. CASE SchemaDone
    <3>0. proc # Idle
      BY <2>6 DEF SchemaDone, Idle
    <3>1. \/ db' = db /\ wal' = wal /\ said' = said /\ (GoTo("running") \/ GoTo("verify"))
          \/ Ends("ok") /\ CloseDB
      BY <2>6 DEF SchemaDone
    <3>2. CASE Ends("ok") /\ CloseDB
      BY <2>6, <3>0, <3>2, EndKeepsFiles DEF SchemaDone, Answer
    <3> QED
      BY <2>6, <3>0, <3>1, <3>2, ProcessMoves DEF SchemaDone, TypeOK
  <2>7. CASE Verify
    <3>0. proc # Idle
      BY <2>7 DEF Verify, Idle
    <3>1. \/ proc' \in Process /\ proc'.stage = "move" /\ said' = said
          \/ proc' = Idle /\ said' \in Said \cup {None}
      BY <2>7, <3>0, ProcessMoves DEF Verify, Answer
    <3> QED
      BY <2>7, <3>1, CloseKeeps DEF Verify, TypeOK, Idle
  <2>8. CASE CheckDatabase
    <3>0. proc # Idle /\ proc.stage = "check"
      <4>1. proc.stage = "check"
        BY <2>8 DEF CheckDatabase
      <4> QED
        BY <4>1 DEF Idle
    <3>1. (db' = db /\ wal' = wal) \/ CloseDB
      BY <2>8 DEF CheckDatabase
    <3>2. PICK a \in Answer : Ends(a)
      BY <2>8 DEF CheckDatabase, Answer
    <3> QED
      BY <2>8, <3>0, <3>1, <3>2, EndKeepsFiles DEF CheckDatabase
  <2>9. CASE MoveDB
    <3>0. proc # Idle
      BY <2>9 DEF MoveDB, Idle
    <3>1. backups' \subseteq Backup
      BY <2>9 DEF MoveDB, TypeOK, Database, Backup
    <3> QED
      BY <2>9, <3>0, <3>1, ProcessMoves DEF MoveDB, TypeOK
  <2>10. CASE MoveWal
    <3>1. backups' \subseteq Backup
      BY <2>10 DEF MoveWal, TypeOK, Log, Backup
    <3>2. proc' \in Process /\ proc'.stage = "open"
      <4>1. proc \in Process
        BY <2>10 DEF MoveWal, TypeOK, Idle
      <4>2. proc' = [proc EXCEPT !.stage = "open", !.again = TRUE]
        BY <2>10 DEF MoveWal
      <4> QED
        BY <4>1, <4>2 DEF Process
    <3> QED
      BY <2>10, <3>1, <3>2 DEF MoveWal, TypeOK
  <2>11. CASE MoveFails
    <3>0. proc # Idle /\ db' = db /\ wal' = wal /\ Ends("failed")
      BY <2>11 DEF MoveFails, Idle
    <3>1. proc' = Idle /\ said' \in Said \cup {None}
      BY <3>0, ProcessMoves DEF Answer
    <3> QED
      BY <2>11, <3>0, <3>1 DEF MoveFails, TypeOK, Idle
  <2>12. CASE WriteRow
    BY <2>12, CommitGrows DEF WriteRow, TypeOK
  <2>13. CASE Checkpoint
    <3>1. db' \in Database /\ db' # None /\ db'.gen = db.gen /\ db'.n = wal.n
      BY <2>13 DEF Checkpoint, TypeOK, Database, Log, Gens, Commits
    <3>2. wal.n \in Int
      BY <2>13, <2>0 DEF Checkpoint, TypeOK, Log, Commits
    <3> QED
      BY <2>13, <3>1, <3>2 DEF Checkpoint, TypeOK
  <2>14. CASE CloseStore
    <3>0. proc # Idle /\ proc.stage = "running"
      <4>1. proc.stage = "running"
        BY <2>14 DEF CloseStore
      <4> QED
        BY <4>1 DEF Idle
    <3> QED
      BY <2>14, <3>0, EndKeepsFiles DEF CloseStore, Answer
  <2>15. CASE Crash
    BY <2>15, <2>0 DEF Crash, TypeOK, Idle
  <2>16. CASE PowerLoss
    <3>1. PICK n \in db.n .. wal.n - 1 :
            /\ wal' = [wal EXCEPT !.n = n]
            /\ committed' = [committed EXCEPT ![wal.gen] = n]
      BY <2>16 DEF PowerLoss
    <3>2. wal # None /\ db # None /\ db' = db /\ proc' = Idle
      BY <2>16 DEF PowerLoss
    <3>3. n \in Commits /\ db.n <= n
      BY <2>0, <3>1, <3>2 DEF TypeOK, Database, Log, Commits
    <3>4. wal' \in Log /\ wal' # None /\ wal'.gen = db.gen /\ wal'.n = n
      BY <2>0, <3>1, <3>2, <3>3 DEF TypeOK, Log
    <3>5. committed' \in [Gens -> Commits]
      BY <2>0, <3>1, <3>3 DEF TypeOK
    <3> QED
      BY <2>16, <2>0, <3>2, <3>3, <3>4, <3>5 DEF PowerLoss, TypeOK, Idle
  <2>17. CASE Damage
    <3>1. db' \in Database /\ db' # None /\ db'.gen = db.gen /\ db'.n = db.n
      BY <2>17, <2>0 DEF Damage, TypeOK, Database
    <3> QED
      BY <2>17, <3>1, <2>0 DEF Damage, TypeOK
  <2>18. CASE DiskChanges
    BY <2>18, <2>0 DEF DiskChanges, TypeOK
  <2>19. CASE UNCHANGED vars
    BY <2>19, <2>0 DEF vars, TypeOK, Seen
  <2> QED
    BY <2>1, <2>2, <2>3, <2>4, <2>5, <2>6, <2>7, <2>8, <2>9, <2>10, <2>11, <2>12, <2>13,
       <2>14, <2>15, <2>16, <2>17, <2>18, <2>19 DEF Next
<1> QED
  BY <1>1, <1>2, PTL DEF Spec

(***************************************************************************)
(* TypeOK holds in every reachable state.                                  *)
(***************************************************************************)
THEOREM FilesTypeCorrect == Spec => []TypeOK
  BY FilesInvariant, PTL DEF FilesInv

-----------------------------------------------------------------------------
\* Unless the files or the counts change, what is preserved stays so.
LEMMA NothingMoves ==
  ASSUME PreservedInv, FilesInv', UNCHANGED <<wal, backups, committed>>,
         db' = db \/ (db # None /\ db' # None /\ db'.gen = db.gen /\ db'.n = db.n)
  PROVE  PreservedInv'
  BY DEF PreservedInv, InFile, Seen

\* A store that is closed has all its transactions in the file.
LEMMA ClosePreserves ==
  ASSUME PreservedInv, FilesInv', CloseDB, UNCHANGED <<backups, committed>>
  PROVE  PreservedInv'
<1>1. CASE wal = None \/ db = None \/ db.damage = "header"
  BY <1>1, NothingMoves DEF CloseDB
<1>2. CASE ~ (wal = None \/ db = None \/ db.damage = "header")
  <2>1. db # None /\ wal # None /\ db.gen = wal.gen /\ db \in Database
    BY <1>2 DEF PreservedInv, FilesInv, TypeOK, LogFollowsFile
  <2>2. db' = [db EXCEPT !.n = wal.n] /\ wal' = None
    BY <1>2 DEF CloseDB
  <2>3. db'.gen = db.gen /\ db'.n = wal.n
    BY <2>1, <2>2 DEF Database
  <2>4. db' # None
    BY <2>1, CloseKeeps DEF PreservedInv
  <2>5. committed[db.gen] = wal.n
    BY <2>1 DEF PreservedInv, Seen
  <2>6. db' # None => committed'[db'.gen] = Seen'
    BY <2>2, <2>3, <2>5 DEF Seen
  <2>7. ASSUME NEW g \in Gens PROVE InFile(g, committed[g])'
    <3>1. CASE g = db.gen
      BY <2>3, <2>4, <2>5, <3>1 DEF InFile
    <3>2. CASE g # db.gen
      BY <2>1, <3>2 DEF PreservedInv, InFile
    <3> QED
      BY <3>1, <3>2
  <2> QED
    BY <2>6, <2>7 DEF PreservedInv
<1> QED
  BY <1>1, <1>2

\* A transaction that is committed is in the log.
LEMMA CommitPreserves ==
  ASSUME PreservedInv, FilesInv', db # None, Commit, UNCHANGED backups
  PROVE  PreservedInv'
<1>1. /\ wal' # None /\ db' = db /\ wal'.gen = db.gen /\ wal'.n = Seen + 1
      /\ committed' = [committed EXCEPT ![db.gen] = Seen + 1]
  BY CommitGrows DEF PreservedInv
<1>2. db.gen \in Gens /\ committed \in [Gens -> Commits]
      /\ (wal # None => wal.gen = db.gen)
  BY DEF PreservedInv, FilesInv, TypeOK, LogFollowsFile, Database
<1>3. committed'[db.gen] = Seen + 1 /\ \A g \in Gens : g # db.gen => committed'[g] = committed[g]
  BY <1>1, <1>2
<1>4. db' # None => committed'[db'.gen] = Seen'
  BY <1>1, <1>3 DEF Seen
<1>5. ASSUME NEW g \in Gens PROVE InFile(g, committed[g])'
  <2>1. CASE g = db.gen
    BY <1>1, <1>3, <2>1 DEF InFile
  <2>2. CASE g # db.gen
    BY <1>1, <1>2, <1>3, <2>2 DEF PreservedInv, InFile
  <2> QED
    BY <2>1, <2>2
<1> QED
  BY <1>4, <1>5 DEF PreservedInv

(***************************************************************************)
(* As long as no move stops halfway, the files that were opened, repaired  *)
(* or reset still hold every transaction, moved aside or in place.         *)
(***************************************************************************)
THEOREM OldFilesPreserved ==
  ASSUME MovesInterrupted = FALSE PROVE Spec => []NothingLost
<1> USE BoundAssumption, NoneAssumption
<1>1. Init => PreservedInv
  <2> SUFFICES ASSUME Init PROVE PreservedInv
    OBVIOUS
  <2>1. FilesInv
    BY DEF Init, FilesInv, TypeOK, LogFollowsFile, Database, Log, Gens, Commits, Format, Idle
  <2>2. wal = None /\ backups = {}
    BY DEF Init
  <2>3. CASE db = None /\ committed = [g \in Gens |-> 0]
    BY <2>1, <2>2, <2>3 DEF PreservedInv, InFile
  <2>4. CASE \E n \in SchemaSteps .. MaxCommits, f \in Format :
               /\ db = [gen |-> 1, n |-> n, format |-> f, damage |-> "none"]
               /\ committed = [g \in Gens |-> IF g = 1 THEN n ELSE 0]
    <3>1. PICK n \in SchemaSteps .. MaxCommits, f \in Format :
               /\ db = [gen |-> 1, n |-> n, format |-> f, damage |-> "none"]
               /\ committed = [g \in Gens |-> IF g = 1 THEN n ELSE 0]
      BY <2>4
    <3>2. db # None /\ db.gen = 1 /\ db.n = n
      BY <3>1 DEF Database, Gens, Commits, Format
    <3>3. committed[1] = n /\ \A g \in Gens : g # 1 => committed[g] = 0
      BY <3>1 DEF Gens
    <3> QED
      BY <2>1, <2>2, <3>2, <3>3 DEF PreservedInv, InFile, Seen
  <2> QED
    BY <2>3, <2>4 DEF Init
<1>2. PreservedInv /\ FilesInv' /\ [Next]_vars => PreservedInv'
  <2> SUFFICES ASSUME PreservedInv, FilesInv', [Next]_vars PROVE PreservedInv'
    OBVIOUS
  <2>0. FilesInv
    BY DEF PreservedInv
  <2>1. CASE Start
    BY <2>1, NothingMoves DEF Start
  <2>2. CASE CreateDB
    <3>1. PICK g \in Gens :
            /\ Used = 1 .. g - 1
            /\ db' = [gen |-> g, n |-> 0, format |-> "current", damage |-> "none"]
      BY <2>2 DEF CreateDB
    <3>2. db = None /\ proc.stage = "open" /\ wal' = None /\ UNCHANGED <<backups, committed>>
      BY <2>2 DEF CreateDB
    <3>3. wal = None
      BY <2>0, <3>2 DEF FilesInv, LogFollowsFile
    <3>4. committed[g] = 0
      <4>1. g \notin Used /\ committed[g] \in Nat
        BY <2>0, <3>1 DEF FilesInv, TypeOK, Gens, Commits
      <4> QED
        BY <4>1 DEF Used
    <3>5. db' # None => committed'[db'.gen] = Seen'
      BY <3>1, <3>2, <3>4 DEF Seen
    <3>6. \A h \in Gens : InFile(h, committed[h])'
      BY <3>2, <3>3 DEF PreservedInv, InFile
    <3> QED
      BY <3>5, <3>6 DEF PreservedInv
  <2>3. CASE OpenFails
    BY <2>3, ClosePreserves, NothingMoves DEF OpenFails
  <2>4. CASE OpenDB
    BY <2>4, NothingMoves DEF OpenDB
  <2>5. CASE CreateStatement
    BY <2>0, <2>5, CommitPreserves DEF CreateStatement, FilesInv, LogFollowsFile
  <2>6. CASE SchemaDone
    <3>1. CloseDB \/ UNCHANGED <<db, wal>>
      BY <2>6 DEF SchemaDone
    <3> QED
      BY <2>6, <3>1, ClosePreserves, NothingMoves DEF SchemaDone
  <2>7. CASE Verify
    BY <2>7, ClosePreserves DEF Verify
  <2>8. CASE CheckDatabase
    <3>1. CloseDB \/ UNCHANGED <<db, wal>>
      BY <2>8 DEF CheckDatabase
    <3> QED
      BY <2>8, <3>1, ClosePreserves, NothingMoves DEF CheckDatabase
  <2>9. CASE MoveDB
    <3>1. db' = None /\ wal' = wal /\ committed' = committed
          /\ \A b \in backups : b \in backups'
      BY <2>9 DEF MoveDB
    <3>2. db # None => \E b \in backups' : b.gen = db.gen /\ b.n = db.n
      <4> DEFINE moved == [gen |-> db.gen, n |-> db.n, part |-> "db"]
      <4>1. db # None => moved \in backups'
        BY <2>9 DEF MoveDB
      <4>2. moved.gen = db.gen /\ moved.n = db.n
        OBVIOUS
      <4> HIDE DEF moved
      <4> QED
        BY <4>1, <4>2
    <3>3. ASSUME NEW g \in Gens PROVE InFile(g, committed[g])'
      BY <3>1, <3>2 DEF PreservedInv, InFile
    <3> QED
      BY <3>1, <3>3 DEF PreservedInv
  <2>10. CASE MoveWal
    <3>1. wal' = None /\ db' = db /\ committed' = committed
          /\ \A b \in backups : b \in backups'
      BY <2>10 DEF MoveWal
    <3>2. wal # None => \E b \in backups' : b.gen = wal.gen /\ b.n = wal.n
      <4> DEFINE moved == [gen |-> wal.gen, n |-> wal.n, part |-> "wal"]
      <4>1. wal # None => moved \in backups'
        BY <2>10 DEF MoveWal
      <4>2. moved.gen = wal.gen /\ moved.n = wal.n
        OBVIOUS
      <4> HIDE DEF moved
      <4> QED
        BY <4>1, <4>2
    <3>3. db' = None
      BY <2>0, <2>10, <3>1 DEF MoveWal, FilesInv, LogFollowsFile
    <3>4. ASSUME NEW g \in Gens PROVE InFile(g, committed[g])'
      BY <3>1, <3>2 DEF PreservedInv, InFile
    <3> QED
      BY <3>3, <3>4 DEF PreservedInv
  <2>11. CASE MoveFails
    BY <2>11, NothingMoves DEF MoveFails
  <2>12. CASE WriteRow
    BY <2>0, <2>12, CommitPreserves DEF WriteRow, FilesInv, LogFollowsFile
  <2>13. CASE Checkpoint
    <3>1. wal # None /\ db' = [db EXCEPT !.n = wal.n] /\ UNCHANGED <<wal, backups, committed>>
          /\ proc.stage = "running"
      BY <2>13 DEF Checkpoint
    <3>2. db # None /\ db \in Database /\ db.gen = wal.gen
      BY <2>0, <3>1 DEF FilesInv, TypeOK, LogFollowsFile
    <3>3. db'.gen = db.gen
      BY <3>1, <3>2 DEF Database
    <3>4. committed[db.gen] = wal.n
      BY <3>1, <3>2 DEF PreservedInv, Seen
    <3>5. ASSUME NEW g \in Gens PROVE InFile(g, committed[g])'
      BY <3>1, <3>2, <3>4 DEF PreservedInv, InFile
    <3> QED
      BY <3>1, <3>3, <3>4, <3>5 DEF PreservedInv, Seen
  <2>14. CASE CloseStore
    BY <2>14, ClosePreserves DEF CloseStore
  <2>15. CASE Crash
    BY <2>15, NothingMoves DEF Crash
  <2>16. CASE PowerLoss
    <3>1. PICK n \in db.n .. wal.n - 1 :
            /\ wal' = [wal EXCEPT !.n = n]
            /\ committed' = [committed EXCEPT ![wal.gen] = n]
      BY <2>16 DEF PowerLoss
    <3>2. wal # None /\ db # None /\ db' = db /\ backups' = backups
      BY <2>16 DEF PowerLoss
    <3>3. wal.gen = db.gen /\ wal \in Log /\ db.gen \in Gens /\ committed \in [Gens -> Commits]
      BY <2>0, <3>2 DEF FilesInv, TypeOK, LogFollowsFile, Database
    <3>4. wal'.gen = db.gen /\ wal'.n = n
      BY <3>1, <3>3 DEF Log
    <3>5. wal' # None
      BY <3>1, <3>3, <3>2, FilesInv' DEF FilesInv, TypeOK, Log, Commits, Database
    <3>6. committed'[db.gen] = n /\ \A g \in Gens : g # db.gen => committed'[g] = committed[g]
      BY <3>1, <3>3
    <3>7. ASSUME NEW g \in Gens PROVE InFile(g, committed[g])'
      <4>1. CASE g = db.gen
        BY <3>4, <3>5, <3>6, <4>1 DEF InFile
      <4>2. CASE g # db.gen
        BY <3>2, <3>3, <3>6, <4>2 DEF PreservedInv, InFile
      <4> QED
        BY <4>1, <4>2
    <3> QED
      BY <3>2, <3>4, <3>5, <3>6, <3>7 DEF PreservedInv, Seen
  <2>17. CASE Damage
    <3>1. db' # None /\ db'.gen = db.gen /\ db'.n = db.n
      BY <2>0, <2>17 DEF Damage, FilesInv, TypeOK, Database
    <3> QED
      BY <2>17, <3>1, NothingMoves DEF Damage
  <2>18. CASE DiskChanges
    BY <2>18, NothingMoves DEF DiskChanges
  <2>19. CASE UNCHANGED vars
    BY <2>19, NothingMoves DEF vars
  <2> QED
    BY <2>1, <2>2, <2>3, <2>4, <2>5, <2>6, <2>7, <2>8, <2>9, <2>10, <2>11, <2>12, <2>13,
       <2>14, <2>15, <2>16, <2>17, <2>18, <2>19 DEF Next
<1>3. PreservedInv => NothingLost
  BY FoundInFile DEF PreservedInv
<1> QED
  BY <1>1, <1>2, <1>3, FilesInvariant, PTL DEF Spec

-----------------------------------------------------------------------------
(***************************************************************************)
(* What each stage of a command knows of the database: a command that runs *)
(* has printed nothing, a store whose schema is created has this version's *)
(* format, a store that is verified has the whole schema, and one that was *)
(* opened after a move is new and undamaged.                               *)
(***************************************************************************)
StageInv ==
  /\ proc # Idle => said = None
  /\ proc.stage = "running" => proc.cmd = "open"
  /\ proc.stage = "check" => proc.cmd = "check"
  /\ proc.stage \in {"open", "schema", "verify"} /\ proc.cmd = "reset" => proc.again
  /\ proc.stage = "open" /\ proc.again => db = None
  /\ proc.stage \in {"schema", "verify"} => db.format = "current"
  /\ proc.stage = "schema" /\ proc.again => db.damage = "none"
  /\ proc.stage = "verify" => Seen >= SchemaSteps

\* A process that has ended, or goes to move the files, owes nothing.
LEMMA EndKnowsNothing ==
  ASSUME StageInv, TypeOK,
         \/ proc' = Idle
         \/ proc # Idle /\ GoTo("move") /\ said' = said
  PROVE  StageInv'
<1>1. CASE proc' = Idle
  BY <1>1 DEF StageInv, Idle
<1>2. CASE proc # Idle /\ GoTo("move") /\ said' = said
  BY <1>2, ProcessMoves DEF StageInv
<1> QED
  BY <1>1, <1>2

\* What a closing store leaves: the same file with all transactions in it.
LEMMA CloseIsSound ==
  ASSUME FilesInv, CloseDB
  PROVE  /\ db # None => /\ db' # None
                        /\ db'.format = db.format
                        /\ db'.damage = db.damage
                        /\ Seen' = Seen
<1> USE NoneAssumption DEF FilesInv, TypeOK, LogFollowsFile
<1> SUFFICES ASSUME db # None
    PROVE db' # None /\ db'.format = db.format /\ db'.damage = db.damage /\ Seen' = Seen
  OBVIOUS
<1>1. CASE wal = None \/ db.damage = "header"
  BY <1>1 DEF CloseDB, Seen
<1>2. CASE ~ (wal = None \/ db.damage = "header")
  <2>1. db' = [db EXCEPT !.n = wal.n] /\ wal' = None
    BY <1>2 DEF CloseDB
  <2>2. db' # None
    BY CloseKeeps
  <2>3. db \in Database
    OBVIOUS
  <2>4. db'.n = wal.n /\ db'.format = db.format /\ db'.damage = db.damage
    BY <2>1, <2>3 DEF Database
  <2> QED
    BY <1>2, <2>1, <2>2, <2>4 DEF Seen
<1> QED
  BY <1>1, <1>2

\* Every step keeps what the stages know.
LEMMA StageStep == FilesInv /\ FilesInv' /\ StageInv /\ [Next]_vars => StageInv'
<1> SUFFICES ASSUME FilesInv, FilesInv', StageInv, [Next]_vars PROVE StageInv'
  OBVIOUS
<1> USE NoneAssumption
<1>0. TypeOK
  BY DEF FilesInv
<1>1. CASE Start
  <2>1. PICK c \in Commands :
          proc' = [cmd |-> c, again |-> FALSE,
                   stage |-> CASE c = "check" -> "check"
                               [] c = "reset" -> "move"
                               [] OTHER -> "open"]
    BY <1>1 DEF Start
  <2>2. /\ said' = None
        /\ proc'.cmd = c /\ proc'.again = FALSE
        /\ proc'.stage \in {"open", "check", "move"}
        /\ proc'.stage = "check" => c = "check"
        /\ c = "reset" => proc'.stage = "move"
    BY <1>1, <2>1 DEF Start
  <2> QED
    BY <2>2 DEF StageInv
<1>2. CASE CreateDB
  <2>1. PICK g \in Gens : db' = [gen |-> g, n |-> 0, format |-> "current", damage |-> "none"]
    BY <1>2 DEF CreateDB
  <2>2. proc # Idle /\ proc.stage = "open" /\ said' = said
    BY <1>2 DEF CreateDB, Idle
  <2>3. proc'.stage = "schema" /\ proc'.cmd = proc.cmd /\ proc'.again = proc.again
    BY <1>0, <1>2, <2>2 DEF CreateDB, GoTo, TypeOK, Process
  <2> QED
    BY <2>1, <2>2, <2>3 DEF StageInv
<1>3. CASE OpenFails
  <2>1. proc # Idle
    BY <1>3 DEF OpenFails, Idle
  <2>2. \/ proc' = Idle
        \/ GoTo("move") /\ said' = said
    BY <1>3 DEF OpenFails, Ends
  <2> QED
    BY <1>0, <2>1, <2>2, EndKnowsNothing
<1>4. CASE OpenDB
  <2>1. proc # Idle /\ proc.stage = "open" /\ said' = said /\ db' = db /\ db # None
        /\ db.format = "current"
    BY <1>4 DEF OpenDB, Idle
  <2>2. proc'.stage = "schema" /\ proc'.cmd = proc.cmd /\ proc'.again = proc.again
    BY <1>0, <1>4, <2>1 DEF OpenDB, GoTo, TypeOK, Process
  <2> QED
    BY <2>1, <2>2 DEF StageInv
<1>5. CASE CreateStatement
  BY <1>5 DEF CreateStatement, Commit, StageInv
<1>6. CASE SchemaDone
  <2>1. proc # Idle /\ proc.stage = "schema" /\ Seen >= SchemaSteps
    BY <1>6 DEF SchemaDone, Idle
  <2>2. \/ proc.cmd = "open" /\ GoTo("running") /\ UNCHANGED <<db, wal, said>>
        \/ proc.cmd = "repair" /\ GoTo("verify") /\ UNCHANGED <<db, wal, said>>
        \/ proc' = Idle
    BY <1>6 DEF SchemaDone, Ends
  <2>3. CASE proc.cmd = "open" /\ GoTo("running") /\ UNCHANGED <<db, wal, said>>
    <3>1. proc'.stage = "running" /\ proc'.cmd = "open"
      BY <1>0, <2>1, <2>3 DEF GoTo, TypeOK, Process
    <3> QED
      BY <2>1, <2>3, <3>1 DEF StageInv
  <2>4. CASE proc.cmd = "repair" /\ GoTo("verify") /\ UNCHANGED <<db, wal, said>>
    <3>1. proc'.stage = "verify" /\ proc'.cmd = "repair"
      BY <1>0, <2>1, <2>4 DEF GoTo, TypeOK, Process
    <3> QED
      BY <2>1, <2>4, <3>1 DEF StageInv, Seen
  <2> QED
    BY <1>0, <2>2, <2>3, <2>4, EndKnowsNothing
<1>7. CASE Verify
  <2>1. proc # Idle
    BY <1>7 DEF Verify, Idle
  <2>2. \/ proc' = Idle
        \/ GoTo("move") /\ said' = said
    BY <1>7 DEF Verify, Ends
  <2> QED
    BY <1>0, <2>1, <2>2, EndKnowsNothing
<1>8. CASE CheckDatabase \/ MoveFails \/ CloseStore \/ Crash \/ PowerLoss
  <2>1. proc' = Idle
    BY <1>8 DEF CheckDatabase, MoveFails, CloseStore, Crash, PowerLoss, Ends
  <2> QED
    BY <1>0, <2>1, EndKnowsNothing
<1>9. CASE MoveDB
  <2>1. proc # Idle /\ said' = said
    BY <1>9 DEF MoveDB, Idle
  <2>2. proc'.stage = "moveWal"
    BY <1>0, <1>9, <2>1 DEF MoveDB, GoTo, TypeOK, Process
  <2> QED
    BY <2>1, <2>2 DEF StageInv
<1>10. CASE MoveWal
  <2>1. proc # Idle /\ proc.stage = "moveWal" /\ said' = said /\ db' = db
        /\ proc' = [proc EXCEPT !.stage = "open", !.again = TRUE]
    BY <1>10 DEF MoveWal, Idle
  <2>2. proc'.stage = "open" /\ proc'.again = TRUE
    BY <1>0, <2>1 DEF TypeOK, Process
  <2>3. db' = None
    BY <2>1 DEF FilesInv, LogFollowsFile
  <2> QED
    BY <2>1, <2>2, <2>3 DEF StageInv
<1>11. CASE WriteRow \/ Checkpoint \/ Damage
  <2>1. proc.stage \in {"idle", "running"} /\ proc' = proc /\ said' = said
    BY <1>11 DEF WriteRow, Checkpoint, Damage
  <2> QED
    BY <2>1 DEF StageInv
<1>12. CASE DiskChanges \/ UNCHANGED vars
  BY <1>12 DEF DiskChanges, vars, StageInv, Seen
<1> QED
  BY <1>1, <1>2, <1>3, <1>4, <1>5, <1>6, <1>7, <1>8, <1>9, <1>10, <1>11, <1>12 DEF Next

\* What the stages know holds in every reachable state.
THEOREM StagesKnow == Spec => [](FilesInv /\ StageInv)
<1>1. Init => StageInv
  BY DEF Init, StageInv, Idle
<1> QED
  BY <1>1, StageStep, FilesInvariant, PTL DEF Spec

-----------------------------------------------------------------------------
(***************************************************************************)
(* HealthyStays for every schema and any number of failures: opening and   *)
(* db repair never move a database aside that is sound and can be read.    *)
(***************************************************************************)
THEOREM SoundFilesStay == Spec => HealthyStays
<1> DEFINE GoesAside ==
      proc'.stage = "move" /\ proc.stage # "move" /\ proc.stage # "idle"
        => Damaged \/ ~ readable
<1>1. FilesInv /\ [Next]_vars => [GoesAside]_vars
  <2> SUFFICES ASSUME FilesInv, Next, proc'.stage = "move", proc.stage # "move", proc.stage # "idle"
               PROVE  Damaged \/ ~ readable
    BY DEF vars
  <2>0. proc \in Process /\ proc # Idle
    BY DEF FilesInv, TypeOK, Idle
  <2>1. \A stage \in {"schema", "running", "verify", "moveWal"} : ~ GoTo(stage)
    BY <2>0 DEF GoTo, Process
  <2>2. proc' # Idle /\ proc' # proc /\ proc' # [proc EXCEPT !.stage = "open", !.again = TRUE]
    <3>1. proc' # Idle /\ proc' # proc
      BY DEF Idle
    <3>2. [proc EXCEPT !.stage = "open", !.again = TRUE].stage = "open"
      BY <2>0 DEF Process
    <3> QED
      BY <3>1, <3>2
  <2>3. OpenFails \/ Verify
    <3>1. ~ (Start \/ MoveFails \/ CloseStore \/ Crash \/ PowerLoss \/ CheckDatabase)
      BY <2>0, <2>2 DEF Start, MoveFails, CloseStore, Crash, PowerLoss, CheckDatabase, Ends
    <3>2. ~ (CreateStatement \/ WriteRow \/ Checkpoint \/ Damage \/ DiskChanges \/ MoveWal)
      BY <2>2 DEF CreateStatement, WriteRow, Checkpoint, Damage, DiskChanges, MoveWal
    <3>3. ~ (CreateDB \/ OpenDB \/ MoveDB \/ SchemaDone)
      BY <2>1, <2>2 DEF CreateDB, OpenDB, MoveDB, SchemaDone, Ends
    <3> QED
      BY <3>1, <3>2, <3>3 DEF Next
  <2>4. CASE OpenFails
    BY <2>2, <2>4 DEF OpenFails, Recoverable, Ends
  <2>5. CASE Verify
    BY <2>2, <2>5 DEF Verify, Ends
  <2> QED
    BY <2>3, <2>4, <2>5
<1> QED
  BY <1>1, FilesInvariant, PTL DEF HealthyStays, Spec

(***************************************************************************)
(* CheckIsHonest for every schema: db check says ok only of a readable,    *)
(* undamaged database of this version whose createSchema went to its end.  *)
(***************************************************************************)
THEOREM ChecksAreHonest == Spec => CheckIsHonest
<1> DEFINE Honest == proc.stage = "check" /\ said' = [cmd |-> "check", answer |-> "ok"] => Complete
<1>1. FilesInv /\ StageInv /\ [Next]_vars => [Honest]_vars
  <2> SUFFICES ASSUME FilesInv, StageInv, Next, proc.stage = "check",
                      said' = [cmd |-> "check", answer |-> "ok"]
               PROVE  Complete
    BY DEF vars
  <2>1. said' # said
    <3>1. said = None
      BY DEF StageInv, Idle
    <3>2. said' \in Said
      BY DEF Said, Commands, Answer
    <3> QED
      BY <3>1, <3>2, NoneAssumption
  <2>2. CheckDatabase
    BY <2>1 DEF Next, Start, CreateDB, OpenFails, OpenDB, CreateStatement, SchemaDone, Verify,
                MoveDB, MoveWal, MoveFails, WriteRow, Checkpoint, CloseStore, Crash, PowerLoss,
                Damage, DiskChanges, Idle
  <2>3. Ends(IF db = None \/ ~ readable THEN "failed"
             ELSE IF Damaged THEN "damaged"
             ELSE CASE db.format = "obsolete" -> "run db repair"
                    [] db.format = "current" /\ Version(Seen) = 4 -> "ok"
                    [] OTHER -> "unsupported")
    BY <2>2 DEF CheckDatabase
  <2>4. db # None /\ ~ Damaged /\ db.format = "current" /\ Version(Seen) = 4
    <3> DEFINE answer == IF db = None \/ ~ readable THEN "failed"
                         ELSE IF Damaged THEN "damaged"
                         ELSE CASE db.format = "obsolete" -> "run db repair"
                                [] db.format = "current" /\ Version(Seen) = 4 -> "ok"
                                [] OTHER -> "unsupported"
    <3>1. answer = "ok"
      <4>1. ASSUME NEW a, Ends(a) PROVE a = "ok"
        BY <4>1 DEF Ends
      <4>2. Ends(answer)
        BY <2>3
      <4> HIDE DEF answer
      <4> QED
        BY <4>1, <4>2
    <3>2. db # None /\ ~ Damaged
      BY <3>1
    <3>3. CASE db.format = "obsolete"
      BY <3>1, <3>2, <3>3
    <3>4. CASE db.format = "current" /\ Version(Seen) = 4
      BY <3>2, <3>4
    <3>5. CASE db.format # "obsolete" /\ ~ (db.format = "current" /\ Version(Seen) = 4)
      BY <3>1, <3>2, <3>5
    <3> QED
      BY <3>3, <3>4, <3>5
  <2>5. Seen >= SchemaSteps
    BY <2>4 DEF Version
  <2> QED
    BY <2>4, <2>5 DEF Complete, Damaged
<1> QED
  BY <1>1, StagesKnow, PTL DEF CheckIsHonest, Spec

(***************************************************************************)
(* RepairRestores for every schema, whatever crashes and power losses came *)
(* before: after a db repair or db reset that says ok the database is one  *)
(* that the agent can use.                                                 *)
(***************************************************************************)
THEOREM RepairsRestore == Spec => RepairRestores
<1> DEFINE Restores ==
      said' # said /\ said' # None /\ said'.answer = "ok" /\ said'.cmd \in {"repair", "reset"}
        => Complete'
<1>1. FilesInv /\ StageInv /\ [Next]_vars => [Restores]_vars
  <2> SUFFICES ASSUME FilesInv, StageInv, Next, said' # said, said' # None,
                      said'.answer = "ok", said'.cmd \in {"repair", "reset"}
               PROVE  Complete'
    BY DEF vars
  <2>1. ASSUME NEW a, Ends(a) PROVE a = "ok" /\ proc.cmd \in {"repair", "reset"}
    BY <2>1 DEF Ends
  <2>2. SchemaDone \/ Verify
    <3>1. ~ (Start \/ CreateDB \/ OpenDB \/ CreateStatement \/ MoveDB \/ MoveWal \/ WriteRow
             \/ Checkpoint \/ Crash \/ PowerLoss \/ Damage \/ DiskChanges)
      BY DEF Start, CreateDB, OpenDB, CreateStatement, MoveDB, MoveWal, WriteRow, Checkpoint,
             Crash, PowerLoss, Damage, DiskChanges
    <3>2. ~ OpenFails
      BY <2>1 DEF OpenFails
    <3>3. ~ CheckDatabase
      <4>1. CheckDatabase => proc.cmd = "check" /\ \E a : Ends(a)
        BY DEF CheckDatabase, StageInv
      <4> QED
        BY <2>1, <4>1
    <3>4. ~ (MoveFails \/ CloseStore)
      BY <2>1 DEF MoveFails, CloseStore, StageInv
    <3> QED
      BY <3>1, <3>2, <3>3, <3>4 DEF Next
  <2>3. db # None
    <3>1. proc.stage \in {"schema", "verify"}
      BY <2>2 DEF SchemaDone, Verify
    <3> QED
      BY <3>1 DEF FilesInv, LogFollowsFile
  <2>4. CloseDB /\ db.damage = "none" /\ db.format = "current" /\ Seen >= SchemaSteps
    <3>1. CASE SchemaDone
      <4>1. proc.stage = "schema" /\ Seen >= SchemaSteps
        BY <3>1 DEF SchemaDone
      <4>2. Ends("ok") /\ CloseDB /\ (proc.cmd = "repair" => proc.again)
        BY <3>1 DEF SchemaDone
      <4>3. proc.again
        BY <2>1, <4>1, <4>2 DEF StageInv
      <4> QED
        BY <4>1, <4>2, <4>3 DEF StageInv
    <3>2. CASE Verify
      BY <2>3, <3>2 DEF Verify, StageInv, Damaged
    <3> QED
      BY <2>2, <3>1, <3>2
  <2>5. db' # None /\ db'.format = "current" /\ db'.damage = "none" /\ Seen' >= SchemaSteps
    BY <2>3, <2>4, CloseIsSound
  <2> QED
    BY <2>5 DEF Complete
<1> QED
  BY <1>1, StagesKnow, PTL DEF RepairRestores, Spec
=============================================================================
