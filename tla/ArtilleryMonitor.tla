-------------------------- MODULE ArtilleryMonitor --------------------------
(***************************************************************************)
(* Artillery's file monitor.  Every MONITOR_FREQUENCY seconds a new thread *)
(* hashes the watched files, writes the hashes to temp.database, compares  *)
(* that with integrity.database, reports, and moves the one over the other.*)
(* A scan that takes longer than the interval overlaps the next one.       *)
(***************************************************************************)
EXTENDS Integers

CONSTANTS
  Files,       \* watched files
  Threads,     \* monitor_system threads that may run at one time
  MaxVersion,  \* bound on the changes of a file
  MaxKills,    \* bound on restarts of artillery
  Absent,      \* no such file
  Cut          \* the empty file

ASSUME ArtilleryMonitorAssumption ==
  /\ MaxVersion \in Nat /\ MaxKills \in Nat
  /\ Absent # Cut /\ {Absent, Cut} \intersect [Files -> 0 .. MaxVersion] = {}

VARIABLES
  fs,          \* fs[f]: version of file f
  temp, db,    \* temp.database, integrity.database
  pc,          \* pc[t]: where thread t is
  todo,        \* files it has not hashed yet
  hashes,      \* total_compare
  content,     \* database_content
  fd,          \* name of the file it has open for writing: a move renames it
  kills,       \* restarts so far
  known,       \* history: versions of which the owner has been told
  alerted,     \* history: a change has been reported
  overlap      \* history: a scan has begun before another had ended

local == <<pc, todo, hashes, content, fd>>
vars  == <<fs, temp, db, local, kills, known, alerted, overlap>>

Versions  == [Files -> 0 .. MaxVersion]
FirstSeen == [f \in Files |-> 0]

\* artillery.py makes an empty temp.database.
Init ==
  /\ fs = FirstSeen
  /\ temp = Cut
  /\ db \in {Absent, FirstSeen}
  /\ pc = [t \in Threads |-> "idle"]
  /\ todo = [t \in Threads |-> {}]
  /\ hashes = [t \in Threads |-> FirstSeen]
  /\ content = [t \in Threads |-> Cut]
  /\ fd = [t \in Threads |-> "none"]
  /\ kills = 0
  /\ known = FirstSeen /\ alerted = FALSE /\ overlap = FALSE

Goto(t, from, to) == pc[t] = from /\ pc' = [pc EXCEPT ![t] = to]

-----------------------------------------------------------------------------
Change(f) ==
  /\ fs[f] < MaxVersion
  /\ fs' = [fs EXCEPT ![f] = @ + 1]
  /\ UNCHANGED <<temp, db, local, kills, known, alerted, overlap>>

Kill ==
  /\ kills < MaxKills
  /\ kills' = kills + 1
  /\ pc' = [t \in Threads |-> "idle"]
  /\ temp' = IF temp = Absent THEN Cut ELSE temp
  /\ fd' = [t \in Threads |-> "none"]
  /\ UNCHANGED <<fs, db, todo, hashes, content, known, alerted, overlap>>

-----------------------------------------------------------------------------
(* monitor_system in thread t.                                             *)

Start(t) ==                    \* start_monitor's thread starts it
  /\ Goto(t, "idle", "scan")
  /\ todo' = [todo EXCEPT ![t] = Files]
  /\ overlap' = (overlap \/ \E u \in Threads \ {t} : pc[u] # "idle")
  /\ UNCHANGED <<fs, temp, db, hashes, content, fd, kills, known, alerted>>

Hash(t, f) ==
  /\ pc[t] = "scan" /\ f \in todo[t]
  /\ hashes' = [hashes EXCEPT ![t][f] = fs[f]]
  /\ todo' = [todo EXCEPT ![t] = @ \ {f}]
  /\ UNCHANGED <<fs, temp, db, pc, content, fd, kills, known, alerted, overlap>>

Opens(t, name) == fd' = [fd EXCEPT ![t] = name]

CutTemp(t) ==                  \* open(temp, "w")
  /\ todo[t] = {} /\ Goto(t, "scan", "write")
  /\ temp' = Cut
  /\ Opens(t, "temp")
  /\ UNCHANGED <<fs, db, todo, hashes, content, kills, known, alerted, overlap>>

\* What t wrote reaches the file it opened, whatever that is called by now.
Close(t) ==
  /\ temp' = IF fd[t] = "temp" THEN hashes[t] ELSE temp
  /\ db' = IF fd[t] = "db" THEN hashes[t] ELSE db
  /\ Opens(t, "none")

WriteTemp(t) ==
  /\ Goto(t, "write", "first")
  /\ Close(t)
  /\ UNCHANGED <<fs, todo, hashes, content, kills, known, alerted, overlap>>

\* Mutant of First: the database is made, and left empty.
Bug_EmptyFirst(t) ==
  /\ Goto(t, "first", "read")
  /\ db' = IF db = Absent THEN Cut ELSE db
  /\ UNCHANGED <<fs, temp, todo, hashes, content, fd, kills, known, alerted, overlap>>

\* Mutant of First: the database is taken to be there.
Bug_NoFirst(t) ==
  /\ Goto(t, "first", "read")
  /\ UNCHANGED <<fs, temp, db, todo, hashes, content, fd, kills, known, alerted, overlap>>

\* if not isfile(integrity): open(.., "w")
First(t) ==
  /\ IF db = Absent
       THEN Goto(t, "first", "fill") /\ db' = Cut /\ Opens(t, "db")
       ELSE Goto(t, "first", "read") /\ UNCHANGED <<db, fd>>
  /\ UNCHANGED <<fs, temp, todo, hashes, content, kills, known, alerted, overlap>>

Fill(t) ==
  /\ Goto(t, "fill", "read")
  /\ Close(t)
  /\ known' = hashes[t]
  /\ UNCHANGED <<fs, todo, hashes, content, kills, alerted, overlap>>

ReadDb(t) ==
  /\ Goto(t, "read", "compare")
  /\ content' = [content EXCEPT ![t] = db]
  /\ UNCHANGED <<fs, temp, db, todo, hashes, fd, kills, known, alerted, overlap>>

Compare(t) ==
  /\ Goto(t, "compare", IF temp \in {Absent, content[t]} THEN "move" ELSE "diff")
  /\ UNCHANGED <<fs, temp, db, todo, hashes, content, fd, kills, known, alerted, overlap>>

\* Mutant of Diff: nobody is told.
Bug_NoWarning(t) ==
  /\ Goto(t, "diff", "move")
  /\ UNCHANGED <<fs, temp, db, todo, hashes, content, fd, kills, known, alerted, overlap>>

\* diff reads both files again: with one gone it prints nothing to stdout.
Diff(t) ==
  /\ Goto(t, "diff", "move")
  /\ IF temp \in {Absent, db}
       THEN UNCHANGED <<known, alerted>>
       ELSE /\ alerted' = TRUE
            /\ known' = IF temp = Cut THEN known ELSE temp
  /\ UNCHANGED <<fs, temp, db, todo, hashes, content, fd, kills, overlap>>

\* if isfile(temp): shutil.move.  Who has a file open keeps it.
Move(t) ==
  /\ Goto(t, "move", "idle")
  /\ IF temp = Absent
       THEN UNCHANGED <<temp, db, fd>>
       ELSE /\ db' = temp /\ temp' = Absent
            /\ fd' = [u \in Threads |-> CASE fd[u] = "temp" -> "db"
                                          [] fd[u] = "db" -> "gone"
                                          [] OTHER -> fd[u]]
  /\ UNCHANGED <<fs, todo, hashes, content, kills, known, alerted, overlap>>

Step(t) ==
  \/ Start(t) \/ (\E f \in Files : Hash(t, f)) \/ CutTemp(t) \/ WriteTemp(t)
  \/ First(t) \/ Fill(t) \/ ReadDb(t) \/ Compare(t) \/ Diff(t) \/ Move(t)

Next == (\E t \in Threads : Step(t)) \/ Kill \/ (\E f \in Files : Change(f))

Spec == Init /\ [][Next]_vars

(* The scans go on; nobody owes a change.                                  *)
FairSpec == Spec /\ \A t \in Threads : WF_vars(Step(t))

-----------------------------------------------------------------------------
(* Properties.                                                             *)

Database == Versions \union {Cut, Absent}

(* Every variable has its type; only the first scans find no database.     *)
TypeOK ==
  /\ fs \in Versions /\ known \in Versions
  /\ temp \in Database /\ db \in Database
  /\ \A t \in Threads : pc[t] \in {"read", "compare", "diff", "move"} => db # Absent
  /\ todo \in [Threads -> SUBSET Files]
  /\ hashes \in [Threads -> Versions]
  /\ content \in [Threads -> Database]
  /\ fd \in [Threads -> {"none", "temp", "db", "gone"}]
  /\ kills \in 0 .. MaxKills /\ alerted \in BOOLEAN /\ overlap \in BOOLEAN

(* "It monitors what folders you specify ... for modifications"            *)
(* (README.md:7): when the files have stopped changing, the owner has been *)
(* told of the versions they are at, whatever changed in the middle of a   *)
(* scan or around a restart, however many scans there have been at a time. *)
ChangeReported == <>[](known = fs)

(* The same, of scans that have not overlapped.                            *)
ReportedInTurn == <>[](known = fs \/ overlap)

(* "If we don't match then there was something that was changed"           *)
(* (monitor.py:98): nothing is reported before a file has changed, unless  *)
(* a kill has left a database half made, or a scan began before the last   *)
(* had ended.  Such a report may come of an empty file, but it names no    *)
(* version that the file has not had.                                      *)
OnlyRealChanges ==
  /\ alerted => fs # FirstSeen \/ kills > 0 \/ overlap
  /\ \A f \in Files : known[f] <= fs[f]
=============================================================================
