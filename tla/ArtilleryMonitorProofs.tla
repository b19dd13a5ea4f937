----------------------- MODULE ArtilleryMonitorProofs -----------------------
(***************************************************************************)
(* The two monitors that artillery runs beside each other.                 *)
(* For any number of files and of scans, the ones that overlap included:   *)
(* once made the database stays, and no report names a version that a file *)
(* has not had; until two scans overlap nothing is reported that did not   *)
(* happen.                                                                 *)
(* For every log, every SSH_BRUTE_ATTEMPTS and every meddling of the other *)
(* threads: the ssh monitor starts to count again at the same lines in     *)
(* every round, and they are SSH_BRUTE_ATTEMPTS apart, whether or not the  *)
(* lines between them come from addresses it could ban.                    *)
(***************************************************************************)
EXTENDS ArtilleryMonitor, SshMonitor, TLAPS

Labels == {"idle", "scan", "write", "first", "fill", "read", "compare", "diff", "move"}

Late == {"fill", "read", "compare", "diff", "move"}

\* The database is made before anybody relies on it, and is never gone after that.
IInv ==
  /\ TypeOK /\ pc \in [Threads -> Labels]
  /\ \A t \in Threads : pc[t] \in Late => db # Absent

LEMMA FirstSeenIsVersion ==
  FirstSeen \in Versions /\ Cut \notin Versions /\ Absent \notin Versions /\ Cut # Absent
<1>1. FirstSeen \in Versions
  BY ArtilleryMonitorAssumption DEF ArtilleryMonitorAssumption, FirstSeen, Versions
<1>2. Cut \notin Versions /\ Absent \notin Versions /\ Cut # Absent
  BY ArtilleryMonitorAssumption DEF ArtilleryMonitorAssumption, Versions
<1> QED
  BY <1>1, <1>2

\* What a step of a scan leaves in the two files.
LEMMA CloseTyped ==
  ASSUME IInv, NEW t \in Threads, Close(t)
  PROVE  /\ temp' \in Database /\ db' \in Database /\ (db # Absent => db' # Absent)
         /\ fd' \in [Threads -> {"none", "temp", "db", "gone"}]
<1>1. hashes[t] \in Versions /\ hashes[t] # Absent
  BY FirstSeenIsVersion DEF IInv, TypeOK
<1>2. temp \in Database /\ db \in Database /\ hashes[t] \in Database
  BY <1>1 DEF IInv, TypeOK, Database
<1>3. fd' = [fd EXCEPT ![t] = "none"]
  BY DEF Close, Opens
<1> QED
  BY <1>1, <1>2, <1>3 DEF Close, IInv, TypeOK

LEMMA StepTyped ==
  ASSUME IInv, NEW t \in Threads, Step(t)
  PROVE  IInv'
<1>d. /\ Cut \in Database /\ Cut # Absent /\ temp \in Database /\ db \in Database
      /\ FirstSeen \in Database /\ Versions \subseteq Database
      /\ pc \in [Threads -> Labels] /\ hashes[t] \in Versions
  BY FirstSeenIsVersion DEF IInv, TypeOK, Database
<1>k. kills' = kills /\ fs' = fs
  BY DEF Step, Start, Hash, CutTemp, WriteTemp, First, Fill, ReadDb, Compare, Diff, Move
<1>o. overlap' \in BOOLEAN
  BY DEF Step, Start, Hash, CutTemp, WriteTemp, First, Fill, ReadDb, Compare, Diff, Move,
         IInv, TypeOK
<1>1. ASSUME NEW l \in Labels, pc' = [pc EXCEPT ![t] = l] \/ UNCHANGED pc,
             db # Absent => db' # Absent, l \in Late => db' # Absent,
             temp' \in Database, db' \in Database, known' \in Versions, alerted' \in BOOLEAN,
             todo' \in [Threads -> SUBSET Files], hashes' \in [Threads -> Versions],
             content' \in [Threads -> Database],
             fd' \in [Threads -> {"none", "temp", "db", "gone"}]
      PROVE  IInv'
  <2>1. pc' \in [Threads -> Labels]
    BY <1>1, <1>d
  <2>2. /\ \A u \in Threads : pc'[u] \in Late => db' # Absent
        /\ {"read", "compare", "diff", "move"} \subseteq Late
    <3>1. ASSUME NEW u \in Threads, pc'[u] \in Late
          PROVE  db' # Absent
      <4>1. pc'[u] = pc[u] \/ pc'[u] = l
        BY <1>1, <1>d
      <4> QED
        BY <1>1, <3>1, <4>1 DEF IInv
    <3> QED
      BY <3>1 DEF Late
  <2> QED
    BY <1>1, <1>k, <1>o, <2>1, <2>2 DEF IInv, TypeOK
<1>t. /\ known \in Versions /\ alerted \in BOOLEAN /\ todo \in [Threads -> SUBSET Files]
      /\ hashes \in [Threads -> Versions] /\ content \in [Threads -> Database]
      /\ fd \in [Threads -> {"none", "temp", "db", "gone"}]
  BY DEF IInv, TypeOK
<1>2. CASE Start(t)
  BY <1>1, <1>d, <1>t, <1>2 DEF Start, Goto, Labels, Late
<1>3. ASSUME NEW f \in Files, Hash(t, f)
      PROVE  IInv'
  <2>1. hashes' \in [Threads -> Versions]
    <3>1. hashes' = [hashes EXCEPT ![t] = [hashes[t] EXCEPT ![f] = fs[f]]]
      BY <1>3 DEF Hash
    <3>2. fs[f] \in 0 .. MaxVersion
      BY DEF IInv, TypeOK, Versions
    <3>3. [hashes[t] EXCEPT ![f] = fs[f]] \in Versions
      BY <1>d, <3>2 DEF Versions
    <3> QED
      BY <1>t, <3>1, <3>3
  <2>2. todo' \in [Threads -> SUBSET Files]
    BY <1>t, <1>3 DEF Hash
  <2>3. UNCHANGED << pc, temp, db, known, alerted, content, fd >>
    BY <1>3 DEF Hash
  <2>4. "idle" \in Labels /\ "idle" \notin Late
    BY DEF Labels, Late
  <2> QED
    BY <1>1, <1>d, <1>t, <2>1, <2>2, <2>3, <2>4
<1>4. CASE CutTemp(t)
  <2>1. fd' \in [Threads -> {"none", "temp", "db", "gone"}]
    BY <1>t, <1>4 DEF CutTemp, Opens
  <2> QED
    BY <1>1, <1>d, <1>t, <1>4, <2>1 DEF CutTemp, Goto, Labels, Late
<1>5. CASE WriteTemp(t)
  BY <1>1, <1>d, <1>t, <1>5, CloseTyped DEF WriteTemp, Goto, Labels, Late
<1>6. CASE First(t)
  <2>1. CASE db = Absent
    <3>1. /\ fd' \in [Threads -> {"none", "temp", "db", "gone"}] /\ db' = Cut
          /\ pc' = [pc EXCEPT ![t] = "fill"]
      BY <1>t, <1>6, <2>1 DEF First, Opens, Goto
    <3> QED
      BY <1>1, <1>d, <1>t, <1>6, <3>1 DEF First, Labels, Late
  <2>2. CASE db # Absent
    BY <1>1, <1>d, <1>t, <1>6, <2>2 DEF First, Goto, Labels, Late
  <2> QED
    BY <2>1, <2>2
<1>7. CASE Fill(t)
  <2>1. db # Absent
    BY <1>7 DEF Fill, Goto, IInv, Late
  <2>2. /\ temp' \in Database /\ db' \in Database /\ db' # Absent
        /\ fd' \in [Threads -> {"none", "temp", "db", "gone"}]
    BY <1>7, <2>1, CloseTyped DEF Fill
  <2> QED
    BY <1>1, <1>d, <1>t, <1>7, <2>2 DEF Fill, Goto, Labels, Late
<1>8. CASE ReadDb(t) \/ Compare(t) \/ Diff(t)
  <2>1. db # Absent /\ db' = db /\ temp' = temp
    BY <1>8 DEF ReadDb, Compare, Diff, Goto, IInv, Late
  <2>2. content' \in [Threads -> Database] /\ UNCHANGED << todo, hashes, fd >>
    BY <1>d, <1>t, <1>8 DEF ReadDb, Compare, Diff
  <2>3. known' \in Versions /\ alerted' \in BOOLEAN
    BY <1>d, <1>t, <1>8, <2>1 DEF ReadDb, Compare, Diff, Database
  <2>4. \E l \in Labels : pc' = [pc EXCEPT ![t] = l]
    BY <1>8 DEF ReadDb, Compare, Diff, Goto, Labels
  <2> QED
    BY <1>1, <1>d, <1>t, <2>1, <2>2, <2>3, <2>4
<1>9. CASE Move(t)
  <2>1. db # Absent
    BY <1>9 DEF Move, Goto, IInv, Late
  <2>2. temp' \in Database /\ db' \in Database /\ db' # Absent
    BY <1>d, <1>9, <2>1 DEF Move, Database
  <2>3. fd' \in [Threads -> {"none", "temp", "db", "gone"}]
    BY <1>t, <1>9 DEF Move
  <2> QED
    BY <1>1, <1>d, <1>t, <1>9, <2>1, <2>2, <2>3 DEF Move, Goto, Labels, Late
<1> QED
  BY <1>2, <1>3, <1>4, <1>5, <1>6, <1>7, <1>8, <1>9 DEF Step

LEMMA NextTyped ==
  ASSUME IInv, [Next]_vars
  PROVE  IInv'
<1>1. CASE \E t \in Threads : Step(t)
  BY <1>1, StepTyped
<1>2. CASE Kill
  <2>1. /\ pc' = [t \in Threads |-> "idle"] /\ fd' = [t \in Threads |-> "none"]
        /\ UNCHANGED << fs, db, todo, hashes, content, known, alerted, overlap >>
        /\ kills' = kills + 1 /\ kills < MaxKills /\ temp' \in {Cut, temp}
    BY <1>2 DEF Kill
  <2>2. kills' \in 0 .. MaxKills /\ Cut \in Database
    BY <2>1, ArtilleryMonitorAssumption DEF IInv, TypeOK, Database, ArtilleryMonitorAssumption
  <2> QED
    BY <2>1, <2>2 DEF IInv, TypeOK, Labels, Late
<1>3. ASSUME NEW f \in Files, Change(f)
      PROVE  IInv'
  <2>1. fs[f] \in 0 .. MaxVersion /\ MaxVersion \in Nat
    BY ArtilleryMonitorAssumption DEF IInv, TypeOK, Versions, ArtilleryMonitorAssumption
  <2>2. fs' \in Versions
    BY <1>3, <2>1 DEF Change, IInv, TypeOK, Versions
  <2> QED
    BY <1>3, <2>2 DEF Change, local, IInv, TypeOK
<1>4. CASE UNCHANGED vars
  BY <1>4 DEF vars, local, IInv, TypeOK
<1> QED
  BY <1>1, <1>2, <1>3, <1>4 DEF Next

\* The database is made before anybody reads it and stays, with any number of scans at
\* a time and kills between any two steps.
THEOREM Inductive ==
  Spec => []IInv
<1>1. Init => IInv
  <2>1. /\ Cut \in Database /\ FirstSeen \in Versions /\ FirstSeen \in Database
        /\ Absent \in Database
    BY FirstSeenIsVersion DEF Database
  <2>2. MaxKills \in Nat
    BY ArtilleryMonitorAssumption DEF ArtilleryMonitorAssumption
  <2> SUFFICES ASSUME Init
               PROVE  IInv
    OBVIOUS
  <2>3. pc \in [Threads -> Labels] /\ \A t \in Threads : pc[t] = "idle"
    BY DEF Init, Labels
  <2>4. TypeOK
    <3>1. db \in Database /\ temp \in Database /\ kills \in 0 .. MaxKills
      BY <2>1, <2>2 DEF Init
    <3>2. hashes \in [Threads -> Versions] /\ content \in [Threads -> Database]
      BY <2>1 DEF Init
    <3> QED
      BY <2>1, <2>3, <3>1, <3>2 DEF Init, TypeOK
  <2> QED
    BY <2>3, <2>4 DEF IInv, Late
<1>2. IInv /\ [Next]_vars => IInv'
  BY NextTyped
<1> QED
  BY <1>1, <1>2, PTL DEF Spec

\* Every variable has its type, and a thread that reads the database finds one.
THEOREM TypeCorrect ==
  Spec => []TypeOK
<1>1. IInv => TypeOK
  BY DEF IInv
<1> QED
  BY <1>1, Inductive, PTL

-----------------------------------------------------------------------------
(* What a report names.                                                    *)

Had(versions) == \A f \in Files : versions[f] <= fs[f]

\* All that a scan knows, has written or has told of a file is a version it had.
HInv ==
  /\ \A t \in Threads : Had(hashes[t])
  /\ temp \in Versions => Had(temp)
  /\ db \in Versions => Had(db)
  /\ Had(known)

LEMMA StepHad ==
  ASSUME IInv, HInv, NEW t \in Threads, Step(t)
  PROVE  HInv'
<1>d. /\ hashes \in [Threads -> Versions] /\ fs \in Versions
      /\ Cut \notin Versions /\ Absent \notin Versions
      /\ Had(hashes[t]) /\ Had(known)
      /\ temp \in Database /\ db \in Database
      /\ temp \in Versions => Had(temp)
      /\ db \in Versions => Had(db)
      /\ \A u \in Threads : Had(hashes[u])
  BY FirstSeenIsVersion DEF IInv, TypeOK, HInv
<1>k. fs' = fs
  BY DEF Step, Start, Hash, CutTemp, WriteTemp, First, Fill, ReadDb, Compare, Diff, Move
<1>h. \A v : Had(v)' <=> \A f \in Files : v'[f] <= fs[f]
  BY <1>k DEF Had
<1>1. ASSUME UNCHANGED hashes,
             temp' \in {temp, db, Cut, Absent, hashes[t]}, db' \in {temp, db, Cut, Absent, hashes[t]},
             known' \in {known, hashes[t]} \/ (known' = temp /\ temp \in Versions)
      PROVE  HInv'
  BY <1>1, <1>d, <1>k DEF HInv, Had
<1>2. CASE Start(t)
  BY <1>1, <1>2 DEF Start
<1>3. ASSUME NEW f \in Files, Hash(t, f)
      PROVE  HInv'
  <2>1. /\ hashes' = [hashes EXCEPT ![t] = [hashes[t] EXCEPT ![f] = fs[f]]]
        /\ UNCHANGED << temp, db, known >>
    BY <1>3 DEF Hash
  <2>2. hashes[t] \in [Files -> 0 .. MaxVersion] /\ fs[f] \in Nat
    BY <1>d DEF Versions
  <2>3. \A g \in Files : hashes'[t][g] <= fs[g]
    BY <1>d, <2>1, <2>2 DEF Had
  <2>4. \A u \in Threads : \A g \in Files : hashes'[u][g] <= fs[g]
    BY <1>d, <2>1, <2>3 DEF Had
  <2> QED
    BY <1>d, <1>k, <2>1, <2>4 DEF HInv, Had
<1>4. CASE CutTemp(t)
  BY <1>1, <1>4 DEF CutTemp
<1>5. CASE WriteTemp(t) \/ Fill(t)
  BY <1>1, <1>5 DEF WriteTemp, Fill, Close
<1>6. CASE First(t)
  BY <1>1, <1>6 DEF First
<1>7. CASE ReadDb(t) \/ Compare(t)
  BY <1>1, <1>7 DEF ReadDb, Compare
<1>8. CASE Diff(t)
  BY <1>1, <1>8, <1>d DEF Diff, Database
<1>9. CASE Move(t)
  BY <1>1, <1>9 DEF Move
<1> QED
  BY <1>2, <1>3, <1>4, <1>5, <1>6, <1>7, <1>8, <1>9 DEF Step

LEMMA NextHad ==
  ASSUME IInv, HInv, [Next]_vars
  PROVE  HInv'
<1>1. CASE \E t \in Threads : Step(t)
  BY <1>1, StepHad
<1>2. CASE Kill
  <2>1. UNCHANGED << fs, db, hashes, known >> /\ temp' \in {Cut, temp}
    BY <1>2 DEF Kill
  <2> QED
    BY <2>1, FirstSeenIsVersion DEF HInv, Had
<1>3. ASSUME NEW f \in Files, Change(f)
      PROVE  HInv'
  <2>1. /\ UNCHANGED << temp, db, hashes, known >>
        /\ fs \in [Files -> 0 .. MaxVersion] /\ fs' = [fs EXCEPT ![f] = fs[f] + 1]
    BY <1>3 DEF Change, local, IInv, TypeOK, Versions
  <2>2. \A v \in Versions : Had(v) => \A g \in Files : v[g] <= fs'[g]
    <3> SUFFICES ASSUME NEW v \in Versions, Had(v), NEW g \in Files
                 PROVE  v[g] <= fs'[g]
      OBVIOUS
    <3>1. v[g] \in Int /\ v[g] <= fs[g] /\ fs[g] \in Int /\ fs'[g] \in {fs[g], fs[g] + 1}
      BY <2>1 DEF Versions, Had
    <3> QED
      BY <3>1
  <2>3. known \in Versions /\ \A t \in Threads : hashes[t] \in Versions
    BY DEF IInv, TypeOK
  <2> QED
    BY <2>1, <2>2, <2>3 DEF HInv, Had
<1>4. CASE UNCHANGED vars
  BY <1>4 DEF vars, local, HInv, Had
<1> QED
  BY <1>1, <1>2, <1>3, <1>4 DEF Next

-----------------------------------------------------------------------------
(* Until two scans overlap.                                                *)

AtWork(t) == pc[t] # "idle"

InTurn ==
  ~ overlap => \A t, u \in Threads : AtWork(t) /\ AtWork(u) => t = u

Early == {"idle", "scan", "write", "first"}

\* Before any change and any kill, where thread t is tells what the files hold.
CalmAt(t) ==
  /\ hashes[t] = FirstSeen
  /\ pc[t] \notin {"write", "fill"} => fd[t] = "none"
  /\ pc[t] = "write" => fd[t] = "temp"
  /\ pc[t] \in {"first", "fill"} => temp = FirstSeen
  /\ pc[t] = "fill" => fd[t] = "db"
  /\ pc[t] \in {"read", "compare", "diff", "move"} => db = FirstSeen /\ temp = FirstSeen

Calm ==
  fs = FirstSeen /\ kills = 0 /\ ~ overlap =>
    /\ ~ alerted
    /\ \A t \in Threads : CalmAt(t)
    /\ (\A t \in Threads : pc[t] \in Early) => db \in {Absent, FirstSeen}

\* A file that has changed is not as it was first seen again, nor a kill undone.
LEMMA NoWayBack ==
  ASSUME IInv, [Next]_vars, fs' = FirstSeen, kills' = 0
  PROVE  UNCHANGED << fs, kills >>
<1>1. ASSUME NEW f \in Files, Change(f)
      PROVE  FALSE
  <2>1. fs[f] \in Nat /\ fs'[f] = fs[f] + 1
    BY <1>1 DEF Change, IInv, TypeOK, Versions
  <2>2. fs'[f] = 0
    BY DEF FirstSeen
  <2> QED
    BY <2>1, <2>2
<1>2. CASE Kill
  <2>1. kills \in Nat /\ kills' = kills + 1
    BY <1>2 DEF Kill, IInv, TypeOK
  <2> QED
    BY <2>1
<1>3. CASE \E t \in Threads : Step(t)
  BY <1>3 DEF Step, Start, Hash, CutTemp, WriteTemp, First, Fill, ReadDb, Compare, Diff, Move
<1>4. CASE UNCHANGED vars
  BY <1>4 DEF vars
<1> QED
  BY <1>1, <1>2, <1>3, <1>4 DEF Next

\* A scan goes on, or begins when no other is at work: the others stay where they are.
LEMMA TurnStep ==
  ASSUME IInv, InTurn, NEW t \in Threads, Step(t)
  PROVE  /\ InTurn'
         /\ ~ overlap' => ~ overlap /\ \A u \in Threads \ {t} : pc[u] = "idle"
         /\ \A u \in Threads \ {t} : pc'[u] = pc[u]
<1>d. pc \in [Threads -> Labels]
  BY DEF IInv
<1>1. \/ Start(t)
      \/ pc[t] # "idle" /\ UNCHANGED overlap /\ ((\E l : pc' = [pc EXCEPT ![t] = l]) \/ UNCHANGED pc)
  BY DEF Step, Hash, CutTemp, WriteTemp, First, Fill, ReadDb, Compare, Diff, Move, Goto
<1>2. CASE Start(t)
  BY <1>2, <1>d DEF Start, Goto, InTurn, AtWork
<1>3. CASE pc[t] # "idle" /\ UNCHANGED overlap
           /\ ((\E l : pc' = [pc EXCEPT ![t] = l]) \/ UNCHANGED pc)
  BY <1>3, <1>d DEF InTurn, AtWork
<1> QED
  BY <1>1, <1>2, <1>3

LEMMA CalmStep ==
  ASSUME IInv, InTurn, Calm, NEW t \in Threads, Step(t), fs = FirstSeen, kills = 0
  PROVE  Calm'
<1> SUFFICES ASSUME ~ overlap'
             PROVE  Calm'
  BY DEF Calm
<1>d. /\ pc \in [Threads -> Labels] /\ hashes \in [Threads -> Versions]
      /\ fd \in [Threads -> {"none", "temp", "db", "gone"}]
      /\ FirstSeen # Absent /\ FirstSeen \in Versions /\ Cut # Absent
  BY FirstSeenIsVersion DEF IInv, TypeOK
<1>o. ~ overlap /\ \A u \in Threads \ {t} : pc[u] = "idle" /\ pc'[u] = "idle"
  BY TurnStep
<1>a. ~ alerted /\ \A u \in Threads : CalmAt(u)
  BY <1>o DEF Calm
<1>c. /\ ~ alerted /\ hashes[t] = FirstSeen
      /\ pc[t] \in Early => db \in {Absent, FirstSeen}
      /\ pc[t] \notin {"write", "fill"} => fd[t] = "none"
      /\ pc[t] = "write" => fd[t] = "temp"
      /\ pc[t] \in {"first", "fill"} => temp = FirstSeen
      /\ pc[t] = "fill" => fd[t] = "db"
      /\ pc[t] \in {"read", "compare", "diff", "move"} => db = FirstSeen /\ temp = FirstSeen
  <2>1. pc[t] \in Early => \A u \in Threads : pc[u] \in Early
    BY <1>o DEF Early
  <2> QED
    BY <1>a, <1>o, <2>1 DEF Calm, CalmAt
<1>u. \A u \in Threads \ {t} : hashes[u] = FirstSeen /\ fd[u] = "none"
  BY <1>a, <1>o DEF CalmAt
<1>v. \A u \in Threads \ {t} : hashes'[u] = FirstSeen /\ fd'[u] = "none"
  BY <1>d, <1>u DEF Step, Start, Hash, CutTemp, WriteTemp, First, Fill, ReadDb, Compare, Diff, Move,
                    Close, Opens
\* Of thread t alone: what is left to show.
<1> DEFINE Done == /\ ~ alerted' /\ CalmAt(t)'
                   /\ pc'[t] \in Early => db' \in {Absent, FirstSeen}
<1> USE DEF Goto, Opens, Close, CalmAt, Early
<1>11. Done
  <2>1. CASE Start(t)
    BY <2>1, <1>c, <1>d DEF Start
  <2>2. ASSUME NEW f \in Files, Hash(t, f)
        PROVE  Done
    <3>1. hashes' = [hashes EXCEPT ![t] = [hashes[t] EXCEPT ![f] = fs[f]]]
      BY <2>2 DEF Hash
    <3>2. fs[f] = 0 /\ [FirstSeen EXCEPT ![f] = 0] = FirstSeen
      BY DEF FirstSeen
    <3>3. hashes'[t] = FirstSeen
      BY <1>c, <1>d, <3>1, <3>2
    <3> QED
      BY <2>2, <1>c, <1>d, <3>3 DEF Hash
  <2>3. CASE CutTemp(t)
    BY <2>3, <1>c, <1>d DEF CutTemp
  <2>4. CASE WriteTemp(t)
    BY <2>4, <1>c, <1>d DEF WriteTemp
  <2>5. CASE First(t)
    <3>1. CASE db = Absent
      BY <2>5, <1>c, <1>d, <3>1 DEF First
    <3>2. CASE db # Absent
      BY <2>5, <1>c, <1>d, <3>2 DEF First
    <3> QED
      BY <3>1, <3>2
  <2>6. CASE Fill(t)
    BY <2>6, <1>c, <1>d DEF Fill
  <2>7. CASE ReadDb(t)
    BY <2>7, <1>c, <1>d DEF ReadDb
  <2>8. CASE Compare(t)
    <3>1. \E l \in {"move", "diff"} : pc' = [pc EXCEPT ![t] = l]
      BY <2>8 DEF Compare
    <3> QED
      BY <2>8, <1>c, <1>d, <3>1 DEF Compare
  <2>9. CASE Diff(t)
    BY <2>9, <1>c, <1>d DEF Diff
  <2>10. CASE Move(t)
    <3>1. pc[t] = "move" /\ pc'[t] = "idle"
      BY <2>10, <1>d DEF Move
    <3>2. db' = FirstSeen /\ UNCHANGED << alerted, hashes >> /\ fd'[t] = "none"
      <4>1. temp = FirstSeen /\ db = FirstSeen /\ fd[t] = "none"
        BY <1>c, <3>1
      <4> QED
        BY <2>10, <1>d, <4>1 DEF Move
    <3> QED
      BY <1>c, <1>d, <3>1, <3>2
  <2> QED
    BY <2>1, <2>2, <2>3, <2>4, <2>5, <2>6, <2>7, <2>8, <2>9, <2>10 DEF Step
<1>12. ASSUME NEW u \in Threads \ {t}
       PROVE  CalmAt(u)'
  BY <1>o, <1>v, <1>12
<1> HIDE DEF CalmAt, Early
<1> QED
  BY <1>11, <1>12 DEF Calm

LEMMA NextCalm ==
  ASSUME IInv, InTurn, Calm, [Next]_vars
  PROVE  InTurn' /\ Calm'
<1>1. InTurn'
  <2>1. CASE \E t \in Threads : Step(t)
    BY <2>1, TurnStep
  <2>2. CASE Kill
    BY <2>2 DEF Kill, InTurn, AtWork
  <2>3. CASE (\E f \in Files : Change(f)) \/ UNCHANGED vars
    BY <2>3 DEF Change, vars, local, InTurn, AtWork
  <2> QED
    BY <2>1, <2>2, <2>3 DEF Next
<1>2. Calm'
  <2> SUFFICES ASSUME fs' = FirstSeen, kills' = 0
               PROVE  Calm'
    BY DEF Calm, FirstSeen
  <2>1. UNCHANGED << fs, kills >> /\ fs = FirstSeen /\ kills = 0
    BY NoWayBack DEF FirstSeen
  <2>2. CASE \E u \in Threads : Step(u)
    BY <2>1, <2>2, CalmStep
  <2>3. ASSUME NEW f \in Files, Change(f)
        PROVE  FALSE
    BY <2>1, <2>3 DEF Change, IInv, TypeOK, Versions, FirstSeen
  <2>4. ~ Kill
    BY <2>1 DEF Kill
  <2>5. CASE UNCHANGED vars
    BY <2>5 DEF vars, local, Calm, CalmAt, FirstSeen
  <2> QED
    BY <2>2, <2>3, <2>4, <2>5 DEF Next
<1> QED
  BY <1>1, <1>2

\* "If we don't match then there was something that was changed" (monitor.py:98): with
\* any number of scans at a time, no report names a version that a file has not had;
\* and until one begins before another has ended, nothing is reported before a file has
\* changed, unless a kill has left a database half made.
THEOREM ScansHonest ==
  Spec => []OnlyRealChanges
<1>1. Init => HInv /\ InTurn /\ Calm
  <2> SUFFICES ASSUME Init
               PROVE  HInv /\ InTurn /\ Calm
    OBVIOUS
  <2>1. Had(FirstSeen) /\ Cut \notin Versions /\ Absent \notin Versions
    BY FirstSeenIsVersion DEF Init, Had, FirstSeen
  <2>2. HInv
    BY <2>1 DEF Init, HInv
  <2>3. InTurn
    BY DEF Init, InTurn, AtWork
  <2>4. Calm
    BY DEF Init, Calm, CalmAt
  <2> QED
    BY <2>2, <2>3, <2>4
<1>2. IInv /\ HInv /\ InTurn /\ Calm /\ [Next]_vars => (HInv /\ InTurn /\ Calm)'
  BY NextHad, NextCalm
<1>3. IInv /\ HInv /\ Calm => OnlyRealChanges
  BY DEF Calm, HInv, Had, OnlyRealChanges, IInv, TypeOK
<1> QED
  BY <1>1, <1>2, <1>3, Inductive, PTL DEF Spec

-----------------------------------------------------------------------------
(* The ssh monitor.                                                        *)

\* A line that can be banned for, with no fewer lines since the last such one.
Due(j) ==
  /\ j \in DOMAIN log /\ log[j] \in IPs /\ j >= Attempts
  /\ \A m \in resets : m < j => j - m >= Attempts

\* The lines at which the counter has started again are the ones that are due, up to
\* the last of them and up to the line it has come to; and it counts from the last.
Due1 == \A j \in resets : Due(j)
Due2 == \A j \in DOMAIN log : Due(j) /\ (j < pos \/ \E k \in resets : j < k) => j \in resets
CountsOn ==
  /\ \A m \in resets : m < pos => m <= pos - 1 - counter
  /\ counter = pos - 1 \/ pos - 1 - counter \in resets

Owned == \A a \in banned : \E i \in resets : log[i] = a

SshIInv ==
  /\ SshTypeOK /\ Owned
  /\ OnlyStrangers => Due1 /\ Due2 /\ CountsOn

\* What the counter says of the line that is read.
LEMMA FullWhenDue ==
  ASSUME SshIInv, OnlyStrangers, pos \in DOMAIN log
  PROVE  Full /\ log[pos] \in IPs <=> Due(pos)
<1>1. /\ pos \in Nat /\ counter \in Nat /\ counter <= pos - 1
      /\ resets \subseteq DOMAIN log /\ DOMAIN log \subseteq Nat
      /\ Attempts \in Nat \ {0}
  BY SshMonitorAssumption DEF SshIInv, SshTypeOK, SshMonitorAssumption
<1>2. CountsOn
  BY DEF SshIInv
<1>3. ASSUME Full, log[pos] \in IPs
      PROVE  Due(pos)
  <2>1. counter + 1 >= Attempts /\ pos >= Attempts
    BY <1>1, <1>3 DEF Full
  <2>2. ASSUME NEW m \in resets, m < pos
        PROVE  pos - m >= Attempts
    <3>1. m \in Nat /\ m <= pos - 1 - counter
      BY <1>1, <1>2, <2>2 DEF CountsOn
    <3> QED
      BY <1>1, <2>1, <3>1
  <2> QED
    BY <1>3, <2>1, <2>2 DEF Due
<1>4. ASSUME Due(pos)
      PROVE  Full /\ log[pos] \in IPs
  <2>1. CASE counter = pos - 1
    BY <1>1, <1>4, <2>1 DEF Due, Full
  <2>2. CASE pos - 1 - counter \in resets
    <3>1. pos - 1 - counter < pos
      BY <1>1
    <3>2. pos - (pos - 1 - counter) >= Attempts
      BY <1>4, <2>2, <3>1 DEF Due
    <3> QED
      BY <1>1, <1>4, <3>2 DEF Due, Full
  <2> QED
    BY <1>2, <2>1, <2>2 DEF CountsOn
<1> QED
  BY <1>3, <1>4

\* A log that has grown has the old lines where they were.
LEMMA LogGrows ==
  ASSUME log \in Seq(Hosts), NEW a \in Hosts, log' = Append(log, a)
  PROVE  /\ log' \in Seq(Hosts) /\ Len(log') = Len(log) + 1
         /\ DOMAIN log = 1 .. Len(log) /\ DOMAIN log' = 1 .. Len(log) + 1
         /\ \A i \in DOMAIN log : log'[i] = log[i]
         /\ OnlyStrangers' => OnlyStrangers
<1>1. /\ log' \in Seq(Hosts) /\ Len(log') = Len(log) + 1
      /\ \A i \in 1 .. Len(log) : log'[i] = log[i]
  OBVIOUS
<1>2. DOMAIN log = 1 .. Len(log) /\ DOMAIN log' = 1 .. Len(log) + 1
  BY <1>1
<1> QED
  BY <1>1, <1>2 DEF OnlyStrangers

\* At the start nothing is read and nobody is banned.
LEMMA SshInitially == SshInit => SshIInv
<1> SUFFICES ASSUME SshInit PROVE SshIInv
  OBVIOUS
<1>1. SshTypeOK
  BY SshMonitorAssumption DEF SshMonitorAssumption, SshInit, SshTypeOK
<1>2. Due1 /\ Due2 /\ CountsOn /\ Owned
  BY DEF SshInit, Due1, Due2, CountsOn, Owned
<1> QED
  BY <1>1, <1>2 DEF SshIInv

\* A failed password adds a line: what is known of the others stays.
LEMMA FailKeeps == ASSUME SshIInv, NEW a \in Hosts, Fail(a) PROVE SshIInv'
<1>1. /\ log \in Seq(Hosts) /\ log' = Append(log, a) /\ Len(log) < MaxLog
      /\ UNCHANGED << pos, counter, banlist, banned, resets >>
      /\ pos \in 1 .. Len(log) + 1 /\ resets \subseteq DOMAIN log
      /\ MaxLog \in Nat
  BY SshMonitorAssumption DEF SshIInv, SshTypeOK, Fail, SshMonitorAssumption
<1>2. /\ log' \in Seq(Hosts) /\ Len(log') = Len(log) + 1
      /\ DOMAIN log = 1 .. Len(log) /\ DOMAIN log' = 1 .. Len(log) + 1
      /\ \A i \in DOMAIN log : log'[i] = log[i]
      /\ OnlyStrangers' => OnlyStrangers
  BY <1>1, LogGrows
<1>3. Len(log) \in Nat
  BY <1>1
<1>4. SshTypeOK'
  BY <1>1, <1>2, <1>3 DEF SshIInv, SshTypeOK
<1>5. Owned'
  BY <1>1, <1>2 DEF SshIInv, Owned
<1>6. \A j \in DOMAIN log : Due(j)' <=> Due(j)
  BY <1>1, <1>2, <1>3 DEF Due
<1>7. ASSUME OnlyStrangers'
      PROVE  Due1' /\ Due2' /\ CountsOn'
  <2>1. Due1 /\ Due2 /\ CountsOn
    BY <1>2, <1>7 DEF SshIInv
  <2>2. Due1'
    BY <1>1, <1>6, <2>1 DEF Due1
  <2>3. Due2'
    <3> SUFFICES ASSUME NEW j \in DOMAIN log', Due(j)', j < pos' \/ \E k \in resets' : j < k
                 PROVE  j \in resets'
      BY DEF Due2
    <3>1. j \in DOMAIN log
      BY <1>1, <1>2, <1>3
    <3> QED
      BY <1>1, <1>6, <2>1, <3>1 DEF Due2
  <2>4. CountsOn'
    BY <1>1, <2>1 DEF CountsOn
  <2> QED
    BY <2>2, <2>3, <2>4
<1> QED
  BY <1>4, <1>5, <1>7 DEF SshIInv

\* The line that is read is due when the counter starts again there, and no other is.
LEMMA ReadLineKeeps == ASSUME SshIInv, ReadLine PROVE SshIInv'
<1> DEFINE a == log[pos]
<1>1. /\ log \in Seq(Hosts) /\ log' = log /\ pos \in 1 .. Len(log) /\ pos' = pos + 1
      /\ counter \in 0 .. pos - 1 /\ pos \in DOMAIN log /\ resets \subseteq DOMAIN log
      /\ DOMAIN log = 1 .. Len(log) /\ Len(log) \in Nat
  BY DEF SshIInv, SshTypeOK, ReadLine
<1>2. CountLine(a)
  BY DEF ReadLine
<1>3. /\ \/ counter' = 0 /\ resets' = resets \union {pos}
         \/ counter' = counter + 1 /\ resets' = resets
      /\ \/ UNCHANGED << banlist, banned >>
         \/ /\ a \in IPs /\ banlist' = banlist \union {a} /\ banned' = banned \union {a}
            /\ resets' = resets \union {pos}
  BY <1>2 DEF CountLine, StartsAgain, GoesOn, BanIt
<1>4. SshTypeOK'
  <2>1. banlist' \subseteq IPs /\ banned' \subseteq IPs
    BY <1>3 DEF SshIInv, SshTypeOK
  <2>2. counter' \in 0 .. pos' - 1 /\ pos' \in 1 .. Len(log') + 1
    BY <1>1, <1>3
  <2>3. resets' \subseteq DOMAIN log'
    BY <1>1, <1>3
  <2> QED
    BY <1>1, <2>1, <2>2, <2>3 DEF SshIInv, SshTypeOK
<1>5. Owned'
  BY <1>1, <1>3 DEF SshIInv, Owned
<1>6. ASSUME OnlyStrangers'
      PROVE  Due1' /\ Due2' /\ CountsOn'
  <2>1. OnlyStrangers /\ Due1 /\ Due2 /\ CountsOn
    BY <1>1, <1>6 DEF SshIInv, OnlyStrangers
  <2>2. a \notin Whitelist
    BY <1>1, <2>1 DEF OnlyStrangers
  <2>3. Full /\ a \in IPs <=> Due(pos)
    BY <1>1, <2>1, FullWhenDue
  <2>4. CASE Due(pos)
    <3>1. counter' = 0 /\ resets' = resets \union {pos}
      BY <1>2, <2>2, <2>3, <2>4 DEF CountLine, StartsAgain, BanIt
    <3>2. CountsOn'
      <4>1. \A m \in resets' : m < pos' => m <= pos' - 1 - counter'
        BY <1>1, <3>1
      <4>2. pos' - 1 - counter' \in resets'
        BY <1>1, <3>1
      <4> QED
        BY <4>1, <4>2 DEF CountsOn
    <3>3. CASE pos \in resets
      <4>1. resets' = resets
        BY <3>1, <3>3
      <4>2. \A j : Due(j)' <=> Due(j)
        BY <1>1, <4>1 DEF Due
      <4>3. Due1'
        BY <2>1, <4>1, <4>2 DEF Due1
      <4>4. Due2'
        BY <1>1, <2>1, <3>3, <4>1, <4>2 DEF Due2
      <4> QED
        BY <3>2, <4>3, <4>4
    <3>4. CASE pos \notin resets
      <4>1. \A m \in resets : m < pos
        BY <1>1, <2>1, <2>4, <3>4 DEF Due2
      <4>2. \A j \in DOMAIN log : j <= pos => (Due(j)' <=> Due(j))
        BY <1>1, <3>1 DEF Due
      <4>3. Due1'
        BY <1>1, <2>1, <2>4, <3>1, <4>1, <4>2 DEF Due1
      <4>4. Due2'
        <5> SUFFICES ASSUME NEW j \in DOMAIN log', Due(j)', j < pos' \/ \E k \in resets' : j < k
                     PROVE  j \in resets'
          BY DEF Due2
        <5>1. j \in DOMAIN log /\ j <= pos
          BY <1>1, <3>1, <4>1
        <5>2. Due(j)
          BY <4>2, <5>1
        <5> QED
          BY <1>1, <2>1, <3>1, <5>1, <5>2 DEF Due2
      <4> QED
        BY <3>2, <4>3, <4>4
    <3> QED
      BY <3>3, <3>4
  <2>5. CASE ~ Due(pos)
    <3>1. counter' = counter + 1 /\ resets' = resets
      BY <1>2, <2>3, <2>5 DEF CountLine, GoesOn
    <3>2. pos \notin resets
      BY <2>1, <2>5 DEF Due1
    <3>3. \A j : Due(j)' <=> Due(j)
      BY <1>1, <3>1 DEF Due
    <3>4. Due1'
      BY <2>1, <3>1, <3>3 DEF Due1
    <3>5. Due2'
      <4> SUFFICES ASSUME NEW j \in DOMAIN log', Due(j)', j < pos' \/ \E k \in resets' : j < k
                   PROVE  j \in resets'
        BY DEF Due2
      <4>1. j \in DOMAIN log /\ Due(j) /\ j # pos
        BY <1>1, <2>5, <3>3
      <4>2. j < pos \/ \E k \in resets : j < k
        BY <1>1, <3>1, <4>1
      <4> QED
        BY <2>1, <3>1, <4>1, <4>2 DEF Due2
    <3>6. CountsOn'
      <4>1. pos' - 1 - counter' = pos - 1 - counter
        BY <1>1, <3>1
      <4>2. \A m \in resets : m < pos' => m < pos
        BY <1>1, <3>2
      <4>3. counter = pos - 1 => counter' = pos' - 1
        BY <1>1, <3>1
      <4> QED
        BY <2>1, <3>1, <4>1, <4>2, <4>3 DEF CountsOn
    <3> QED
      BY <3>4, <3>5, <3>6
  <2> QED
    BY <2>4, <2>5
<1> QED
  BY <1>4, <1>5, <1>6 DEF SshIInv

\* A round ends with the counter at rest.
LEMMA NextRoundKeeps == ASSUME SshIInv, NextRound PROVE SshIInv'
<1>1. /\ UNCHANGED << log, banlist, banned, resets >> /\ pos' = 1 /\ counter' = 0
      /\ resets \subseteq DOMAIN log /\ log \in Seq(Hosts) /\ DOMAIN log = 1 .. Len(log)
      /\ pos \in 1 .. Len(log) + 1 /\ Len(log) \in Nat
  BY DEF SshIInv, SshTypeOK, NextRound
<1>2. SshTypeOK' /\ Owned'
  BY <1>1 DEF SshIInv, SshTypeOK, Owned
<1>3. \A j : Due(j)' <=> Due(j)
  BY <1>1 DEF Due
<1>4. ASSUME OnlyStrangers'
      PROVE  Due1' /\ Due2' /\ CountsOn'
  <2>1. Due1 /\ Due2
    BY <1>1, <1>4 DEF SshIInv, OnlyStrangers
  <2>2. Due1' /\ Due2'
    BY <1>1, <1>3, <2>1 DEF Due1, Due2
  <2>3. CountsOn'
    BY <1>1 DEF CountsOn
  <2> QED
    BY <2>2, <2>3
<1> QED
  BY <1>2, <1>4 DEF SshIInv

\* The other threads change banlist.txt alone.
LEMMA OthersKeep == ASSUME SshIInv, NEW a \in IPs, Others(a) PROVE SshIInv'
BY DEF SshIInv, SshTypeOK, Owned, Due1, Due2, Due, CountsOn, OnlyStrangers, Others

\* Every step keeps the invariant.
THEOREM SshInductive == SshSpec => []SshIInv
<1>1. SshInit => SshIInv
  BY SshInitially
<1>2. SshIInv /\ [SshNext]_sshVars => SshIInv'
  <2> SUFFICES ASSUME SshIInv, [SshNext]_sshVars PROVE SshIInv'
    OBVIOUS
  <2>1. ASSUME NEW a \in Hosts, Fail(a) PROVE SshIInv'
    BY <2>1, FailKeeps
  <2>2. CASE ReadLine
    BY <2>2, ReadLineKeeps
  <2>3. CASE NextRound
    BY <2>3, NextRoundKeeps
  <2>4. ASSUME NEW a \in Meddled, Others(a) PROVE SshIInv'
    BY <2>4, OthersKeep, SshMonitorAssumption DEF SshMonitorAssumption
  <2>5. CASE UNCHANGED sshVars
    BY <2>5 DEF SshIInv, SshTypeOK, Owned, Due1, Due2, Due, CountsOn, OnlyStrangers, sshVars
  <2> QED BY <2>1, <2>2, <2>3, <2>4, <2>5 DEF SshNext, Monitor
<1> QED BY <1>1, <1>2, PTL DEF SshSpec

\* The monitor's state keeps its type, and its counter its range.
THEOREM SshTypeCorrect == SshSpec => []SshTypeOK
<1>1. SshIInv => SshTypeOK
  BY DEF SshIInv
<1> QED BY <1>1, SshInductive, PTL

\* Each ban takes SSH_BRUTE_ATTEMPTS failed passwords of its own, whatever log, number
\* and meddling, and wherever the passwords come from.
THEOREM BansAreApart == SshSpec => []BansApart
<1>1. SshIInv => BansApart
  <2> SUFFICES ASSUME SshIInv, OnlyStrangers
               PROVE  /\ Owned
                      /\ \A i \in resets : i >= Attempts
                      /\ \A i, j \in resets : i < j => j - i >= Attempts
    BY DEF BansApart, Owned
  <2> QED
    BY DEF SshIInv, Due1, Due
<1> QED BY <1>1, SshInductive, PTL
=============================================================================
