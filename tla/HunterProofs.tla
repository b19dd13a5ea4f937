---------------------------- MODULE HunterProofs ----------------------------
(***************************************************************************)
(* For any number of processes, files and pids used again: the hunter      *)
(* kills only by a pid that has held a tracked file.                       *)
(***************************************************************************)
EXTENDS Hunter, TLAPS

\* Somebody with this pid, up to its process number g, has held a tracked file.
HeldBy(p, g) == \E h \in held : h[1] = p /\ h[2] <= g

\* held has every process that holds one, and a process that is there has a number.
Noted ==
  /\ \A p \in Pids, f \in Tracked : f \in handles[p] => <<p, gen[p]>> \in held
  /\ \A p \in alive : gen[p] # 0

\* However old the list is: gen only grows.
ListNoted == \A line \in lsof : line[1] \in Tracked => HeldBy(line[2], gen[line[2]])

IInv == TypeOK /\ Noted /\ ListNoted /\ OnlyHoldersKilled

LEMMA SystemKeeps ==
  ASSUME IInv, System
  PROVE  IInv'
<1>c. MaxGen \in Nat /\ Tracked \subseteq Paths
  BY HunterAssumption DEF HunterAssumption
<1>1. /\ UNCHANGED << hp, lsof, left, killed >> /\ held \subseteq held'
      /\ \A p \in Pids : gen'[p] >= gen[p]
  BY DEF System, Fork, Open, Shut, Exit, IInv, TypeOK
<1>2. ListNoted'
  <2> SUFFICES ASSUME NEW line \in lsof, line[1] \in Tracked
               PROVE  HeldBy(line[2], gen[line[2]])'
    BY <1>1 DEF ListNoted
  <2>1. PICK h \in held : h[1] = line[2] /\ h[2] <= gen[line[2]]
    BY DEF IInv, ListNoted, HeldBy
  <2>2. line[2] \in Pids /\ gen[line[2]] \in Int /\ h[2] \in Int
    BY <2>1 DEF IInv, TypeOK
  <2>3. gen'[line[2]] \in Int
    <3>1. gen' \in [Pids -> 0 .. MaxGen]
      BY <1>c DEF System, Fork, Open, Shut, Exit, IInv, TypeOK
    <3> QED
      BY <2>2, <3>1
  <2>4. gen[line[2]] <= gen'[line[2]]
    BY <1>1, <2>2, <2>3
  <2>5. h[2] <= gen'[line[2]]
    BY <2>1, <2>2, <2>3, <2>4
  <2> QED
    BY <1>1, <2>1, <2>5 DEF HeldBy
<1>3. OnlyHoldersKilled'
  BY <1>1 DEF IInv, OnlyHoldersKilled
<1>4. TypeOK' /\ Noted'
  <2>1. PICK p \in Pids : Fork(p) \/ Exit(p) \/ \E f \in Paths : Open(p, f) \/ Shut(p, f)
    BY DEF System
  <2>t. TypeOK /\ Noted
    BY DEF IInv
  <2>2. CASE Fork(p)
    <3>1. gen'[p] \in 1 .. MaxGen /\ gen' = [gen EXCEPT ![p] = gen[p] + 1] /\ alive' = alive \union {p}
      BY <2>2, <2>t, <1>c DEF Fork, TypeOK
    <3>2. p \notin alive /\ handles[p] = {} /\ UNCHANGED << handles, held >>
      BY <2>2, <2>t DEF Fork, TypeOK
    <3>3. TypeOK'
      BY <1>1, <2>t, <3>1, <3>2 DEF TypeOK
    <3>4. Noted'
      BY <2>t, <3>1, <3>2 DEF TypeOK, Noted
    <3> QED
      BY <3>3, <3>4
  <2>3. CASE Exit(p)
    <3>1. /\ UNCHANGED << gen, held >> /\ alive' = alive \ {p}
          /\ handles' = [handles EXCEPT ![p] = {}]
      BY <2>3 DEF Exit
    <3>2. TypeOK'
      BY <1>1, <2>t, <3>1 DEF TypeOK
    <3>3. Noted'
      BY <2>t, <3>1 DEF TypeOK, Noted
    <3> QED
      BY <3>2, <3>3
  <2>4. ASSUME NEW f \in Paths, Open(p, f)
        PROVE  TypeOK' /\ Noted'
    <3>1. /\ UNCHANGED << gen, alive >> /\ p \in alive
          /\ handles' = [handles EXCEPT ![p] = handles[p] \union {f}]
          /\ held' = IF f \in Tracked THEN held \union {<<p, gen[p]>>} ELSE held
      BY <2>4 DEF Open
    <3>2. gen[p] \in 1 .. MaxGen
      BY <1>c, <2>t, <3>1 DEF TypeOK, Noted
    <3>3. TypeOK'
      BY <1>1, <2>t, <3>1, <3>2 DEF TypeOK
    <3>4. Noted'
      BY <2>t, <3>1 DEF TypeOK, Noted
    <3> QED
      BY <3>3, <3>4
  <2>5. ASSUME NEW f \in Paths, Shut(p, f)
        PROVE  TypeOK' /\ Noted'
    <3>1. /\ UNCHANGED << gen, alive, held >>
          /\ handles' = [handles EXCEPT ![p] = handles[p] \ {f}]
      BY <2>5 DEF Shut
    <3>2. TypeOK'
      BY <1>1, <2>t, <3>1 DEF TypeOK
    <3>3. Noted'
      BY <2>t, <3>1 DEF TypeOK, Noted
    <3> QED
      BY <3>2, <3>3
  <2> QED
    BY <2>1, <2>2, <2>3, <2>4, <2>5
<1> QED
  BY <1>2, <1>3, <1>4 DEF IInv

\* The list names who holds what when it is taken.
LEMMA SnapshotNoted ==
  ASSUME TypeOK, Noted, NEW line \in Snapshot
  PROVE  /\ line \in Paths \X Pids
         /\ line[1] \in Tracked => HeldBy(line[2], gen[line[2]])
<1>1. line \in Paths \X Pids /\ line[1] \in handles[line[2]]
  BY DEF Snapshot
<1>2. ASSUME line[1] \in Tracked
      PROVE  HeldBy(line[2], gen[line[2]])
  <2>1. <<line[2], gen[line[2]]>> \in held
    BY <1>1, <1>2 DEF Noted
  <2>2. gen[line[2]] \in Int
    BY <1>1 DEF TypeOK
  <2>3. <<line[2], gen[line[2]]>>[1] = line[2] /\ <<line[2], gen[line[2]]>>[2] <= gen[line[2]]
    BY <2>2
  <2> QED
    BY <2>1, <2>3 DEF HeldBy
<1> QED
  BY <1>1, <1>2

\* kill -9 of a pid that has held a tracked file
LEMMA KillKeeps ==
  ASSUME TypeOK, Noted, OnlyHoldersKilled, NEW p \in Pids, HeldBy(p, gen[p]), Kill(p),
         UNCHANGED << gen, held >>
  PROVE  /\ alive' \subseteq Pids /\ handles' \in [Pids -> SUBSET Paths]
         /\ \A q \in Pids \ alive' : handles'[q] = {}
         /\ killed' \subseteq Pids \X (1 .. MaxGen)
         /\ Noted' /\ OnlyHoldersKilled'
<1>c. MaxGen \in Nat
  BY HunterAssumption DEF HunterAssumption
<1>1. CASE p \notin alive
  <2>1. UNCHANGED << alive, handles, killed >>
    BY <1>1 DEF Kill
  <2> QED
    BY <2>1 DEF TypeOK, Noted, OnlyHoldersKilled
<1>2. CASE p \in alive
  <2>1. /\ alive' = alive \ {p} /\ handles' = [handles EXCEPT ![p] = {}]
        /\ killed' = killed \union {<<p, gen[p]>>}
    BY <1>2 DEF Kill
  <2>2. gen[p] \in 1 .. MaxGen
    BY <1>c, <1>2 DEF TypeOK, Noted
  <2>3. Noted'
    BY <2>1 DEF TypeOK, Noted
  <2>4. \A k \in killed' : \E h \in held : h[1] = k[1] /\ h[2] <= k[2]
    <3> TAKE k \in killed'
    <3>1. CASE k \in killed
      BY <3>1 DEF OnlyHoldersKilled
    <3>2. CASE k = <<p, gen[p]>>
      BY <3>2 DEF HeldBy
    <3> QED
      BY <2>1, <3>1, <3>2
  <2>5. OnlyHoldersKilled'
    BY <2>4 DEF OnlyHoldersKilled
  <2> QED
    BY <2>1, <2>2, <2>3, <2>5 DEF TypeOK
<1> QED
  BY <1>1, <1>2

LEMMA HuntKeeps ==
  ASSUME IInv, Hunt
  PROVE  IInv'
<1>c. TypeOK /\ Noted /\ ListNoted /\ OnlyHoldersKilled
  BY DEF IInv
<1>1. CASE ParseLsof
  <2>1. UNCHANGED << gen, alive, handles, held, killed >>
    BY <1>1 DEF ParseLsof, procs
  <2>2. Noted' /\ OnlyHoldersKilled'
    BY <1>c, <2>1 DEF Noted, OnlyHoldersKilled
  <2>3. CASE lsof' = Snapshot /\ left' = Snapshot /\ hp' = "walk"
    <3>1. Snapshot \subseteq Paths \X Pids
      BY DEF Snapshot
    <3>2. TypeOK'
      BY <1>c, <2>1, <2>3, <3>1 DEF TypeOK
    <3>3. ListNoted'
      BY <1>c, <2>1, <2>3, SnapshotNoted DEF ListNoted, HeldBy
    <3> QED
      BY <2>2, <3>2, <3>3 DEF IInv
  <2>4. CASE hp' = "dead" /\ UNCHANGED << lsof, left >>
    <3>1. TypeOK' /\ ListNoted'
      BY <1>c, <2>1, <2>4 DEF TypeOK, ListNoted, HeldBy
    <3> QED
      BY <2>2, <3>1 DEF IInv
  <2> QED
    BY <1>1, <2>3, <2>4 DEF ParseLsof
<1>2. CASE Walk
  <2>1. PICK line \in left : Look(line)
    BY <1>2 DEF Walk
  <2>2. /\ left' = left \ {line} /\ UNCHANGED << gen, lsof, held >>
        /\ line \in lsof /\ line[2] \in Pids /\ hp' \in {hp, "dead"}
    BY <1>c, <2>1 DEF Look, TypeOK
  <2>3. ListNoted'
    BY <1>c, <2>2 DEF ListNoted, HeldBy
  <2>4. CASE UNCHANGED << alive, handles, killed >>
    BY <1>c, <2>2, <2>3, <2>4 DEF IInv, TypeOK, Noted, OnlyHoldersKilled
  <2>5. CASE line[1] \in Tracked /\ Kill(line[2])
    <3>1. HeldBy(line[2], gen[line[2]])
      BY <1>c, <2>2, <2>5 DEF ListNoted
    <3>2. /\ alive' \subseteq Pids /\ handles' \in [Pids -> SUBSET Paths]
          /\ \A q \in Pids \ alive' : handles'[q] = {}
          /\ killed' \subseteq Pids \X (1 .. MaxGen)
          /\ Noted' /\ OnlyHoldersKilled'
      BY <1>c, <2>2, <2>5, <3>1, KillKeeps
    <3>3. TypeOK'
      BY <1>c, <2>2, <3>2 DEF TypeOK
    <3> QED
      BY <2>3, <3>2, <3>3 DEF IInv
  <2> QED
    BY <2>1, <2>4, <2>5 DEF Look
<1>3. CASE WalkDone
  <2>1. /\ UNCHANGED << gen, alive, handles, left, held, killed >>
        /\ left = {} /\ hp' = "pause" /\ lsof' = {}
    BY <1>3 DEF WalkDone, procs
  <2> QED
    BY <1>c, <2>1 DEF IInv, TypeOK, Noted, ListNoted, OnlyHoldersKilled
<1> QED
  BY <1>1, <1>2, <1>3 DEF Hunt

\* Every line of the list, and every open tracked file, belongs to a pid that was noted.
THEOREM Inductive ==
  Spec => []IInv
<1>1. Init => IInv
  <2>1. MaxGen \in Nat
    BY HunterAssumption DEF HunterAssumption
  <2> QED
    BY <2>1 DEF Init, IInv, TypeOK, Noted, ListNoted, OnlyHoldersKilled
<1>2. IInv /\ [Next]_vars => IInv'
  <2>1. ASSUME IInv, UNCHANGED vars
        PROVE  IInv'
    <3>1. UNCHANGED << gen, alive, handles, hp, lsof, left, held, killed >>
      BY <2>1 DEF vars, procs
    <3> QED
      BY <2>1, <3>1 DEF IInv, TypeOK, Noted, ListNoted, HeldBy, OnlyHoldersKilled
  <2> QED
    BY <2>1, SystemKeeps, HuntKeeps DEF Next
<1> QED
  BY <1>1, <1>2, PTL DEF Spec

\* Every variable has its type.
THEOREM TypeCorrect ==
  Spec => []TypeOK
<1>1. IInv => TypeOK
  BY DEF IInv
<1> QED
  BY <1>1, Inductive, PTL

\* Whoever is killed has a pid that held a tracked file ("If it detects a process with
\* a file handle for a tracked file it will kill that process", Cryptolocked-ng.md:123),
\* it or an earlier process, however old the list is.
THEOREM HoldersOnly ==
  Spec => []OnlyHoldersKilled
<1>1. IInv => OnlyHoldersKilled
  BY DEF IInv
<1> QED
  BY <1>1, Inductive, PTL
=============================================================================
