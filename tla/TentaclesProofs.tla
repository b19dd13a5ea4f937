--------------------------- MODULE TentaclesProofs ---------------------------
(***************************************************************************)
(* For any number of tripfiles and any configuration: cryptolocked-ng      *)
(* deletes nobody's files but its own, leaves no bait behind, and does not *)
(* take its own work for the ransomware's.                                 *)
(***************************************************************************)
EXTENDS Tentacles, TLAPS

\* Where the threads may be at one time
Places ==
  /\ tp \notin {"off", "dead"} => main \in {"spin", "closing"}
  /\ main \in {"new", "deploy", "verify"} => tp = "off"
  /\ main = "new" => mi = 1
  /\ main = "verify" => mi \in Files
  /\ tp = "integrity" => ti \in Files
  /\ tp \in {"cleanup", "alert", "act"} => alarmed

\* Nothing is taken for created that was a user's.
Owned == \A f \in created : content[f] # "user"

Watched == main \in {"deploy", "verify"} \/ (main = "spin" /\ tp # "off")

\* Until the alarm, a deployed file that nobody else touched is as it was hashed.
Untouched ==
  Watched /\ ~ alarmed =>
    \A f \in Files \ tampered :
      Deployed(f) => content[f] = hhash[f] /\ content[f] # "absent"

IInv == TypeOK /\ Places /\ Owned /\ CleanedUp /\ Untouched /\ NoFalseAlarm

LEMMA DestroyMakesAbsent ==
  ASSUME TypeOK, NEW f \in Files, Destroy(f)
  PROVE  /\ content' \in [Files -> Contents]
         /\ \A g \in Files : content'[g] = content[g] \/ (content'[g] = "absent" /\ g \in created)
         /\ f \in created => content'[f] = "absent"
  BY DEF TypeOK, Contents, Destroy

LEMMA InitInv ==
  ASSUME Init
  PROVE  IInv
<1>1. TypeOK
  <2>1. NFiles \in Nat
    BY TentaclesAssumption DEF TentaclesAssumption
  <2>2. content \in [Files -> Contents] /\ hhash \in [Files -> Contents]
    BY DEF Init, Contents
  <2>3. 1 \in 1 .. NFiles + 1
    BY <2>1
  <2>4. main = "new" /\ tp = "off" /\ alarmed = FALSE
    BY DEF Init
  <2> QED
    BY <2>2, <2>3, <2>4 DEF Init, TypeOK
<1>2. Places /\ Owned /\ CleanedUp /\ Untouched /\ NoFalseAlarm
  BY DEF Init, Places, Owned, CleanedUp, Untouched, Watched, NoFalseAlarm
<1> QED
  BY <1>1, <1>2 DEF IInv

\* Leaving the process: nothing is watched any more.
LEMMA LeaveKeeps ==
  ASSUME IInv, Leave, UNCHANGED << content, hhash, created, ti, tclean, history >>,
         mi' \in 1 .. NFiles + 1
  PROVE  IInv'
<1>1. TypeOK'
  BY DEF IInv, TypeOK, Leave, history
<1>2. Places' /\ Owned' /\ CleanedUp' /\ Untouched' /\ NoFalseAlarm'
  BY DEF IInv, Leave, history, Places, Owned, CleanedUp, Untouched, Watched, NoFalseAlarm
<1> QED
  BY <1>1, <1>2 DEF IInv

\* The main thread before Ctrl-C.
LEMMA DeployKeeps ==
  ASSUME IInv, Construct \/ Deploy \/ Verify \/ StartThread
  PROVE  IInv'
<1>n. NFiles \in Nat /\ Files = 1 .. NFiles
  BY TentaclesAssumption DEF TentaclesAssumption, Files
<1>1. CASE Construct
  <2>1. /\ UNCHANGED << content, hhash, created, mi, ti, tclean, history >> /\ main = "new"
        /\ Leave \/ (main' \in {"deploy", "spin"} /\ tp' = tp)
    BY <1>1 DEF Construct
  <2>2. CASE Leave
    BY <2>1, <2>2, LeaveKeeps DEF IInv, TypeOK
  <2>3. CASE main' \in {"deploy", "spin"} /\ tp' = tp
    <3>1. mi = 1 /\ tp = "off"
      BY <2>1 DEF IInv, Places
    <3>2. TypeOK'
      BY <2>1, <2>3 DEF IInv, TypeOK, history
    <3>3. Places' /\ Owned' /\ CleanedUp' /\ NoFalseAlarm'
      BY <2>1, <2>3, <3>1 DEF IInv, history, Places, Owned, CleanedUp, NoFalseAlarm
    <3>4. Untouched'
      BY <1>n, <2>1, <2>3, <3>1 DEF Untouched, Watched, Deployed
    <3> QED
      BY <3>2, <3>3, <3>4 DEF IInv
  <2> QED
    BY <2>1, <2>2, <2>3
<1>2. CASE Deploy
  <2>1. /\ main = "deploy" /\ mi <= NFiles /\ UNCHANGED << tp, ti, tclean, tampered, alarmed >>
        /\ mi \in Files /\ tp = "off" /\ ~ (main \in {"spin", "closing", "exited"})
    BY <1>2, <1>n DEF Deploy, IInv, TypeOK, Places, thread, history
  <2>2. CASE content[mi] = "absent"
    <3>1. /\ content' = [content EXCEPT ![mi] = "bait"] /\ hhash' = [hhash EXCEPT ![mi] = "bait"]
          /\ created' = created \union {mi} /\ main' = "verify" /\ mi' = mi
      BY <1>2, <2>2 DEF Deploy
    <3>2. TypeOK'
      BY <2>1, <3>1 DEF IInv, TypeOK, Contents
    <3>3. Places' /\ Owned' /\ CleanedUp' /\ NoFalseAlarm'
      BY <2>1, <3>1 DEF IInv, TypeOK, Places, Owned, CleanedUp, NoFalseAlarm
    <3>4. Untouched'
      BY <1>n, <2>1, <3>1 DEF IInv, TypeOK, Untouched, Watched, Deployed
    <3> QED
      BY <3>2, <3>3, <3>4 DEF IInv
  <2>3. CASE content[mi] # "absent"
    <3>1. /\ hhash' = [hhash EXCEPT ![mi] = content[mi]] /\ mi' = mi + 1
          /\ UNCHANGED << content, created, main >>
      BY <1>2, <2>3 DEF Deploy
    <3>2. TypeOK'
      BY <1>n, <2>1, <3>1 DEF IInv, TypeOK
    <3>3. Places' /\ Owned' /\ CleanedUp' /\ NoFalseAlarm'
      BY <2>1, <3>1 DEF IInv, TypeOK, Places, Owned, CleanedUp, NoFalseAlarm
    <3>4. \A f \in Files : Deployed(f)' => f = mi \/ Deployed(f)
      BY <1>n, <2>1, <3>1 DEF Deployed
    <3>5. Untouched'
      BY <2>1, <2>3, <3>1, <3>4 DEF IInv, TypeOK, Untouched, Watched
    <3> QED
      BY <3>2, <3>3, <3>5 DEF IInv
  <2> QED
    BY <2>2, <2>3
<1>3. CASE Verify
  <2>1. main = "verify" /\ UNCHANGED << content, hhash, created, ti, tclean, tampered, alarmed >>
    BY <1>3 DEF Verify, history
  <2>2. mi \in Files /\ mi \in 1 .. NFiles + 1 /\ tp = "off"
    BY <2>1 DEF IInv, Places, TypeOK
  <2>3. CASE content[mi] # "bait"
    BY <1>3, <2>1, <2>2, <2>3, LeaveKeeps DEF Verify, history
  <2>4. CASE content[mi] = "bait"
    <3>1. main' = "deploy" /\ mi' = mi + 1 /\ tp' = tp
      BY <1>3, <2>4 DEF Verify
    <3>2. TypeOK'
      BY <1>n, <2>1, <2>2, <3>1 DEF IInv, TypeOK
    <3>3. Places' /\ Owned' /\ CleanedUp' /\ NoFalseAlarm'
      BY <2>1, <2>2, <3>1 DEF IInv, Places, Owned, CleanedUp, NoFalseAlarm
    <3>4. \A f \in Files : Deployed(f)' => Deployed(f)
      BY <1>n, <2>1, <2>2, <3>1 DEF Deployed
    <3>5. Untouched'
      BY <2>1, <3>1, <3>4 DEF IInv, Untouched, Watched
    <3> QED
      BY <3>2, <3>3, <3>5 DEF IInv
  <2> QED
    BY <2>3, <2>4
<1>4. CASE StartThread
  <2>1. /\ main = "deploy" /\ mi > NFiles /\ main' = "spin" /\ tp' = "exists"
        /\ UNCHANGED << content, hhash, created, mi, ti, tclean, tampered, alarmed >>
    BY <1>4 DEF StartThread, history
  <2>2. TypeOK' /\ mi \in 1 .. NFiles + 1
    BY <2>1 DEF IInv, TypeOK
  <2>3. Places' /\ Owned' /\ CleanedUp' /\ NoFalseAlarm'
    BY <2>1 DEF IInv, Places, Owned, CleanedUp, NoFalseAlarm
  <2>4. \A f \in Files : Deployed(f)
    BY <1>n, <2>1, <2>2 DEF Deployed
  <2>5. Untouched'
    BY <2>1, <2>4 DEF IInv, Untouched, Watched
  <2> QED
    BY <2>2, <2>3, <2>5 DEF IInv
<1> QED
  BY <1>1, <1>2, <1>3, <1>4

\* Ctrl-C, and the handler it starts.
LEMMA CloseKeeps ==
  ASSUME IInv, Interrupt \/ SafeClose
  PROVE  IInv'
<1>n. NFiles \in Nat /\ Files = 1 .. NFiles /\ mi \in 1 .. NFiles + 1
  BY TentaclesAssumption DEF TentaclesAssumption, Files, IInv, TypeOK
<1>1. CASE Interrupt
  <2>1. UNCHANGED << content, hhash, created, ti, tclean, history >> /\ mi' = 1
    BY <1>1 DEF Interrupt
  <2>2. CASE Leave
    BY <1>n, <2>1, <2>2, LeaveKeeps
  <2>3. CASE main' = "closing" /\ tp' = tp /\ main \in {"spin", "closing"}
    <3>1. TypeOK'
      BY <1>n, <2>1, <2>3 DEF IInv, TypeOK, history
    <3>2. CleanedUp'
      BY <1>n, <2>1, <3>1 DEF CleanedUp, TypeOK
    <3>3. Places' /\ Owned' /\ Untouched' /\ NoFalseAlarm'
      BY <2>1, <2>3 DEF IInv, history, Places, Owned, Untouched, Watched, NoFalseAlarm
    <3> QED
      BY <3>1, <3>2, <3>3 DEF IInv
  <2> QED
    BY <1>1, <2>2, <2>3 DEF Interrupt
<1>2. CASE SafeClose
  <2>1. main = "closing" /\ UNCHANGED << hhash, created, ti, tclean, history >>
    BY <1>2 DEF SafeClose
  <2>2. CASE mi > NFiles
    BY <1>2, <1>n, <2>1, <2>2, LeaveKeeps DEF SafeClose
  <2>3. CASE mi <= NFiles
    <3>1. Destroy(mi) /\ mi' = mi + 1 /\ UNCHANGED << main, tp >> /\ mi \in Files
      BY <1>2, <1>n, <2>3 DEF SafeClose
    <3>2. /\ content' \in [Files -> Contents]
          /\ \A g \in Files : content'[g] = content[g] \/ (content'[g] = "absent" /\ g \in created)
          /\ mi \in created => content'[mi] = "absent"
      <4>1. PICK f \in Files : f = mi
        BY <3>1
      <4> QED
        BY <3>1, <4>1, DestroyMakesAbsent DEF IInv
    <3>3. TypeOK'
      BY <1>n, <2>1, <2>3, <3>1, <3>2 DEF IInv, TypeOK, history
    <3>4. CleanedUp'
      BY <1>n, <2>1, <3>1, <3>2 DEF IInv, TypeOK, CleanedUp
    <3>5. Owned'
      BY <2>1, <3>2 DEF IInv, TypeOK, Owned
    <3>6. Places' /\ Untouched' /\ NoFalseAlarm'
      BY <2>1, <3>1 DEF IInv, history, Places, Untouched, Watched, NoFalseAlarm
    <3> QED
      BY <3>3, <3>4, <3>5, <3>6 DEF IInv
  <2> QED
    BY <1>n, <2>2, <2>3
<1> QED
  BY <1>1, <1>2

\* The thread that watches: with no alarm yet it finds what it hashed.
LEMMA ThreadKeeps ==
  ASSUME IInv, Thread
  PROVE  IInv'
<1>n. NFiles \in Nat /\ Files = 1 .. NFiles /\ ti \in Files \union {1}
  BY TentaclesAssumption DEF TentaclesAssumption, Files, IInv, TypeOK
<1>m. main \in {"spin", "closing"} /\ UNCHANGED << mainvars, hhash, created, tampered >>
  BY DEF Thread, Exists, Integrity, Cleanup, SendAlert, Act, IInv, Places, history
<1>1. CASE Exists \/ Integrity
  <2>1. content' = content /\ tp \in {"exists", "integrity"}
    BY <1>1 DEF Exists, Integrity
  <2>2. ti \in Files
    <3>1. CASE Exists
      BY <1>n, <3>1 DEF Exists
    <3>2. CASE Integrity
      BY <3>2 DEF Integrity, IInv, Places
    <3> QED
      BY <1>1, <3>1, <3>2
  <2>3. /\ \/ alarmed' = alarmed /\ tclean' = tclean
           \/ Alarm /\ (content[ti] = "absent" \/ content[ti] # hhash[ti]) /\ ti' = ti
        /\ tp' \in {"exists", "integrity", "dead", "cleanup"}
        /\ tp' = "cleanup" => Alarm
        /\ ti' \in Files
    BY <1>1, <1>n, <2>2 DEF Exists, Integrity, NextFile, Alarm
  <2>4. TypeOK'
    <3>1. tclean' \in 1 .. NFiles + 1 /\ alarmed' \in BOOLEAN
      <4>1. tclean \in 1 .. NFiles + 1 /\ alarmed \in BOOLEAN /\ 1 \in 1 .. NFiles + 1
        BY <1>n DEF IInv, TypeOK
      <4>2. CASE alarmed' = alarmed /\ tclean' = tclean
        BY <4>1, <4>2
      <4>3. CASE Alarm
        BY <4>1, <4>3 DEF Alarm
      <4> QED
        BY <2>3, <4>2, <4>3
    <3> QED
      BY <1>m, <2>1, <2>3, <3>1 DEF IInv, TypeOK, mainvars
  <2>5. Places' /\ Owned' /\ CleanedUp'
    BY <1>m, <2>1, <2>3 DEF IInv, Places, Owned, CleanedUp, Alarm, mainvars
  <2>6. Untouched'
    BY <1>m, <2>1, <2>3 DEF IInv, Untouched, Watched, Deployed, Alarm, mainvars
  <2>7. NoFalseAlarm'
    <3>1. CASE alarmed' = alarmed
      BY <1>m, <3>1 DEF IInv, NoFalseAlarm, mainvars
    <3>2. CASE Alarm /\ ~ alarmed /\ main = "spin" /\ (content[ti] = "absent" \/ content[ti] # hhash[ti])
      <4>1. Watched /\ Deployed(ti)
        BY <2>1, <3>2 DEF Watched, Deployed
      <4>2. ti \in tampered
        BY <2>2, <3>2, <4>1 DEF IInv, Untouched
      <4> QED
        BY <1>m, <4>2 DEF NoFalseAlarm
    <3>3. CASE alarmed \/ main = "closing"
      BY <1>m, <3>3 DEF IInv, NoFalseAlarm, mainvars
    <3> QED
      BY <1>m, <2>3, <3>1, <3>2, <3>3
  <2> QED
    BY <2>4, <2>5, <2>6, <2>7 DEF IInv
<1>2. CASE Cleanup
  <2>1. tp = "cleanup" /\ UNCHANGED << ti, alarmed >> /\ alarmed
    BY <1>2 DEF Cleanup, history, IInv, Places
  <2>2. Untouched' /\ NoFalseAlarm'
    BY <1>m, <2>1 DEF IInv, Untouched, NoFalseAlarm, mainvars
  <2>3. tp' \in {"cleanup", "alert", "act"}
    BY <1>2 DEF Cleanup
  <2>4. Places'
    BY <1>m, <2>1, <2>3 DEF IInv, Places, mainvars
  <2>5. /\ content' \in [Files -> Contents] /\ tclean' \in 1 .. NFiles + 1
        /\ \A g \in Files : content'[g] = content[g] \/ (content'[g] = "absent" /\ g \in created)
    <3>1. tclean \in 1 .. NFiles + 1 /\ content \in [Files -> Contents]
      BY DEF IInv, TypeOK
    <3>2. CASE tclean <= NFiles
      <4>1. PICK f \in Files : f = tclean
        BY <1>n, <3>1, <3>2
      <4>2. Destroy(f) /\ tclean' = tclean + 1
        BY <1>2, <3>2, <4>1 DEF Cleanup
      <4> QED
        BY <1>n, <3>1, <3>2, <4>2, DestroyMakesAbsent DEF IInv
    <3>3. CASE tclean > NFiles
      BY <1>2, <1>n, <3>1, <3>3 DEF Cleanup
    <3> QED
      BY <1>n, <3>1, <3>2, <3>3
  <2>6. TypeOK'
    BY <1>m, <2>1, <2>3, <2>5 DEF IInv, TypeOK, mainvars
  <2>7. Owned' /\ CleanedUp'
    BY <1>m, <2>5 DEF IInv, TypeOK, Owned, CleanedUp, mainvars
  <2> QED
    BY <2>2, <2>4, <2>6, <2>7 DEF IInv
<1>3. CASE SendAlert \/ Act
  <2>1. /\ UNCHANGED << content, ti, tclean, alarmed >> /\ tp \in {"alert", "act"}
        /\ tp' \in {"act", "dead"}
    BY <1>3 DEF SendAlert, Act, history
  <2>2. TypeOK'
    BY <1>m, <2>1 DEF IInv, TypeOK, mainvars
  <2>3. Places' /\ Owned' /\ CleanedUp' /\ NoFalseAlarm'
    BY <1>m, <2>1 DEF IInv, Places, Owned, CleanedUp, NoFalseAlarm, mainvars
  <2>4. Untouched'
    BY <1>m, <2>1 DEF IInv, Places, Untouched
  <2> QED
    BY <2>2, <2>3, <2>4 DEF IInv
<1> QED
  BY <1>1, <1>2, <1>3 DEF Thread

LEMMA TamperKeeps ==
  ASSUME IInv, NEW f \in Files, Tamper(f)
  PROVE  IInv'
<1>1. UNCHANGED << hhash, created, mi, main, tp, ti, tclean, alarmed >>
  BY DEF Tamper, mainvars, thread
<1>2. PICK c \in {"absent", "changed"} : content' = [content EXCEPT ![f] = c]
  BY DEF Tamper
<1>3. tampered' = IF Deployed(f) THEN tampered \union {f} ELSE tampered
  BY DEF Tamper
<1>4. TypeOK'
  BY <1>1, <1>2, <1>3 DEF IInv, TypeOK, Contents
<1>5. Places' /\ Owned' /\ CleanedUp' /\ NoFalseAlarm'
  BY <1>1, <1>2, <1>3 DEF IInv, TypeOK, Places, Owned, CleanedUp, NoFalseAlarm
<1>6. \A g \in Files : Deployed(g)' <=> Deployed(g)
  BY <1>1 DEF Deployed
<1>7. Untouched'
  BY <1>1, <1>2, <1>3, <1>6 DEF IInv, TypeOK, Untouched, Watched
<1> QED
  BY <1>4, <1>5, <1>7 DEF IInv

\* Where the two threads are, what is whose and what is hashed fit together in every
\* state.
THEOREM Inductive ==
  Spec => []IInv
<1>1. Init => IInv
  BY InitInv
<1>2. IInv /\ [Next]_vars => IInv'
  <2> SUFFICES ASSUME IInv, [Next]_vars
               PROVE  IInv'
    OBVIOUS
  <2>1. CASE UNCHANGED vars
    <3>1. UNCHANGED << content, hhash, created, main, mi, tp, ti, tclean, tampered, alarmed >>
      BY <2>1 DEF vars, mainvars, thread, history
    <3>2. TypeOK' /\ Places' /\ Owned'
      BY <3>1 DEF IInv, TypeOK, Places, Owned
    <3>3. CleanedUp' /\ Untouched' /\ NoFalseAlarm'
      BY <3>1 DEF IInv, CleanedUp, Untouched, Watched, Deployed, NoFalseAlarm
    <3> QED
      BY <3>2, <3>3 DEF IInv
  <2>2. CASE Main \/ Interrupt
    BY <2>2, DeployKeeps, CloseKeeps DEF Main
  <2>3. CASE Thread
    BY <2>3, ThreadKeeps
  <2>4. CASE \E f \in Files : Tamper(f)
    BY <2>4, TamperKeeps
  <2> QED
    BY <2>1, <2>2, <2>3, <2>4 DEF Next, Exited
<1> QED
  BY <1>1, <1>2, PTL DEF Spec

\* Every variable has its type.
THEOREM TypeCorrect ==
  Spec => []TypeOK
<1>1. IInv => TypeOK
  BY DEF IInv
<1> QED
  BY <1>1, Inductive, PTL

\* Countermeasures answer a change somebody else made ("unauthorized modification",
\* Cryptolocked-ng.md:15-16), unless Ctrl-C is taking the bait away.
THEOREM AlarmsJustified ==
  Spec => []NoFalseAlarm
<1>1. IInv => NoFalseAlarm
  BY DEF IInv
<1> QED
  BY <1>1, Inductive, PTL

\* Closing leaves no bait behind in the files the handler has passed, whatever the
\* other thread's clean-up does meanwhile ("Removes the file on close",
\* cryptolocked-ng.py:469).
THEOREM BaitRemoved ==
  Spec => []CleanedUp
<1>1. IInv => CleanedUp
  BY DEF IInv
<1> QED
  BY <1>1, Inductive, PTL

\* A file that was there before cryptolocked is never deleted by it.
THEOREM OthersKept ==
  Spec => UserFilesKept
<1>1. ASSUME IInv, [Next]_vars, NEW f \in Files, content[f] = "user", content'[f] = "absent"
      PROVE  UNCHANGED << mainvars, thread >>
  <2>1. f \notin created
    BY <1>1 DEF IInv, Owned
  <2>2. content \in [Files -> Contents]
    BY <1>1 DEF IInv, TypeOK
  <2>3. ASSUME NEW g, Destroy(g)
        PROVE  FALSE
    BY <1>1, <2>1, <2>2, <2>3 DEF Destroy
  <2>4. ~ Main
    BY <1>1, <2>2, <2>3 DEF Main, Construct, Deploy, Verify, StartThread, SafeClose
  <2>5. ~ Interrupt /\ ~ Thread
    BY <1>1, <2>3 DEF Interrupt, Thread, Exists, Integrity, Cleanup, SendAlert, Act
  <2> QED
    BY <1>1, <2>4, <2>5 DEF Next, Tamper, Exited, vars
<1>2. IInv /\ [Next]_vars
        => [\A f \in Files : content[f] = "user" /\ content'[f] = "absent"
              => UNCHANGED << mainvars, thread >>]_vars
  BY <1>1
<1> QED
  BY <1>2, Inductive, PTL DEF Spec, UserFilesKept
=============================================================================
