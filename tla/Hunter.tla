------------------------------- MODULE Hunter -------------------------------
(***************************************************************************)
(* cryptolocked-ng's hunter on Linux: it takes a list of open files from   *)
(* lsof, walks it, and kills the processes that hold a tracked file, unless*)
(* that file's key file is open too.  Processes come, go, open and close   *)
(* files while it walks a list that is already old.                        *)
(***************************************************************************)
EXTENDS CryptolockedConf, Integers

CONSTANTS
  Pids,         \* process ids
  MaxGen,       \* bound on the processes that get one pid in turn
  Paths,        \* files
  Tracked,      \* hunter.hunterfiles
  KeyOf,        \* hunter.lockeddict, from the protected ones to key files
  NoKey         \* the string "None" in place of a key file

ASSUME HunterAssumption ==
  /\ MaxGen \in Nat
  /\ Tracked \subseteq Paths
  /\ DOMAIN KeyOf \subseteq Tracked
  /\ \A f \in DOMAIN KeyOf : KeyOf[f] \in Paths \union {NoKey}
  /\ NoKey \notin Paths

VARIABLES
  gen,      \* gen[p]: number of the process that has pid p, 0: none yet
  alive,    \* pids in use
  handles,  \* handles[p]: files process p has open
  hp,       \* the hunter thread: "pause", "walk" or "dead"
  lsof,     \* the list it walks: lines <<file, pid>>
  left,     \* the lines it has not looked at yet
  held,     \* history: processes that have ever held a tracked file
  killed    \* history: processes killed by the hunter

procs == <<gen, alive, handles>>
vars  == <<procs, hp, lsof, left, held, killed>>

Init ==
  /\ gen = [p \in Pids |-> 0]
  /\ alive = {}
  /\ handles = [p \in Pids |-> {}]
  /\ hp = IF Conf["hunter"] THEN "pause" ELSE "dead"
  /\ lsof = {} /\ left = {}
  /\ held = {} /\ killed = {}

-----------------------------------------------------------------------------
(* The system's processes.                                                 *)

Fork(p) ==
  /\ p \notin alive /\ gen[p] < MaxGen
  /\ gen' = [gen EXCEPT ![p] = @ + 1]
  /\ alive' = alive \union {p}
  /\ UNCHANGED <<handles, hp, lsof, left, held, killed>>

Open(p, f) ==
  /\ p \in alive /\ f \notin handles[p]
  /\ handles' = [handles EXCEPT ![p] = @ \union {f}]
  /\ held' = IF f \in Tracked THEN held \union {<<p, gen[p]>>} ELSE held
  /\ UNCHANGED <<gen, alive, hp, lsof, left, killed>>

Shut(p, f) ==
  /\ f \in handles[p]
  /\ handles' = [handles EXCEPT ![p] = @ \ {f}]
  /\ UNCHANGED <<gen, alive, hp, lsof, left, held, killed>>

Exit(p) ==
  /\ p \in alive
  /\ alive' = alive \ {p}
  /\ handles' = [handles EXCEPT ![p] = {}]
  /\ UNCHANGED <<gen, hp, lsof, left, held, killed>>

-----------------------------------------------------------------------------
(* The hunter thread.                                                      *)

\* parse_lsof: the two lists it builds are kept as one of pairs.
Snapshot == {line \in Paths \X Pids : line[2] \in alive /\ line[1] \in handles[line[2]]}

\* Mutant of ParseLsof: the walk has a new list, the key test an old one.
Bug_TwoLists ==
  /\ hp = "pause"
  /\ \/ left' = Snapshot /\ hp' = "walk" /\ UNCHANGED lsof
     \/ hp' = "dead" /\ UNCHANGED <<lsof, left>>
  /\ UNCHANGED <<procs, held, killed>>

\* lsof may exit with an error: check_output raises.
ParseLsof ==
  /\ hp = "pause"
  /\ \/ lsof' = Snapshot /\ left' = Snapshot /\ hp' = "walk"
     \/ hp' = "dead" /\ UNCHANGED <<lsof, left>>
  /\ UNCHANGED <<procs, held, killed>>

KeyOpen(f) ==                  \* protectedfilekey in lsoflist[0]
  /\ f \in DOMAIN KeyOf /\ KeyOf[f] # NoKey
  /\ \E line \in lsof : line[1] = KeyOf[f]

Armed == Conf["armed_state"] \/ Conf["only_arm_hunter"]

\* Mutant of Kill: the pid of another line is used (count is off by one).
Bug_WrongPid(p) ==
  IF alive = {} THEN UNCHANGED <<alive, handles, killed>>
  ELSE LET q == CHOOSE q \in alive : TRUE
       IN /\ alive' = alive \ {q}
          /\ handles' = [handles EXCEPT ![q] = {}]
          /\ killed' = killed \union {<<q, gen[q]>>}

Kill(p) ==                     \* kill -9, whoever has that pid now
  IF p \in alive
    THEN /\ alive' = alive \ {p}
         /\ handles' = [handles EXCEPT ![p] = {}]
         /\ killed' = killed \union {<<p, gen[p]>>}
    ELSE UNCHANGED <<alive, handles, killed>>

\* Mutant of Look: a tracked file without a key is passed over.
Bug_NeedsKey(line) ==
  /\ left' = left \ {line}
  /\ IF line[1] \in DOMAIN KeyOf /\ Armed
       THEN Kill(line[2]) ELSE UNCHANGED <<alive, handles, killed>>
  /\ UNCHANGED <<gen, hp, lsof, held>>

\* One line of the list.  With the key file open the message uses two names
\* that do not exist, and the NameError ends the thread.
Look(line) ==
  /\ left' = left \ {line}
  /\ IF line[1] \in Tracked /\ KeyOpen(line[1])
       THEN hp' = "dead" /\ UNCHANGED <<alive, handles, killed>>
       ELSE /\ UNCHANGED hp
            /\ IF line[1] \in Tracked /\ Armed
                 THEN Kill(line[2])
                 ELSE UNCHANGED <<alive, handles, killed>>
  /\ UNCHANGED <<gen, lsof, held>>

Walk ==
  /\ hp = "walk" /\ left # {}
  /\ \E line \in left : Look(line)

WalkDone ==
  /\ hp = "walk" /\ left = {}
  /\ hp' = "pause" /\ lsof' = {}
  /\ UNCHANGED <<procs, left, held, killed>>

Hunt == ParseLsof \/ Walk \/ WalkDone

System == \E p \in Pids : \/ Fork(p) \/ Exit(p)
                          \/ \E f \in Paths : Open(p, f) \/ Shut(p, f)

Next == Hunt \/ System \/ (hp = "dead" /\ UNCHANGED vars)

Spec == Init /\ [][Next]_vars

(* The hunter's thread runs; the processes owe nobody anything.            *)
FairSpec == Spec /\ WF_vars(Hunt)

-----------------------------------------------------------------------------
(* Properties.                                                             *)

(* Every variable has its type.                                            *)
TypeOK ==
  /\ gen \in [Pids -> 0 .. MaxGen]
  /\ alive \subseteq Pids
  /\ handles \in [Pids -> SUBSET Paths]
  /\ \A p \in Pids \ alive : handles[p] = {}
  /\ hp \in {"pause", "walk", "dead"}
  /\ lsof \subseteq Paths \X Pids /\ left \subseteq lsof
  /\ held \subseteq Pids \X (1 .. MaxGen) /\ killed \subseteq Pids \X (1 .. MaxGen)

(* Nobody is killed who never held a tracked file ("If it detects a       *)
(* process with a file handle for a tracked file it will kill that         *)
(* process", Cryptolocked-ng.md:123), however old the list is by the time  *)
(* its line is reached; except, since kill -9 goes to a pid, who has got   *)
(* the pid of one that did.                                                *)
OnlyHoldersKilled ==
  \A k \in killed : \E h \in held : h[1] = k[1] /\ h[2] <= k[2]

(* Armed, a process that keeps a tracked file open is killed in the end,   *)
(* while the hunter lives: none goes on holding one.                       *)
HolderKilled ==
  Conf["hunter"] /\ Armed =>
    \A p \in Pids, f \in Tracked : <>(hp = "dead") \/ []<>(f \notin handles[p])
=============================================================================
