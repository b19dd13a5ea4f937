----------------------------- MODULE Tentacles -----------------------------
(***************************************************************************)
(* cryptolocked-ng's tentacles: tripfiles, the thread that watches them,   *)
(* the countermeasures it starts, and the main thread with its SIGINT      *)
(* handler, against somebody else who changes and deletes files.           *)
(***************************************************************************)
EXTENDS CryptolockedConf, Integers

CONSTANT
  NFiles         \* tripfiles listed in tentacles.lst

ASSUME TentaclesAssumption == NFiles \in Nat

Files == 1 .. NFiles

VARIABLES
  content,    \* the file system: what each tripfile holds
  hhash,      \* tentacles.hhash, as the content it was taken of
  created,    \* tentacles.created_files
  main, mi,   \* the main thread, and the file it is at
  tp, ti,     \* the tentacles thread, and the file it is at
  tclean,     \* the file its cleanup is at
  tampered,   \* history: files touched by somebody else since deployment
  alarmed     \* history: countermeasures() was called

mainvars == <<main, mi>>
thread   == <<tp, ti, tclean>>
history  == <<tampered, alarmed>>
vars     == <<content, hhash, created, mainvars, thread, history>>

Contents == {"absent", "user", "bait", "changed"}

Init ==
  /\ content \in [Files -> {"absent", "user"}]
  /\ hhash = [f \in Files |-> "absent"]
  /\ created = {}
  /\ main = "new" /\ mi = 1
  /\ tp = "off" /\ ti = 1 /\ tclean = 1
  /\ tampered = {} /\ alarmed = FALSE

-----------------------------------------------------------------------------
(* The main thread.                                                        *)

\* Leaving the process takes the daemon threads with it.
Leave == main' = "exited" /\ tp' = "dead"

\* With a debug argument that is not None, and __main__ gives False or True,
\* functionality_test() ends in exit(0).  A caller who gives none gets on.
Construct ==
  /\ main = "new"
  /\ \/ Leave
     \/ main' = (IF Conf["tentacles"] THEN "deploy" ELSE "spin") /\ UNCHANGED tp
  /\ UNCHANGED <<content, hhash, created, mi, ti, tclean, history>>

\* Mutant of Deploy: a file that was there is taken for a created one.
Bug_OwnsAll ==
  /\ main = "deploy" /\ mi <= NFiles
  /\ created' = created \union {mi}
  /\ IF content[mi] = "absent"
       THEN /\ content' = [content EXCEPT ![mi] = "bait"]
            /\ hhash' = [hhash EXCEPT ![mi] = "bait"]
            /\ main' = "verify"
            /\ UNCHANGED mi
       ELSE /\ hhash' = [hhash EXCEPT ![mi] = content[mi]]
            /\ mi' = mi + 1
            /\ UNCHANGED <<content, main>>
  /\ UNCHANGED <<thread, history>>

\* Mutant of Deploy: the hash of a tracked file is left at "NULL".
Bug_NoBaseline ==
  /\ main = "deploy" /\ mi <= NFiles
  /\ IF content[mi] = "absent"
       THEN /\ content' = [content EXCEPT ![mi] = "bait"]
            /\ hhash' = [hhash EXCEPT ![mi] = "bait"]
            /\ created' = created \union {mi}
            /\ main' = "verify"
            /\ UNCHANGED mi
       ELSE /\ mi' = mi + 1
            /\ UNCHANGED <<content, hhash, created, main>>
  /\ UNCHANGED <<thread, history>>

\* tentacles.__init__: a missing file is created, another one is hashed.
Deploy ==
  /\ main = "deploy" /\ mi <= NFiles
  /\ IF content[mi] = "absent"
       THEN /\ content' = [content EXCEPT ![mi] = "bait"]
            /\ hhash' = [hhash EXCEPT ![mi] = "bait"]
            /\ created' = created \union {mi}
            /\ main' = "verify"
            /\ UNCHANGED mi
       ELSE /\ hhash' = [hhash EXCEPT ![mi] = content[mi]]
            /\ mi' = mi + 1
            /\ UNCHANGED <<content, created, main>>
  /\ UNCHANGED <<thread, history>>

Verify ==                      \* create_file reads back what it wrote
  /\ main = "verify"
  /\ IF content[mi] = "bait"
       THEN main' = "deploy" /\ mi' = mi + 1 /\ UNCHANGED tp
       ELSE Leave /\ UNCHANGED mi
  /\ UNCHANGED <<content, hhash, created, ti, tclean, history>>

StartThread ==
  /\ main = "deploy" /\ mi > NFiles
  /\ main' = "spin"
  /\ tp' = "exists"
  /\ UNCHANGED <<content, hhash, created, mi, ti, tclean, history>>

\* Ctrl-C: safe_close once the handler is installed, else KeyboardInterrupt.
Interrupt ==
  /\ \/ main \in {"new", "deploy", "verify"} /\ Leave
     \/ main = "spin" /\ ~ Conf["tentacles"] /\ Leave
     \/ /\ main \in {"spin", "closing"} /\ Conf["tentacles"]
        /\ main' = "closing" /\ UNCHANGED tp
  /\ mi' = 1
  /\ UNCHANGED <<content, hhash, created, ti, tclean, history>>

\* destroy_file, for the files of created_files one after the other
Destroy(f) ==
  content' = IF f \in created THEN [content EXCEPT ![f] = "absent"] ELSE content

\* Mutant of SafeClose: the loop starts at the second file.
Bug_SkipsFirst ==
  /\ main = "closing"
  /\ IF mi <= NFiles
       THEN /\ IF mi > 1 THEN Destroy(mi) ELSE UNCHANGED content
            /\ mi' = mi + 1
            /\ UNCHANGED <<main, tp>>
       ELSE Leave /\ UNCHANGED <<content, mi>>
  /\ UNCHANGED <<hhash, created, ti, tclean, history>>

SafeClose ==
  /\ main = "closing"
  /\ IF mi <= NFiles
       THEN Destroy(mi) /\ mi' = mi + 1 /\ UNCHANGED <<main, tp>>
       ELSE Leave /\ UNCHANGED <<content, mi>>
  /\ UNCHANGED <<hhash, created, ti, tclean, history>>

Main == Construct \/ Deploy \/ Verify \/ StartThread \/ SafeClose

-----------------------------------------------------------------------------
(* The tentacles thread: loop() and countermeasures().                     *)

\* Mutant of NextFile: the index is not set back after the last file.
Bug_NoWrap == tp' = "exists" /\ ti' = ti + 1

NextFile ==
  IF ti < NFiles THEN tp' = "exists" /\ ti' = ti + 1
                 ELSE tp' = "exists" /\ ti' = 1     \* sleep(tentacles_pause)

Alarm == alarmed' = TRUE /\ tp' = "cleanup" /\ tclean' = 1

Exists ==                      \* FILE DESTRUCTION
  /\ tp = "exists" /\ ti <= NFiles
  /\ IF content[ti] = "absent"
       THEN Alarm
       ELSE tp' = "integrity" /\ UNCHANGED <<alarmed, tclean>>
  /\ UNCHANGED <<content, hhash, created, mainvars, ti, tampered>>

\* Mutant of Integrity: the comparison is left out.
Bug_NoCompare ==
  /\ tp = "integrity"
  /\ IF content[ti] = "absent" THEN tp' = "dead" /\ UNCHANGED ti ELSE NextFile
  /\ UNCHANGED <<content, hhash, created, mainvars, tclean, history>>

\* INTEGRITY FAIL; open() of a file deleted meanwhile raises and ends the
\* thread without a word.
Integrity ==
  /\ tp = "integrity"
  /\ \/ content[ti] = "absent" /\ tp' = "dead" /\ UNCHANGED <<alarmed, ti, tclean>>
     \/ content[ti] # "absent" /\ content[ti] # hhash[ti] /\ Alarm /\ UNCHANGED ti
     \/ content[ti] = hhash[ti] /\ NextFile /\ UNCHANGED <<alarmed, tclean>>
  /\ UNCHANGED <<content, hhash, created, mainvars, tampered>>

Cleanup ==
  /\ tp = "cleanup"
  /\ IF tclean <= NFiles
       THEN Destroy(tclean) /\ tclean' = tclean + 1 /\ UNCHANGED tp
       ELSE tp' = (IF Conf["alerts_enabled"] THEN "alert" ELSE "act")
              /\ UNCHANGED <<content, tclean>>
  /\ UNCHANGED <<hhash, created, mainvars, ti, history>>

SendAlert ==                   \* an exception of smtplib ends the thread
  /\ tp = "alert"
  /\ \/ tp' = "act"
     \/ tp' = "dead"
  /\ UNCHANGED <<content, hhash, created, mainvars, ti, tclean, history>>

\* Simulated, allexit() ends this thread alone; else the failsafe is called by a
\* name that is a method and no global, and the NameError ends the thread too.
Act ==
  /\ tp = "act"
  /\ tp' = "dead"
  /\ UNCHANGED <<content, hhash, created, mainvars, ti, tclean, history>>

Thread == Exists \/ Integrity \/ Cleanup \/ SendAlert \/ Act

-----------------------------------------------------------------------------
(* Somebody else: the ransomware, or a user.                               *)

Deployed(f) ==
  \/ main \in {"spin", "closing"}
  \/ main \in {"deploy", "verify"} /\ f < mi
  \/ main = "verify" /\ f = mi

Tamper(f) ==
  /\ main # "exited"
  /\ \E c \in {"absent", "changed"} :
       content[f] # c /\ content' = [content EXCEPT ![f] = c]
  /\ tampered' = IF Deployed(f) THEN tampered \union {f} ELSE tampered
  /\ UNCHANGED <<hhash, created, mainvars, thread, alarmed>>

Exited == main = "exited" /\ UNCHANGED vars

Next == Main \/ Interrupt \/ Thread \/ (\E f \in Files : Tamper(f)) \/ Exited

Spec == Init /\ [][Next]_vars

(* Both threads run; nobody has to press Ctrl-C or to touch a file.        *)
FairSpec == Spec /\ WF_vars(Main) /\ WF_vars(Thread)

-----------------------------------------------------------------------------
(* Properties.                                                             *)

(* Every variable has its type.                                            *)
TypeOK ==
  /\ content \in [Files -> Contents] /\ hhash \in [Files -> Contents]
  /\ created \subseteq Files /\ tampered \subseteq Files
  /\ main \in {"new", "deploy", "verify", "spin", "closing", "exited"}
  /\ tp \in {"off", "exists", "integrity", "cleanup", "alert", "act", "dead"}
  /\ mi \in 1 .. NFiles + 1 /\ tclean \in 1 .. NFiles + 1 /\ ti \in Files \union {1}
  /\ alarmed \in BOOLEAN

(* Countermeasures answer a change somebody else made ("unauthorized       *)
(* modification", Cryptolocked-ng.md:15-16), never cryptolocked's own      *)
(* deployment or clean-up; only while Ctrl-C is taking the bait away can   *)
(* the thread that still watches it be mistaken.                           *)
NoFalseAlarm == alarmed => tampered # {} \/ main \in {"closing", "exited"}

(* A file that was there before cryptolocked is never deleted by it,       *)
(* whichever of its threads cleans up (action property).                   *)
UserFilesKept ==
  [][\A f \in Files :
       content[f] = "user" /\ content'[f] = "absent"
         => UNCHANGED <<mainvars, thread>>]_vars

(* Closing with Ctrl-C leaves no bait behind ("Removes the file on close", *)
(* cryptolocked-ng.py:469), although the tentacles thread may be cleaning  *)
(* up at the same time: each file the handler has passed is gone.          *)
CleanedUp ==
  main = "closing" => \A f \in created : f < mi => content[f] # "bait"

Damaged(f) == main = "spin" /\ content[f] # hhash[f]

(* The watch does not go blind: a tripfile that stays destroyed or changed *)
(* makes the watching thread raise the alarm, or finds it gone.            *)
TamperNoticed ==
  \A f \in Files : ~ <>[](Damaged(f) /\ ~ alarmed /\ tp # "dead")
=============================================================================
