------------------------------ MODULE BearTrap ------------------------------
(***************************************************************************)
(* beartrap: honeypot triggers that ban an address for a while.            *)
(* A trigger calls BearTrap#got_alert in the thread that served the client *)
(* (FTPTrigger: a thread for each client; TCPPortTrigger: one thread for   *)
(* all).  got_alert starts a timer thread that will lift the ban, and then *)
(* runs each alert handler's commands.  All these threads share            *)
(* @blocked_addresses, without a lock, and the firewall.  The main thread  *)
(* joins the triggers' threads: an exception that has ended the one it     *)
(* joins is raised again there, and ends the process with all its threads. *)
(***************************************************************************)
EXTENDS Integers, FiniteSets

CONSTANTS
  IPs,             \* addresses of clients
  NoIP,            \* no address yet
  MaxCalls,        \* bound on the calls of got_alert at one time
  MaxAlerts,       \* bound on the calls of got_alert altogether
  NHandlers,       \* alert handlers in config.yml
  WithAction,      \* those configured with the optional action_command
  First            \* the trigger listed first there, "ftp" or "tcp"

ASSUME BearTrapAssumption ==
  /\ NoIP \notin IPs
  /\ MaxCalls \in Nat /\ MaxAlerts \in Nat
  /\ NHandlers \in Nat \ {0}
  /\ WithAction \subseteq 1 .. NHandlers
  /\ First \in {"ftp", "tcp"}

Calls    == 1 .. MaxCalls
Handlers == 1 .. NHandlers
Triggers == {"ftp", "tcp"}   \* one of each kind

VARIABLES
  defined,   \* @blocked_addresses has been assigned
  blocked,   \* @blocked_addresses; only include?, << and delete are used
  rules,     \* firewall: rules[h][ip] DROP rules handler h has in place
  pc,        \* pc[c]: where the trigger thread of call c is
  via,       \* via[c]: "ftp" or "tcp", the trigger that made the call
  addr,      \* addr[c]: the address given to got_alert
  hc,        \* hc[c]: handler the call is at
  tpc, th,   \* the call's timer thread and the handler it is at
  up,        \* the triggers whose threads (that accept clients) run
  running,   \* the process runs: its main thread joins the thread of First
  alerts,    \* calls of got_alert so far
  stray      \* history: rules whose -D failed or was run before the -A, and
             \* those in place when the process ended

call  == <<pc, via, addr, hc>>
timer == <<tpc, th>>
procs == <<up, running>>
vars  == <<defined, blocked, rules, call, timer, procs, alerts, stray>>

Init ==
  /\ defined = FALSE
  /\ blocked = {}
  /\ rules = [h \in Handlers |-> [ip \in IPs |-> 0]]
  /\ pc = [c \in Calls |-> "idle"]
  /\ via = [c \in Calls |-> "ftp"]
  /\ addr = [c \in Calls |-> NoIP]
  /\ hc = [c \in Calls |-> 1]
  /\ tpc = [c \in Calls |-> "none"]
  /\ th = [c \in Calls |-> 1]
  /\ up = Triggers
  /\ running = TRUE
  /\ alerts = 0
  /\ stray = [h \in Handlers |-> [ip \in IPs |-> 0]]

Goto(c, label) == pc' = [pc EXCEPT ![c] = label]

-----------------------------------------------------------------------------
(* The triggers.                                                           *)

Over == {"idle", "done"}

\* got_alert is called for a client from ip.  A call record is used again once
\* both its threads have ended.
Begin(c, trigger, ip) ==
  /\ running /\ alerts < MaxAlerts
  /\ pc[c] \in Over /\ tpc[c] \in {"none", "done"}
  /\ alerts' = alerts + 1
  /\ pc' = [pc EXCEPT ![c] = "defined"]
  /\ via' = [via EXCEPT ![c] = trigger]
  /\ addr' = [addr EXCEPT ![c] = ip]
  /\ hc' = [hc EXCEPT ![c] = 1]
  /\ tpc' = [tpc EXCEPT ![c] = "none"]
  /\ th' = [th EXCEPT ![c] = 1]
  /\ UNCHANGED <<defined, blocked, rules, procs, stray>>

\* FTPTrigger: USER came, in a thread of the client's own, which the end of the
\* accepting thread does not end.
FtpUser(c) == \E ip \in IPs : Begin(c, "ftp", ip)

\* TCPPortTrigger: accept() and peeraddr, one client after the other.
PortFree == "tcp" \in up /\ \A d \in Calls : via[d] = "tcp" => pc[d] \in Over

PortAccept(c) == PortFree /\ \E ip \in IPs : Begin(c, "tcp", ip)

\* peeraddr of a client that has gone: only EINVAL is rescued.  After an accept()
\* that failed (rescued, too) there is no client, and nil.peeraddr raises.
PortClientGone ==
  /\ PortFree
  /\ \E e \in {"EINVAL", "ENOTCONN", "NoMethodError"} :
       up' = IF e = "EINVAL" THEN up ELSE up \ {"tcp"}
  /\ UNCHANGED <<defined, blocked, rules, call, timer, running, alerts, stray>>

\* FTPTrigger rescues nothing: an accept() that fails ends its thread.
FtpAcceptFails ==
  /\ "ftp" \in up
  /\ up' = up \ {"ftp"}
  /\ UNCHANGED <<defined, blocked, rules, call, timer, running, alerts, stray>>

-----------------------------------------------------------------------------
(* The main thread.                                                        *)

\* join raises what has ended the thread, and the process ends with all its
\* threads.  A command that is being run runs on alone ("left").  The other
\* trigger's thread is joined after this one, which is never: its end is silent.
MainRaises ==
  /\ running /\ First \notin up
  /\ running' = FALSE
  /\ up' = {}
  /\ pc' = [c \in Calls |-> CASE pc[c] \in {"block", "left"} -> "left"
                             [] pc[c] = "idle" -> "idle"
                             [] OTHER -> "done"]
  /\ tpc' = [c \in Calls |-> CASE tpc[c] \in {"unblock", "left"} -> "left"
                              [] tpc[c] = "none" -> "none"
                              [] OTHER -> "done"]
  /\ defined' = FALSE
  /\ blocked' = {}
  /\ stray' = rules
  /\ UNCHANGED <<rules, via, addr, hc, th, alerts>>

\* beartrap is started again; the firewall is as it was left.
Restart ==
  /\ ~ running
  /\ running' = TRUE
  /\ up' = Triggers
  /\ UNCHANGED <<defined, blocked, rules, call, timer, alerts, stray>>

-----------------------------------------------------------------------------
(* got_alert.                                                              *)

CheckDefined(c) ==
  /\ pc[c] = "defined"
  /\ Goto(c, IF defined THEN "include" ELSE "assign")
  /\ UNCHANGED <<defined, blocked, rules, via, addr, hc, timer, procs, alerts, stray>>

Assign(c) ==                   \* may throw another thread's entry away
  /\ pc[c] = "assign"
  /\ defined' = TRUE
  /\ blocked' = {}
  /\ Goto(c, "include")
  /\ UNCHANGED <<rules, via, addr, hc, timer, procs, alerts, stray>>

CheckBlocked(c) ==
  /\ pc[c] = "include"
  /\ Goto(c, IF addr[c] \in blocked THEN "close" ELSE "add")
  /\ UNCHANGED <<defined, blocked, rules, via, addr, hc, timer, procs, alerts, stray>>

Add(c) ==
  /\ pc[c] = "add"
  /\ blocked' = blocked \union {addr[c]}
  /\ Goto(c, "spawn")
  /\ UNCHANGED <<defined, rules, via, addr, hc, timer, procs, alerts, stray>>

\* Mutant of SpawnTimer: the timer thread is not started.
Bug_NoTimer(c) ==
  /\ pc[c] = "spawn"
  /\ Goto(c, "build")
  /\ UNCHANGED <<defined, blocked, rules, via, addr, hc, timer, procs, alerts, stray>>

SpawnTimer(c) ==
  /\ pc[c] = "spawn"
  /\ tpc' = [tpc EXCEPT ![c] = "sleep"]
  /\ Goto(c, "build")
  /\ UNCHANGED <<defined, blocked, rules, via, addr, hc, th, procs, alerts, stray>>

\* handle_alert builds both commands first: nil.match raises without an
\* action_command.  The exception ends the thread: a client's own (its ensure
\* closes), or the one of the TCP trigger.
Build(c) ==
  /\ pc[c] = "build"
  /\ IF hc[c] \in WithAction
       THEN Goto(c, "block") /\ UNCHANGED up
       ELSE Goto(c, "raised") /\ up' = IF via[c] = "tcp" THEN up \ {"tcp"} ELSE up
  /\ UNCHANGED <<defined, blocked, rules, via, addr, hc, timer, running, alerts, stray>>

\* The call's timer has been at handler h already.
Unblocked(c, h) ==
  \/ tpc[c] = "done"
  \/ tpc[c] = "unblock" /\ th[c] > h

Count(count, h, ip) == [count EXCEPT ![h][ip] = @ + 1]

\* The action command and the block command of one handler; then the next.
\* Nobody looks at the status of a command.
Block(c) ==
  /\ pc[c] = "block"
  /\ \/ /\ rules' = Count(rules, hc[c], addr[c])
        /\ stray' = IF Unblocked(c, hc[c]) THEN Count(stray, hc[c], addr[c]) ELSE stray
     \/ UNCHANGED <<rules, stray>>
  /\ IF hc[c] = NHandlers
       THEN Goto(c, "close") /\ UNCHANGED hc
       ELSE Goto(c, "build") /\ hc' = [hc EXCEPT ![c] = @ + 1]
  /\ UNCHANGED <<defined, blocked, via, addr, timer, procs, alerts>>

\* The block command of a process that has ended: no timer knows of its rule.
BlockLeft(c) ==
  /\ pc[c] = "left"
  /\ \/ rules' = Count(rules, hc[c], addr[c]) /\ stray' = Count(stray, hc[c], addr[c])
     \/ UNCHANGED <<rules, stray>>
  /\ Goto(c, "done")
  /\ UNCHANGED <<defined, blocked, via, addr, hc, timer, procs, alerts>>

Return(c) ==                   \* client.close
  /\ pc[c] \in {"close", "raised"}
  /\ Goto(c, "done")
  /\ UNCHANGED <<defined, blocked, rules, via, addr, hc, timer, procs, alerts, stray>>

-----------------------------------------------------------------------------
(* The timer thread of call c.                                             *)

\* Mutant of Expire: the address stays in @blocked_addresses.
Bug_NoDelete(c) ==
  /\ tpc[c] = "sleep"
  /\ tpc' = [tpc EXCEPT ![c] = "unblock"]
  /\ UNCHANGED <<defined, blocked, rules, call, th, procs, alerts, stray>>

Expire(c) ==                   \* sleep is over; delete removes every entry
  /\ tpc[c] = "sleep"
  /\ blocked' = blocked \ {addr[c]}
  /\ tpc' = [tpc EXCEPT ![c] = "unblock"]
  /\ UNCHANGED <<defined, rules, call, th, procs, alerts, stray>>

\* One handler's -D, which fails when there is no rule to delete, or without
\* a reason we model.
Delete(c) ==
  LET h == th[c] IN
  IF rules[h][addr[c]] = 0
    THEN UNCHANGED <<rules, stray>>
    ELSE \/ rules' = [rules EXCEPT ![h][addr[c]] = @ - 1] /\ UNCHANGED stray
         \/ UNCHANGED rules /\ stray' = Count(stray, h, addr[c])

\* Mutant of Unblock: the first handler is forgotten.
Bug_UnblockSkipsFirst(c) ==
  /\ tpc[c] = "unblock"
  /\ IF th[c] = 1 THEN UNCHANGED <<rules, stray>> ELSE Delete(c)
  /\ IF th[c] = NHandlers
       THEN tpc' = [tpc EXCEPT ![c] = "done"] /\ UNCHANGED th
       ELSE th' = [th EXCEPT ![c] = @ + 1] /\ UNCHANGED tpc
  /\ UNCHANGED <<defined, blocked, call, procs, alerts>>

\* Mutant of Unblock: the count of handlers is one too many.
Bug_UnblockTooFar(c) ==
  /\ tpc[c] = "unblock"
  /\ Delete(c)
  /\ IF th[c] > NHandlers
       THEN tpc' = [tpc EXCEPT ![c] = "done"] /\ UNCHANGED th
       ELSE th' = [th EXCEPT ![c] = @ + 1] /\ UNCHANGED tpc
  /\ UNCHANGED <<defined, blocked, call, procs, alerts>>

Unblock(c) ==
  /\ tpc[c] = "unblock"
  /\ Delete(c)
  /\ IF th[c] = NHandlers
       THEN tpc' = [tpc EXCEPT ![c] = "done"] /\ UNCHANGED th
       ELSE th' = [th EXCEPT ![c] = @ + 1] /\ UNCHANGED tpc
  /\ UNCHANGED <<defined, blocked, call, procs, alerts>>

\* The -D of a process that has ended.
UnblockLeft(c) ==
  /\ tpc[c] = "left"
  /\ \/ /\ rules[th[c]][addr[c]] > 0
        /\ rules' = [rules EXCEPT ![th[c]][addr[c]] = @ - 1]
     \/ UNCHANGED rules
  /\ tpc' = [tpc EXCEPT ![c] = "done"]
  /\ UNCHANGED <<defined, blocked, call, th, procs, alerts, stray>>

-----------------------------------------------------------------------------
GotAlert(c) ==
  \/ CheckDefined(c) \/ Assign(c) \/ CheckBlocked(c) \/ Add(c) \/ SpawnTimer(c)
  \/ Build(c) \/ Block(c) \/ BlockLeft(c) \/ Return(c)

Timer(c) == Expire(c) \/ Unblock(c) \/ UnblockLeft(c)

\* No more alerts to explore, and every thread has ended.
Quiet ==
  /\ alerts = MaxAlerts
  /\ \A c \in Calls : pc[c] \in Over /\ tpc[c] \in {"none", "done"}

Next ==
  \/ PortClientGone \/ FtpAcceptFails \/ MainRaises \/ Restart
  \/ \E c \in Calls : FtpUser(c) \/ PortAccept(c) \/ GotAlert(c) \/ Timer(c)
  \/ Quiet /\ UNCHANGED vars

Spec == Init /\ [][Next]_vars

(* Threads that have started run on; nobody owes beartrap another client.  *)
FairSpec == Spec /\ \A c \in Calls : WF_vars(GotAlert(c)) /\ WF_vars(Timer(c))

-----------------------------------------------------------------------------
(* Properties.                                                             *)

(* Every variable has its type.                                            *)
TypeOK ==
  /\ defined \in BOOLEAN /\ up \subseteq Triggers /\ running \in BOOLEAN
  /\ blocked \subseteq IPs
  /\ rules \in [Handlers -> [IPs -> Nat]] /\ stray \in [Handlers -> [IPs -> Nat]]
  /\ pc \in [Calls -> {"idle", "defined", "assign", "include", "add", "spawn",
                       "build", "block", "left", "close", "raised", "done"}]
  /\ via \in [Calls -> {"ftp", "tcp"}]
  /\ addr \in [Calls -> IPs \union {NoIP}]
  /\ \A c \in Calls : pc[c] # "idle" => addr[c] \in IPs
  /\ hc \in [Calls -> Handlers] /\ th \in [Calls -> Handlers]
  /\ tpc \in [Calls -> {"none", "sleep", "unblock", "left", "done"}]
  /\ alerts \in 0 .. MaxAlerts

(* An address is ignored (in @blocked_addresses) only as long as some timer*)
(* is going to delete it: no order of the threads, no exception of a       *)
(* handler and no end of the process, which takes the timers with it,      *)
(* leaves it ignored for good.                                             *)
IgnoredOnlyWhileTimed ==
  \A ip \in blocked : \E c \in Calls :
    addr[c] = ip /\ (pc[c] = "spawn" \/ tpc[c] = "sleep")

(* Whatever the race on @blocked_addresses lets through, every rule in the *)
(* firewall has a timer of its own that has yet to delete it ("After 3     *)
(* seconds, remove the address", bear_trap.rb:79), but for the stray ones: *)
(* the -D has failed or came before the -A, or the process has ended with  *)
(* the rule in place or being placed.  A process started after that owes   *)
(* the firewall all of its own rules again.                                *)
EveryRuleTimed ==
  \A h \in Handlers, ip \in IPs :
    rules[h][ip] <= stray[h][ip] + Cardinality({c \in Calls :
      addr[c] = ip /\ (tpc[c] = "sleep" \/ (tpc[c] = "unblock" /\ th[c] <= h))})

(* Every ban ends that no failed or early -D and no end of the process has *)
(* made stray: once its calls are over, an address has in the end no other *)
(* rules, and is not ignored any more.                                     *)
BanEnds ==
  \A h \in Handlers, ip \in IPs :
    <>[](\A c \in Calls : addr[c] = ip => pc[c] \in Over)
      => <>[](rules[h][ip] <= stray[h][ip] /\ ip \notin blocked)
=============================================================================
