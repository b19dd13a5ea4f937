--------------------------- MODULE BearTrapProofs ---------------------------
(***************************************************************************)
(* For any number of addresses, calls and handlers, whatever the race on   *)
(* @blocked_addresses does and however often the process ends: nobody is   *)
(* ignored for good, and every rule in the firewall is some timer's to     *)
(* delete or one of those that no timer is left for.                       *)
(***************************************************************************)
EXTENDS BearTrap, FiniteSetTheorems, TLAPS

-----------------------------------------------------------------------------
(* The inductive invariant.                                                *)

\* Where a call and its timer can be together: the timer starts between spawn
\* and build, with the first handler.
Phases ==
  \A c \in Calls :
    /\ pc[c] = "idle" => tpc[c] = "none"
    /\ pc[c] \in {"defined", "assign", "include", "add", "spawn"} => tpc[c] = "none" /\ hc[c] = 1
    /\ pc[c] \in {"build", "block"} => tpc[c] # "none"
    /\ tpc[c] \in {"none", "sleep"} => th[c] = 1
    /\ tpc[c] = "left" => pc[c] \in {"left", "done"}

\* Call c has run the commands of handler h, or will never.
Placed(c, h) == hc[c] > h \/ pc[c] \in {"close", "raised", "done"}

\* The timer of call c has yet to come to handler h.
Timed(c, h) == tpc[c] = "sleep" \/ (tpc[c] = "unblock" /\ th[c] <= h)

\* The calls that have placed a rule and have its deletion before them
Debtors(h, ip) == {c \in Calls : addr[c] = ip /\ Placed(c, h) /\ Timed(c, h)}

\* EveryRuleTimed is not inductive: a timer runs before the rule is placed, and
\* counted then it would do for an older rule, too.
Owed ==
  \A h \in Handlers, ip \in IPs :
    rules[h][ip] <= stray[h][ip] + Cardinality(Debtors(h, ip))

IInv == TypeOK /\ Phases /\ IgnoredOnlyWhileTimed /\ Owed

-----------------------------------------------------------------------------
(* Every step keeps each part.                                             *)

LEMMA HandlerNumbers ==
  /\ 1 \in Handlers
  /\ \A h \in Handlers : h \in Nat \ {0} /\ (h # NHandlers => h + 1 \in Handlers)
<1>1. NHandlers \in Nat \ {0}
  BY BearTrapAssumption
<1> QED
  BY <1>1 DEF Handlers

\* What a command does to the counts of rules
LEMMA Counts ==
  ASSUME NEW f \in [Handlers -> [IPs -> Nat]], NEW h \in Handlers, NEW ip \in IPs
  PROVE  /\ Count(f, h, ip) \in [Handlers -> [IPs -> Nat]]
         /\ \A g \in Handlers, a \in IPs :
              Count(f, h, ip)[g][a] = IF g = h /\ a = ip THEN f[g][a] + 1 ELSE f[g][a]
         /\ f[h][ip] # 0 => [f EXCEPT ![h][ip] = @ - 1] \in [Handlers -> [IPs -> Nat]]
<1> DEFINE row(n) == [f[h] EXCEPT ![ip] = n]
<1>1. \A n \in Nat : row(n) \in [IPs -> Nat] /\ [f EXCEPT ![h] = row(n)] \in [Handlers -> [IPs -> Nat]]
  OBVIOUS
<1>2. Count(f, h, ip) = [f EXCEPT ![h] = row(f[h][ip] + 1)]
  BY DEF Count
<1>3. [f EXCEPT ![h][ip] = @ - 1] = [f EXCEPT ![h] = row(f[h][ip] - 1)]
  OBVIOUS
<1>4. f[h][ip] \in Nat /\ f[h][ip] + 1 \in Nat
  OBVIOUS
<1>5. f[h][ip] # 0 => f[h][ip] - 1 \in Nat
  BY <1>4
<1>6. \A g \in Handlers, a \in IPs :
        Count(f, h, ip)[g][a] = IF g = h /\ a = ip THEN f[g][a] + 1 ELSE f[g][a]
  BY DEF Count
<1> HIDE DEF row
<1> QED
  BY <1>1, <1>2, <1>3, <1>4, <1>5, <1>6

LEMMA CountsOne ==
  ASSUME NEW f \in [Handlers -> [IPs -> Nat]], NEW h \in Handlers, NEW ip \in IPs
  PROVE  Count(f, h, ip)[h][ip] = f[h][ip] + 1
  BY DEF Count

\* Who is left when the process ends: nobody of its threads, only commands.
LEMMA Ended ==
  ASSUME TypeOK, MainRaises, NEW c \in Calls
  PROVE  /\ pc'[c] \in {"idle", "left", "done"} /\ tpc'[c] \in {"none", "left", "done"}
         /\ pc'[c] = "idle" <=> pc[c] = "idle"
         /\ pc'[c] = "left" <=> pc[c] \in {"block", "left"}
         /\ tpc'[c] = "none" <=> tpc[c] = "none"
<1>1. pc'[c] = CASE pc[c] \in {"block", "left"} -> "left" [] pc[c] = "idle" -> "idle" [] OTHER -> "done"
  BY DEF MainRaises
<1>2. tpc'[c] = CASE tpc[c] \in {"unblock", "left"} -> "left" [] tpc[c] = "none" -> "none" [] OTHER -> "done"
  BY DEF MainRaises
<1> QED
  BY <1>1, <1>2

LEMMA TypeStep ==
  ASSUME TypeOK, Phases, Next
  PROVE  TypeOK'
<1> USE DEF TypeOK, Goto, call, timer, procs
<1>1. CASE PortClientGone \/ FtpAcceptFails \/ Restart
  BY <1>1 DEF PortClientGone, FtpAcceptFails, Restart, Triggers
<1>14. CASE MainRaises
  <2>1. /\ pc' \in [Calls -> {"idle", "defined", "assign", "include", "add", "spawn",
                              "build", "block", "left", "close", "raised", "done"}]
        /\ tpc' \in [Calls -> {"none", "sleep", "unblock", "left", "done"}]
        /\ \A c \in Calls : pc'[c] # "idle" => addr'[c] \in IPs
    <3>1. /\ pc' = [c \in Calls |-> pc'[c]] /\ tpc' = [c \in Calls |-> tpc'[c]]
          /\ addr' = addr
      BY <1>14 DEF MainRaises
    <3>2. \A c \in Calls : /\ pc'[c] \in {"idle", "left", "done"} /\ tpc'[c] \in {"none", "left", "done"}
                           /\ pc'[c] = "idle" <=> pc[c] = "idle"
      BY <1>14, Ended
    <3> QED
      BY <3>1, <3>2
  <2> QED
    BY <1>14, <2>1 DEF MainRaises
<1>15. ASSUME NEW c \in Calls, BlockLeft(c) PROVE TypeOK'
  <2>1. addr[c] \in IPs /\ hc[c] \in Handlers
    BY <1>15 DEF BlockLeft
  <2>2. rules' \in [Handlers -> [IPs -> Nat]] /\ stray' \in [Handlers -> [IPs -> Nat]]
    <3>1. /\ Count(rules, hc[c], addr[c]) \in [Handlers -> [IPs -> Nat]]
          /\ Count(stray, hc[c], addr[c]) \in [Handlers -> [IPs -> Nat]]
      BY <2>1, Counts
    <3> QED
      BY <1>15, <3>1 DEF BlockLeft
  <2> QED
    BY <1>15, <2>2 DEF BlockLeft
<1>16. ASSUME NEW c \in Calls, UnblockLeft(c) PROVE TypeOK'
  <2>1. addr[c] \in IPs /\ th[c] \in Handlers
    BY <1>16 DEF UnblockLeft, Phases
  <2>2. rules' \in [Handlers -> [IPs -> Nat]]
    <3>1. rules[th[c]][addr[c]] # 0
            => [rules EXCEPT ![th[c]][addr[c]] = @ - 1] \in [Handlers -> [IPs -> Nat]]
      BY <2>1, Counts
    <3>2. rules[th[c]][addr[c]] \in Nat
      BY <2>1
    <3>3. \/ rules' = rules
          \/ rules[th[c]][addr[c]] > 0 /\ rules' = [rules EXCEPT ![th[c]][addr[c]] = @ - 1]
      BY <1>16 DEF UnblockLeft
    <3>4. rules \in [Handlers -> [IPs -> Nat]]
      OBVIOUS
    <3> HIDE DEF TypeOK
    <3> QED
      BY <3>1, <3>2, <3>3, <3>4
  <2> QED
    BY <1>16, <2>2 DEF UnblockLeft
<1>2. ASSUME NEW c \in Calls, FtpUser(c) \/ PortAccept(c) PROVE TypeOK'
  <2>1. PICK ip \in IPs, trigger \in {"ftp", "tcp"} : Begin(c, trigger, ip)
    BY <1>2 DEF FtpUser, PortAccept
  <2>2. alerts + 1 \in 0 .. MaxAlerts
    BY <2>1, BearTrapAssumption DEF Begin
  <2> QED
    BY <2>1, <2>2, HandlerNumbers DEF Begin
<1>3. ASSUME NEW c \in Calls, CheckDefined(c) PROVE TypeOK'
  BY <1>3 DEF CheckDefined
<1>4. ASSUME NEW c \in Calls, Assign(c) PROVE TypeOK'
  BY <1>4 DEF Assign
<1>5. ASSUME NEW c \in Calls, CheckBlocked(c) PROVE TypeOK'
  BY <1>5 DEF CheckBlocked
<1>6. ASSUME NEW c \in Calls, Add(c) PROVE TypeOK'
  BY <1>6 DEF Add
<1>7. ASSUME NEW c \in Calls, SpawnTimer(c) PROVE TypeOK'
  BY <1>7 DEF SpawnTimer
<1>8. ASSUME NEW c \in Calls, Build(c) PROVE TypeOK'
  BY <1>8 DEF Build
<1>9. ASSUME NEW c \in Calls, Block(c) PROVE TypeOK'
  <2>1. addr[c] \in IPs /\ hc[c] \in Handlers
    BY <1>9 DEF Block
  <2>2. rules' \in [Handlers -> [IPs -> Nat]] /\ stray' \in [Handlers -> [IPs -> Nat]]
    <3>1. /\ rules' = rules \/ rules' = Count(rules, hc[c], addr[c])
          /\ stray' = stray \/ stray' = Count(stray, hc[c], addr[c])
      BY <1>9 DEF Block
    <3>2. /\ Count(rules, hc[c], addr[c]) \in [Handlers -> [IPs -> Nat]]
          /\ Count(stray, hc[c], addr[c]) \in [Handlers -> [IPs -> Nat]]
      BY <2>1, Counts
    <3> QED
      BY <3>1, <3>2
  <2>3. hc' \in [Calls -> Handlers]
    BY <1>9, HandlerNumbers DEF Block
  <2>4. pc' \in [Calls -> {"idle", "defined", "assign", "include", "add", "spawn",
                           "build", "block", "left", "close", "raised", "done"}]
        /\ \A d \in Calls : pc'[d] # "idle" => addr'[d] \in IPs
    BY <1>9 DEF Block
  <2> QED
    BY <1>9, <2>2, <2>3, <2>4 DEF Block
<1>10. ASSUME NEW c \in Calls, Return(c) PROVE TypeOK'
  BY <1>10 DEF Return
<1>11. ASSUME NEW c \in Calls, Expire(c) PROVE TypeOK'
  BY <1>11 DEF Expire
<1>12. ASSUME NEW c \in Calls, Unblock(c) PROVE TypeOK'
  <2>1. th' \in [Calls -> Handlers] /\ tpc' \in [Calls -> {"none", "sleep", "unblock", "left", "done"}]
    BY <1>12, HandlerNumbers DEF Unblock
  <2>2. rules' \in [Handlers -> [IPs -> Nat]] /\ stray' \in [Handlers -> [IPs -> Nat]]
    <3>1. addr[c] \in IPs /\ th[c] \in Handlers
      BY <1>12 DEF Unblock, Phases
    <3>2. /\ \/ rules' = rules
             \/ rules[th[c]][addr[c]] # 0 /\ rules' = [rules EXCEPT ![th[c]][addr[c]] = @ - 1]
          /\ stray' = stray \/ stray' = Count(stray, th[c], addr[c])
      BY <1>12 DEF Unblock, Delete
    <3>3. Count(stray, th[c], addr[c]) \in [Handlers -> [IPs -> Nat]]
      BY <3>1, Counts
    <3>4. rules[th[c]][addr[c]] # 0
            => [rules EXCEPT ![th[c]][addr[c]] = @ - 1] \in [Handlers -> [IPs -> Nat]]
      BY <3>1, Counts
    <3> QED
      BY <3>2, <3>3, <3>4
  <2> QED
    BY <1>12, <2>1, <2>2 DEF Unblock
<1>13. CASE UNCHANGED vars
  BY <1>13 DEF vars
<1> QED
  BY <1>1, <1>2, <1>3, <1>4, <1>5, <1>6, <1>7, <1>8, <1>9, <1>10, <1>11, <1>12, <1>13,
     <1>14, <1>15, <1>16
  DEF Next, GotAlert, Timer

LEMMA PhasesStep ==
  ASSUME TypeOK, Phases, Next
  PROVE  Phases'
<1> USE DEF TypeOK, Phases, Goto, call, timer
<1>1. CASE PortClientGone \/ FtpAcceptFails \/ Restart \/ UNCHANGED vars
  BY <1>1 DEF PortClientGone, FtpAcceptFails, Restart, vars
<1>0. CASE MainRaises
  BY <1>0, Ended DEF MainRaises
<1>9. ASSUME NEW c \in Calls, BlockLeft(c) \/ UnblockLeft(c) PROVE Phases'
  BY <1>9 DEF BlockLeft, UnblockLeft
<1>2. ASSUME NEW c \in Calls, FtpUser(c) \/ PortAccept(c) PROVE Phases'
  <2>1. PICK ip \in IPs, trigger \in {"ftp", "tcp"} : Begin(c, trigger, ip)
    BY <1>2 DEF FtpUser, PortAccept
  <2> QED
    BY <2>1 DEF Begin
<1>3. ASSUME NEW c \in Calls, CheckDefined(c) \/ Assign(c) \/ CheckBlocked(c) \/ Add(c) PROVE Phases'
  BY <1>3 DEF CheckDefined, Assign, CheckBlocked, Add
<1>4. ASSUME NEW c \in Calls, SpawnTimer(c) \/ Build(c) \/ Return(c) PROVE Phases'
  BY <1>4 DEF SpawnTimer, Build, Return
<1>5. ASSUME NEW c \in Calls, Block(c) PROVE Phases'
  BY <1>5 DEF Block
<1>6. ASSUME NEW c \in Calls, Expire(c) PROVE Phases'
  BY <1>6 DEF Expire
<1>7. ASSUME NEW c \in Calls, Unblock(c) PROVE Phases'
  BY <1>7 DEF Unblock
<1> QED
  BY <1>0, <1>1, <1>2, <1>3, <1>4, <1>5, <1>6, <1>7, <1>9 DEF Next, GotAlert, Timer

\* An address comes to @blocked_addresses with a call that is about to start a
\* timer; only the timers of the address delete it, and then it is gone.
LEMMA IgnoredStep ==
  ASSUME TypeOK, Phases, IgnoredOnlyWhileTimed, Next
  PROVE  IgnoredOnlyWhileTimed'
<1> USE DEF TypeOK, IgnoredOnlyWhileTimed, Goto, call, timer
<1>1. CASE PortClientGone \/ FtpAcceptFails \/ Restart \/ UNCHANGED vars
  BY <1>1 DEF PortClientGone, FtpAcceptFails, Restart, vars
<1>0. CASE MainRaises
  BY <1>0 DEF MainRaises
<1>9. ASSUME NEW c \in Calls, BlockLeft(c) \/ UnblockLeft(c) PROVE IgnoredOnlyWhileTimed'
  BY <1>9 DEF BlockLeft, UnblockLeft
<1>2. ASSUME NEW c \in Calls, FtpUser(c) \/ PortAccept(c) PROVE IgnoredOnlyWhileTimed'
  <2>1. PICK ip \in IPs, trigger \in {"ftp", "tcp"} : Begin(c, trigger, ip)
    BY <1>2 DEF FtpUser, PortAccept
  <2>2. pc[c] # "spawn" /\ tpc[c] # "sleep"
    BY <2>1 DEF Begin, Over
  <2> QED
    BY <2>1, <2>2 DEF Begin
<1>3. ASSUME NEW c \in Calls, CheckDefined(c) \/ CheckBlocked(c) \/ Build(c) \/ Block(c) \/ Return(c)
      PROVE  IgnoredOnlyWhileTimed'
  BY <1>3 DEF CheckDefined, CheckBlocked, Build, Block, Return
<1>4. ASSUME NEW c \in Calls, Assign(c) PROVE IgnoredOnlyWhileTimed'
  BY <1>4 DEF Assign
<1>5. ASSUME NEW c \in Calls, Add(c) PROVE IgnoredOnlyWhileTimed'
  BY <1>5 DEF Add
<1>6. ASSUME NEW c \in Calls, SpawnTimer(c) PROVE IgnoredOnlyWhileTimed'
  BY <1>6 DEF SpawnTimer
<1>7. ASSUME NEW c \in Calls, Expire(c) PROVE IgnoredOnlyWhileTimed'
  BY <1>7 DEF Expire
<1>8. ASSUME NEW c \in Calls, Unblock(c) PROVE IgnoredOnlyWhileTimed'
  BY <1>8 DEF Unblock
<1> QED
  BY <1>0, <1>1, <1>2, <1>3, <1>4, <1>5, <1>6, <1>7, <1>8, <1>9 DEF Next, GotAlert, Timer

-----------------------------------------------------------------------------
(* Rules and the timers that owe their deletion.                           *)

LEMMA CallsFinite ==
  ASSUME NEW S, S \subseteq Calls
  PROVE  IsFiniteSet(S) /\ Cardinality(S) \in Nat
<1>1. IsFiniteSet(Calls)
  BY FS_Interval, BearTrapAssumption DEF Calls
<1> QED
  BY <1>1, FS_Subset, FS_CardinalityType

\* While no rule comes or goes and no debtor is let off, every rule is owed.
LEMMA OwedKept ==
  ASSUME TypeOK, Owed, UNCHANGED << rules, stray >>,
         \A h \in Handlers, ip \in IPs : Debtors(h, ip) \subseteq Debtors(h, ip)'
  PROVE  Owed'
<1> SUFFICES ASSUME NEW h \in Handlers, NEW ip \in IPs
             PROVE  rules[h][ip] <= stray[h][ip] + Cardinality(Debtors(h, ip)')
  BY DEF Owed
<1> DEFINE D == Debtors(h, ip)
           E == Debtors(h, ip)'
<1>1. D \subseteq E /\ E \subseteq Calls
  BY DEF Debtors
<1>2. Cardinality(D) <= Cardinality(E) /\ Cardinality(D) \in Nat /\ Cardinality(E) \in Nat
  <2>1. D \subseteq Calls
    BY <1>1
  <2> QED
    BY <1>1, <2>1, CallsFinite, FS_Subset
<1>3. rules[h][ip] <= stray[h][ip] + Cardinality(D)
  BY DEF Owed
<1>4. rules[h][ip] \in Nat /\ stray[h][ip] \in Nat
  BY DEF TypeOK
<1> HIDE DEF D, E
<1>5. rules[h][ip] <= stray[h][ip] + Cardinality(E)
  BY <1>2, <1>3, <1>4
<1> QED
  BY <1>5 DEF E

\* A rule comes with a debtor more, or with a stray one; no debtor is let off.
LEMMA BlockStep ==
  ASSUME TypeOK, Phases, Owed, NEW c \in Calls, Block(c)
  PROVE  Owed'
<1> SUFFICES ASSUME NEW h \in Handlers, NEW ip \in IPs
             PROVE  rules'[h][ip] <= stray'[h][ip] + Cardinality(Debtors(h, ip)')
  BY DEF Owed
<1> DEFINE D == Debtors(h, ip)
           E == Debtors(h, ip)'
<1>0. rules \in [Handlers -> [IPs -> Nat]] /\ stray \in [Handlers -> [IPs -> Nat]]
  BY DEF TypeOK
<1>1. /\ rules[h][ip] \in Nat /\ stray[h][ip] \in Nat
      /\ addr[c] \in IPs /\ hc[c] \in Handlers /\ th[c] \in Handlers
      /\ pc[c] = "block" /\ tpc[c] \in {"sleep", "unblock", "done"}
  BY <1>0 DEF TypeOK, Phases, Block
<1>2. D \subseteq E /\ E \subseteq Calls
  <2>1. \A d \in Calls : /\ addr'[d] = addr[d] /\ (Timed(d, h)' <=> Timed(d, h))
                         /\ d # c => (Placed(d, h)' <=> Placed(d, h))
    BY DEF TypeOK, Block, Goto, Timed, Placed, timer
  <2>2. Placed(c, h) => Placed(c, h)'
    <3>1. hc'[c] = hc[c] + 1 \/ pc'[c] = "close"
      BY DEF TypeOK, Block, Goto
    <3>2. hc[c] \in Nat /\ h \in Nat
      BY <1>1, HandlerNumbers
    <3>3. hc[c] > h => hc[c] + 1 > h
      BY <3>2
    <3> QED
      BY <1>1, <3>1, <3>3 DEF Placed
  <2> QED
    BY <2>1, <2>2 DEF Debtors
<1>3. /\ IsFiniteSet(D) /\ Cardinality(D) \in Nat /\ Cardinality(E) \in Nat
      /\ Cardinality(D) <= Cardinality(E)
  <2>1. D \subseteq Calls
    BY <1>2
  <2> QED
    BY <1>2, <2>1, CallsFinite, FS_Subset
<1>4. rules[h][ip] <= stray[h][ip] + Cardinality(D)
  BY DEF Owed
<1>5. CASE /\ h = hc[c] /\ ip = addr[c] /\ ~ Unblocked(c, h)
           /\ rules' = Count(rules, hc[c], addr[c]) /\ UNCHANGED stray
  <2>1. c \notin D
    <3>1. hc[c] \in Nat /\ h = hc[c]
      BY <1>1, <1>5, HandlerNumbers
    <3>2. ~ (hc[c] > h)
      BY <3>1
    <3> QED
      BY <1>1, <3>2 DEF Debtors, Placed
  <2>2. c \in E
    <3>1. Timed(c, h)'
      <4>1. th[c] \in Nat /\ h \in Nat /\ tpc' = tpc /\ th' = th
        BY <1>1, HandlerNumbers DEF Block, timer
      <4> QED
        BY <1>1, <1>5, <4>1 DEF Unblocked, Timed
    <3>2. Placed(c, h)' /\ addr'[c] = ip
      BY <1>1, <1>5, HandlerNumbers DEF Placed, Block, Goto, TypeOK
    <3> QED
      BY <3>1, <3>2 DEF Debtors
  <2>3. Cardinality(D \union {c}) = Cardinality(D) + 1
    BY <1>3, <2>1, FS_AddElement
  <2>4. Cardinality(D \union {c}) <= Cardinality(E)
    <3>1. D \union {c} \subseteq E
      BY <1>2, <2>2
    <3> QED
      BY <1>2, <3>1, CallsFinite, FS_Subset
  <2>5. rules'[h][ip] = rules[h][ip] + 1
    BY <1>0, <1>1, <1>5, CountsOne
  <2> HIDE DEF D, E
  <2>6. rules'[h][ip] <= stray'[h][ip] + Cardinality(E)
    BY <1>1, <1>3, <1>4, <1>5, <2>3, <2>4, <2>5
  <2> QED
    BY <2>6 DEF E
<1>6. CASE /\ h = hc[c] /\ ip = addr[c]
           /\ rules' = Count(rules, hc[c], addr[c]) /\ stray' = Count(stray, hc[c], addr[c])
  <2>1. rules'[h][ip] = rules[h][ip] + 1
    BY <1>0, <1>1, <1>6, CountsOne
  <2>2. stray'[h][ip] = stray[h][ip] + 1
    BY <1>0, <1>1, <1>6, CountsOne
  <2> HIDE DEF D, E
  <2>3. rules'[h][ip] <= stray'[h][ip] + Cardinality(E)
    BY <1>1, <1>3, <1>4, <2>1, <2>2
  <2> QED
    BY <2>3 DEF E
<1>7. CASE (h # hc[c] \/ ip # addr[c]) \/ UNCHANGED << rules, stray >>
  <2>1. rules'[h][ip] = rules[h][ip] /\ stray'[h][ip] = stray[h][ip]
    <3>1. CASE UNCHANGED << rules, stray >>
      BY <3>1
    <3>2. CASE h # hc[c] \/ ip # addr[c]
      <4>1. /\ rules' = rules \/ rules' = Count(rules, hc[c], addr[c])
            /\ stray' = stray \/ stray' = Count(stray, hc[c], addr[c])
        BY DEF Block
      <4>2. Count(rules, hc[c], addr[c])[h][ip] = rules[h][ip]
        BY <1>0, <1>1, <3>2, Counts
      <4>3. Count(stray, hc[c], addr[c])[h][ip] = stray[h][ip]
        BY <1>0, <1>1, <3>2, Counts
      <4> QED
        BY <4>1, <4>2, <4>3
    <3> QED
      BY <1>7, <3>1, <3>2
  <2> HIDE DEF D, E
  <2>2. rules'[h][ip] <= stray'[h][ip] + Cardinality(E)
    BY <1>1, <1>3, <1>4, <2>1
  <2> QED
    BY <2>2 DEF E
<1>8. \/ /\ rules' = Count(rules, hc[c], addr[c])
         /\ \/ Unblocked(c, hc[c]) /\ stray' = Count(stray, hc[c], addr[c])
            \/ ~ Unblocked(c, hc[c]) /\ UNCHANGED stray
      \/ UNCHANGED << rules, stray >>
  BY DEF Block
<1> QED
  BY <1>5, <1>6, <1>7, <1>8

\* A timer that has come to a handler deletes a rule of it, leaves none or leaves
\* a stray one; it is no debtor of that handler any more.
LEMMA UnblockStep ==
  ASSUME TypeOK, Phases, Owed, NEW c \in Calls, Unblock(c)
  PROVE  Owed'
<1> SUFFICES ASSUME NEW h \in Handlers, NEW ip \in IPs
             PROVE  rules'[h][ip] <= stray'[h][ip] + Cardinality(Debtors(h, ip)')
  BY DEF Owed
<1> DEFINE D == Debtors(h, ip)
           E == Debtors(h, ip)'
<1>0. rules \in [Handlers -> [IPs -> Nat]] /\ stray \in [Handlers -> [IPs -> Nat]]
  BY DEF TypeOK
<1>1. /\ rules[h][ip] \in Nat /\ stray[h][ip] \in Nat
      /\ addr[c] \in IPs /\ th[c] \in Handlers /\ tpc[c] = "unblock"
  BY <1>0 DEF TypeOK, Phases, Unblock
<1>2. \A d \in Calls : addr'[d] = addr[d] /\ (Placed(d, h)' <=> Placed(d, h))
  BY DEF Unblock, call, Placed
<1>3. \A d \in Calls \ {c} : Timed(d, h)' <=> Timed(d, h)
  BY DEF TypeOK, Unblock, Timed
<1>4. h # th[c] => (Timed(c, h)' <=> Timed(c, h))
  BY <1>1, HandlerNumbers DEF TypeOK, Unblock, Timed, Handlers
<1>5. D \subseteq Calls /\ E \subseteq Calls /\ IsFiniteSet(D) /\ IsFiniteSet(E)
      /\ Cardinality(D) \in Nat /\ Cardinality(E) \in Nat
  <2>1. D \subseteq Calls /\ E \subseteq Calls
    BY DEF Debtors
  <2> QED
    BY <2>1, CallsFinite
<1>6. rules[h][ip] <= stray[h][ip] + Cardinality(D)
  BY DEF Owed
<1>7. CASE h = th[c] /\ ip = addr[c]
  <2>1. D \ {c} \subseteq E
    BY <1>2, <1>3 DEF Debtors
  <2>2. Cardinality(D) <= Cardinality(E) + 1
    <3>1. Cardinality(D \ {c}) \in Nat /\ Cardinality(D) <= Cardinality(D \ {c}) + 1
      <4> HIDE DEF D, E
      <4>1. /\ IsFiniteSet(D \ {c}) /\ Cardinality(D \ {c}) \in Nat
            /\ Cardinality(D \ {c}) = IF c \in D THEN Cardinality(D) - 1 ELSE Cardinality(D)
        BY <1>5, FS_RemoveElement, FS_CardinalityType
      <4> QED
        BY <1>5, <4>1
    <3>2. Cardinality(D \ {c}) <= Cardinality(E)
      BY <1>5, <2>1, FS_Subset
    <3> HIDE DEF D, E
    <3> QED
      BY <1>5, <3>1, <3>2
  <2>3. \/ rules[h][ip] = 0 /\ UNCHANGED << rules, stray >>
        \/ rules'[h][ip] = rules[h][ip] - 1 /\ rules[h][ip] # 0 /\ UNCHANGED stray
        \/ UNCHANGED rules /\ stray'[h][ip] = stray[h][ip] + 1
    <3>1. \/ rules[h][ip] = 0 /\ UNCHANGED << rules, stray >>
          \/ /\ rules[h][ip] # 0 /\ UNCHANGED stray
             /\ rules' = [rules EXCEPT ![h][ip] = @ - 1]
          \/ UNCHANGED rules /\ stray' = Count(stray, h, ip)
      BY <1>7 DEF Unblock, Delete
    <3>2. [rules EXCEPT ![h][ip] = @ - 1][h][ip] = rules[h][ip] - 1
      BY DEF TypeOK
    <3>3. Count(stray, h, ip)[h][ip] = stray[h][ip] + 1
      BY <1>0, <1>1, <1>7, Counts
    <3> QED
      BY <3>1, <3>2, <3>3
  <2> HIDE DEF D, E
  <2>4. rules'[h][ip] <= stray'[h][ip] + Cardinality(E)
    <3>1. CASE rules[h][ip] = 0 /\ UNCHANGED << rules, stray >>
      BY <1>1, <1>5, <3>1
    <3>2. CASE rules'[h][ip] = rules[h][ip] - 1 /\ rules[h][ip] # 0 /\ UNCHANGED stray
      BY <1>1, <1>5, <1>6, <2>2, <3>2
    <3>3. CASE UNCHANGED rules /\ stray'[h][ip] = stray[h][ip] + 1
      BY <1>1, <1>5, <1>6, <2>2, <3>3
    <3> QED
      BY <2>3, <3>1, <3>2, <3>3
  <2> QED
    BY <2>4 DEF E
<1>8. CASE h # th[c] \/ ip # addr[c]
  <2>1. D = E
    BY <1>2, <1>3, <1>4, <1>8 DEF Debtors
  <2>2. rules'[h][ip] = rules[h][ip] /\ stray'[h][ip] = stray[h][ip]
    <3>1. /\ rules' = rules \/ rules' = [rules EXCEPT ![th[c]][addr[c]] = @ - 1]
          /\ stray' = stray \/ stray' = Count(stray, th[c], addr[c])
      BY DEF Unblock, Delete
    <3>2. [rules EXCEPT ![th[c]][addr[c]] = @ - 1][h][ip] = rules[h][ip]
      BY <1>1, <1>8 DEF TypeOK
    <3>3. Count(stray, th[c], addr[c])[h][ip] = stray[h][ip]
      BY <1>0, <1>1, <1>8, Counts
    <3> QED
      BY <3>1, <3>2, <3>3
  <2> HIDE DEF D, E
  <2> QED
    BY <1>6, <2>1, <2>2 DEF E
<1> QED
  BY <1>7, <1>8

\* A command of a process that has ended places a rule with a stray one, or deletes one.
LEMMA LeftStep ==
  ASSUME TypeOK, Phases, Owed, NEW c \in Calls, BlockLeft(c) \/ UnblockLeft(c)
  PROVE  Owed'
<1> SUFFICES ASSUME NEW h \in Handlers, NEW ip \in IPs
             PROVE  rules'[h][ip] <= stray'[h][ip] + Cardinality(Debtors(h, ip)')
  BY DEF Owed
<1> DEFINE D == Debtors(h, ip)
           E == Debtors(h, ip)'
<1>0. rules \in [Handlers -> [IPs -> Nat]] /\ stray \in [Handlers -> [IPs -> Nat]]
  BY DEF TypeOK
<1>1. rules[h][ip] \in Nat /\ stray[h][ip] \in Nat /\ addr[c] \in IPs
      /\ hc[c] \in Handlers /\ th[c] \in Handlers
  BY <1>0 DEF TypeOK, Phases, BlockLeft, UnblockLeft
<1>2. D \subseteq E /\ E \subseteq Calls
  BY DEF BlockLeft, UnblockLeft, Debtors, Placed, Timed, TypeOK, Goto, call, timer
<1>3. Cardinality(D) \in Nat /\ Cardinality(E) \in Nat /\ Cardinality(D) <= Cardinality(E)
  <2>1. D \subseteq Calls
    BY <1>2
  <2> QED
    BY <1>2, <2>1, CallsFinite, FS_Subset
<1>4. rules[h][ip] <= stray[h][ip] + Cardinality(D)
  BY DEF Owed
<1>5. \/ rules'[h][ip] = rules[h][ip] /\ stray'[h][ip] = stray[h][ip]
      \/ rules'[h][ip] = rules[h][ip] + 1 /\ stray'[h][ip] = stray[h][ip] + 1
      \/ rules'[h][ip] = rules[h][ip] - 1 /\ stray'[h][ip] = stray[h][ip]
  <2>1. CASE BlockLeft(c)
    <3>1. \/ UNCHANGED <<rules, stray>>
          \/ rules' = Count(rules, hc[c], addr[c]) /\ stray' = Count(stray, hc[c], addr[c])
      BY <2>1 DEF BlockLeft
    <3>2. \A f \in [Handlers -> [IPs -> Nat]] :
            Count(f, hc[c], addr[c])[h][ip]
              = IF h = hc[c] /\ ip = addr[c] THEN f[h][ip] + 1 ELSE f[h][ip]
      BY <1>1, Counts
    <3>3. CASE UNCHANGED <<rules, stray>>
      BY <3>3
    <3>4. CASE rules' = Count(rules, hc[c], addr[c]) /\ stray' = Count(stray, hc[c], addr[c])
      <4>1. /\ rules'[h][ip] = IF h = hc[c] /\ ip = addr[c] THEN rules[h][ip] + 1 ELSE rules[h][ip]
            /\ stray'[h][ip] = IF h = hc[c] /\ ip = addr[c] THEN stray[h][ip] + 1 ELSE stray[h][ip]
        BY <1>0, <3>2, <3>4
      <4> QED
        BY <4>1
    <3> QED
      BY <3>1, <3>3, <3>4
  <2>2. CASE UnblockLeft(c)
    <3>1. rules' = rules \/ rules' = [rules EXCEPT ![th[c]][addr[c]] = @ - 1]
      BY <2>2 DEF UnblockLeft
    <3>2. stray' = stray
      BY <2>2 DEF UnblockLeft
    <3>3. [rules EXCEPT ![th[c]][addr[c]] = @ - 1][h][ip]
            = IF h = th[c] /\ ip = addr[c] THEN rules[h][ip] - 1 ELSE rules[h][ip]
      BY <1>0, <1>1
    <3> QED
      BY <3>1, <3>2, <3>3
  <2> QED
    BY <2>1, <2>2
<1> HIDE DEF D, E
<1>6. rules'[h][ip] <= stray'[h][ip] + Cardinality(E)
  BY <1>1, <1>3, <1>4, <1>5
<1> QED
  BY <1>6 DEF E

LEMMA OwedStep ==
  ASSUME TypeOK, Phases, Owed, Next
  PROVE  Owed'
<1> USE DEF TypeOK, Goto, call, timer, Debtors, Placed, Timed
<1>1. CASE PortClientGone \/ FtpAcceptFails \/ Restart \/ UNCHANGED vars
  BY <1>1, OwedKept DEF PortClientGone, FtpAcceptFails, Restart, vars
<1>9. CASE MainRaises
  <2> SUFFICES ASSUME NEW h \in Handlers, NEW ip \in IPs
               PROVE  rules'[h][ip] <= stray'[h][ip] + Cardinality(Debtors(h, ip)')
    BY DEF Owed
  <2>1. Cardinality(Debtors(h, ip)') \in Nat
    BY CallsFinite
  <2>2. rules'[h][ip] = stray'[h][ip] /\ rules'[h][ip] \in Nat
    BY <1>9 DEF MainRaises
  <2> HIDE DEF Debtors
  <2> QED
    BY <2>1, <2>2
<1>10. ASSUME NEW c \in Calls, BlockLeft(c) \/ UnblockLeft(c) PROVE Owed'
  BY <1>10, LeftStep
<1>2. ASSUME NEW c \in Calls, FtpUser(c) \/ PortAccept(c) PROVE Owed'
  <2>1. PICK ip \in IPs, trigger \in {"ftp", "tcp"} : Begin(c, trigger, ip)
    BY <1>2 DEF FtpUser, PortAccept
  <2>2. \A h \in Handlers : ~ Timed(c, h)
    BY <2>1 DEF Begin
  <2>3. \A d \in Calls \ {c} : /\ pc'[d] = pc[d] /\ addr'[d] = addr[d] /\ hc'[d] = hc[d]
                               /\ tpc'[d] = tpc[d] /\ th'[d] = th[d]
    BY <2>1 DEF Begin
  <2>4. \A h \in Handlers, a \in IPs : Debtors(h, a) \subseteq Debtors(h, a)'
    BY <2>2, <2>3
  <2> QED
    BY <2>1, <2>4, OwedKept DEF Begin
<1>3. ASSUME NEW c \in Calls, CheckDefined(c) \/ Assign(c) \/ CheckBlocked(c) \/ Add(c) PROVE Owed'
  <2>1. /\ UNCHANGED << addr, hc, tpc, th, rules, stray >>
        /\ \A d \in Calls \ {c} : pc'[d] = pc[d]
        /\ pc[c] \in {"defined", "assign", "include", "add"}
    BY <1>3 DEF CheckDefined, Assign, CheckBlocked, Add
  <2>2. \A h \in Handlers, a \in IPs : Debtors(h, a) \subseteq Debtors(h, a)'
    BY <2>1 DEF Phases
  <2> QED
    BY <2>1, <2>2, OwedKept
<1>4. ASSUME NEW c \in Calls, SpawnTimer(c) PROVE Owed'
  <2>1. tpc[c] = "none"
    BY <1>4 DEF SpawnTimer, Phases
  <2>2. /\ UNCHANGED << addr, hc, th, rules, stray >>
        /\ \A d \in Calls \ {c} : pc'[d] = pc[d] /\ tpc'[d] = tpc[d]
    BY <1>4 DEF SpawnTimer
  <2>3. \A h \in Handlers, a \in IPs : Debtors(h, a) \subseteq Debtors(h, a)'
    BY <2>1, <2>2
  <2> QED
    BY <2>2, <2>3, OwedKept
<1>5. ASSUME NEW c \in Calls, Build(c) \/ Return(c) PROVE Owed'
  <2>1. /\ UNCHANGED << addr, hc, tpc, th, rules, stray >>
        /\ \A d \in Calls \ {c} : pc'[d] = pc[d]
        /\ pc[c] \in {"close", "raised", "done"} => pc'[c] \in {"close", "raised", "done"}
    BY <1>5 DEF Build, Return
  <2>2. \A h \in Handlers, a \in IPs : Debtors(h, a) \subseteq Debtors(h, a)'
    BY <2>1
  <2> QED
    BY <2>1, <2>2, OwedKept
<1>6. ASSUME NEW c \in Calls, Expire(c) PROVE Owed'
  <2>1. /\ UNCHANGED << pc, addr, hc, th, rules, stray >>
        /\ \A d \in Calls \ {c} : tpc'[d] = tpc[d]
        /\ tpc'[c] = "unblock" /\ th[c] = 1
    BY <1>6 DEF Expire, Phases
  <2>2. \A h \in Handlers : th[c] <= h
    BY <2>1, HandlerNumbers DEF Handlers
  <2>3. \A h \in Handlers, a \in IPs : Debtors(h, a) \subseteq Debtors(h, a)'
    BY <2>1, <2>2
  <2> QED
    BY <2>1, <2>3, OwedKept
<1>7. ASSUME NEW c \in Calls, Block(c) PROVE Owed'
  BY <1>7, BlockStep
<1>8. ASSUME NEW c \in Calls, Unblock(c) PROVE Owed'
  BY <1>8, UnblockStep
<1> QED
  BY <1>1, <1>2, <1>3, <1>4, <1>5, <1>6, <1>7, <1>8, <1>9, <1>10 DEF Next, GotAlert, Timer

\* What is owed by debtors is owed by calls whose timer has yet to come.
LEMMA OwedIsTimed ==
  ASSUME TypeOK, Owed
  PROVE  EveryRuleTimed
<1> SUFFICES ASSUME NEW h \in Handlers, NEW ip \in IPs
             PROVE  rules[h][ip] <= stray[h][ip] + Cardinality({c \in Calls :
                      addr[c] = ip /\ (tpc[c] = "sleep" \/ (tpc[c] = "unblock" /\ th[c] <= h))})
  BY DEF EveryRuleTimed
<1> DEFINE T == {c \in Calls : addr[c] = ip /\ (tpc[c] = "sleep" \/ (tpc[c] = "unblock" /\ th[c] <= h))}
           D == Debtors(h, ip)
<1>1. D \subseteq T /\ T \subseteq Calls /\ D \subseteq Calls
  BY DEF Debtors, Timed
<1>2. rules[h][ip] <= stray[h][ip] + Cardinality(D)
  BY DEF Owed
<1>3. rules[h][ip] \in Nat /\ stray[h][ip] \in Nat
  BY DEF TypeOK
<1> HIDE DEF D, T
<1>4. Cardinality(D) \in Nat /\ Cardinality(T) \in Nat /\ Cardinality(D) <= Cardinality(T)
  BY <1>1, CallsFinite, FS_Subset
<1>5. rules[h][ip] <= stray[h][ip] + Cardinality(T)
  BY <1>2, <1>3, <1>4
<1> QED
  BY <1>5 DEF T

-----------------------------------------------------------------------------
(* The theorems.                                                           *)

\* The invariant holds at the start, and every step keeps it.
THEOREM Inductive == Spec => []IInv
<1>1. Init => IInv
  <2> SUFFICES ASSUME Init PROVE IInv
    OBVIOUS
  <2> USE DEF Init
  <2>1. TypeOK
    <3>1. alerts \in 0 .. MaxAlerts
      BY BearTrapAssumption
    <3>2. hc \in [Calls -> Handlers] /\ th \in [Calls -> Handlers]
      BY HandlerNumbers
    <3>3. rules \in [Handlers -> [IPs -> Nat]] /\ stray \in [Handlers -> [IPs -> Nat]]
      OBVIOUS
    <3> QED
      BY <3>1, <3>2, <3>3 DEF TypeOK
  <2>2. Phases /\ IgnoredOnlyWhileTimed
    BY DEF Phases, IgnoredOnlyWhileTimed
  <2>3. Owed
    <3> SUFFICES ASSUME NEW h \in Handlers, NEW ip \in IPs
                 PROVE  rules[h][ip] <= stray[h][ip] + Cardinality(Debtors(h, ip))
      BY DEF Owed
    <3>1. rules[h][ip] = 0 /\ stray[h][ip] = 0
      OBVIOUS
    <3>2. Cardinality(Debtors(h, ip)) \in Nat
      BY CallsFinite DEF Debtors
    <3> QED
      BY <3>1, <3>2
  <2> QED
    BY <2>1, <2>2, <2>3 DEF IInv
<1>2. IInv /\ [Next]_vars => IInv'
  <2> SUFFICES ASSUME IInv, [Next]_vars PROVE IInv'
    OBVIOUS
  <2>1. CASE Next
    BY <2>1, TypeStep, PhasesStep, IgnoredStep, OwedStep DEF IInv
  <2>2. CASE UNCHANGED vars
    <3> USE <2>2 DEF vars, call, timer, procs
    <3>1. TypeOK' /\ Phases' /\ IgnoredOnlyWhileTimed'
      BY DEF IInv, TypeOK, Phases, IgnoredOnlyWhileTimed
    <3>2. Owed'
      BY OwedKept DEF IInv, Debtors, Placed, Timed
    <3> QED
      BY <3>1, <3>2 DEF IInv
  <2> QED
    BY <2>1, <2>2
<1> QED
  BY <1>1, <1>2, PTL DEF Spec

\* Every variable keeps its type.
THEOREM TypeCorrect == Spec => []TypeOK
<1>1. IInv => TypeOK
  BY DEF IInv
<1> QED
  BY <1>1, Inductive, PTL

\* No order of the threads of got_alert, and no exception of a handler, leaves an
\* address in @blocked_addresses without a timer that will delete it.
THEOREM NobodyIgnoredForGood == Spec => []IgnoredOnlyWhileTimed
<1>1. IInv => IgnoredOnlyWhileTimed
  BY DEF IInv
<1> QED
  BY <1>1, Inductive, PTL

\* However often the race lets an address through, every DROP rule has a timer
\* of its own that has yet to delete it, or is one whose deletion has failed or
\* came too early.
THEOREM RulesTimed == Spec => []EveryRuleTimed
<1>1. IInv => EveryRuleTimed
  BY OwedIsTimed DEF IInv
<1> QED
  BY <1>1, Inductive, PTL
=============================================================================
