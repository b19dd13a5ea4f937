----------------------------- MODULE SshMonitor -----------------------------
(***************************************************************************)
(* Artillery's ssh monitor: round after round it reads the whole log from  *)
(* its first line, counts the failed passwords of all addresses in one     *)
(* counter, and bans the address of the line at which the counter is full. *)
(* ban() is one step here (ArtilleryBan has its parts).                    *)
(***************************************************************************)
EXTENDS Integers, Sequences, FiniteSets, SequencesExt

CONSTANTS
  Hosts,        \* what a line may have in the place of an address
  IPs,          \* those that is_valid_ipv4 takes
  Like,         \* Like[a]: addresses in whose text the pattern a is found
  Whitelist,    \* those in WHITELIST_IP
  Attempts,     \* SSH_BRUTE_ATTEMPTS
  MaxLog,       \* bound on the log
  Meddled       \* addresses whose line other threads may add or lose

ASSUME SshMonitorAssumption ==
  /\ IPs \subseteq Hosts /\ Whitelist \subseteq IPs
  /\ Like \in [IPs -> SUBSET IPs] /\ \A a \in IPs : a \in Like[a]
  /\ Attempts \in Nat \ {0}
  /\ MaxLog \in Nat
  /\ Meddled \subseteq IPs

VARIABLES
  log,       \* the "Failed password for" lines of auth.log: where from
  pos,       \* next line to read
  counter,   \* ssh_counter
  banlist,   \* addresses in banlist.txt
  banned,    \* history: addresses the monitor has banned
  resets     \* history: lines at which ssh_counter has started again, in any round

sshVars == <<log, pos, counter, banlist, banned, resets>>

SshInit ==
  /\ log = <<>> /\ pos = 1 /\ counter = 0
  /\ banlist = {} /\ banned = {} /\ resets = {}

-----------------------------------------------------------------------------
\* sshd: somebody gives a wrong password.
Fail(a) ==
  /\ Len(log) < MaxLog
  /\ log' = Append(log, a)
  /\ UNCHANGED <<pos, counter, banlist, banned, resets>>

\* The rest of artillery: ban() for the honeypot, feeds, and writes of the
\* file that lose an address.
Others(a) ==
  /\ banlist' = IF a \in banlist THEN banlist \ {a} ELSE banlist \union {a}
  /\ UNCHANGED <<log, pos, counter, banned, resets>>

-----------------------------------------------------------------------------
Full == counter + 1 >= Attempts

\* re.search(ipaddress, banlist): the address is a pattern, in the text of the file.
Listed(a) == Like[a] \intersect banlist # {}

BanIt(a) ==
  /\ banlist' = banlist \union {a}
  /\ banned' = banned \union {a}

StartsAgain ==
  /\ counter' = 0
  /\ resets' = resets \union {pos}

GoesOn ==
  /\ counter' = counter + 1
  /\ UNCHANGED resets

\* Mutant of CountLine: the counter goes on after a ban.
Bug_NoReset(a) ==
  IF Full /\ a \in IPs
    THEN IF Listed(a) THEN StartsAgain /\ UNCHANGED <<banlist, banned>>
           ELSE IF a \in Whitelist THEN GoesOn /\ UNCHANGED <<banlist, banned>>
             ELSE BanIt(a) /\ counter' = counter + 1 /\ resets' = resets \union {pos}
    ELSE GoesOn /\ UNCHANGED <<banlist, banned>>

\* Mutant of CountLine: the counter has to pass the limit.
Bug_OneMore(a) ==
  IF counter >= Attempts /\ a \in IPs
    THEN IF Listed(a) THEN StartsAgain /\ UNCHANGED <<banlist, banned>>
           ELSE IF a \in Whitelist THEN GoesOn /\ UNCHANGED <<banlist, banned>>
             ELSE BanIt(a) /\ StartsAgain
    ELSE GoesOn /\ UNCHANGED <<banlist, banned>>

\* A line from an IPv6 address or a host name counts, and neither bans nor starts
\* the count again; nor does a whitelisted address that is not in the file.
CountLine(a) ==
  IF Full /\ a \in IPs
    THEN IF Listed(a) THEN StartsAgain /\ UNCHANGED <<banlist, banned>>
           ELSE IF a \in Whitelist THEN GoesOn /\ UNCHANGED <<banlist, banned>>
             ELSE BanIt(a) /\ StartsAgain
    ELSE GoesOn /\ UNCHANGED <<banlist, banned>>

ReadLine ==
  /\ pos <= Len(log)
  /\ CountLine(log[pos])
  /\ pos' = pos + 1
  /\ UNCHANGED log

NextRound ==                   \* sleep(monitor_frequency), open the log again
  /\ pos > Len(log) /\ pos > 1
  /\ pos' = 1 /\ counter' = 0
  /\ UNCHANGED <<log, banlist, banned, resets>>

Monitor == ReadLine \/ NextRound

SshNext == Monitor \/ (\E a \in Hosts : Fail(a)) \/ (\E a \in Meddled : Others(a))

SshSpec == SshInit /\ [][SshNext]_sshVars

(* The monitor's thread runs on.                                           *)
SshFairSpec == SshSpec /\ WF_sshVars(Monitor)

-----------------------------------------------------------------------------
(* Properties.                                                             *)

Failures(a) == Cardinality({i \in DOMAIN log : log[i] = a})

(* Every variable has its type; the counter never passes the lines read.   *)
SshTypeOK ==
  /\ log \in Seq(Hosts) /\ Len(log) <= MaxLog
  /\ pos \in 1 .. Len(log) + 1
  /\ counter \in 0 .. pos - 1
  /\ banlist \subseteq IPs /\ banned \subseteq IPs /\ resets \subseteq DOMAIN log

\* No whitelisted address has failed.
OnlyStrangers == \A i \in DOMAIN log : log[i] \notin Whitelist

(* Each ban takes SSH_BRUTE_ATTEMPTS failed passwords that no other ban    *)
(* took: however often the log is read again, and whatever the other       *)
(* threads do to banlist.txt between two lines, an address is banned for a *)
(* line of its own, and such lines are SSH_BRUTE_ATTEMPTS apart.  The      *)
(* passwords need not be its own, nor come from an IPv4 address.           *)
BansApart ==
  OnlyStrangers =>
    /\ \A a \in banned : \E i \in resets : log[i] = a
    /\ \A i \in resets : i >= Attempts
    /\ \A i, j \in resets : i < j => j - i >= Attempts

OnlyOneFails(a) == Failures(a) >= Attempts /\ Failures(a) = Len(log)

(* An address that fails often enough while no other does is banned, or    *)
(* found in the text of one that is.                                       *)
LoneBanned ==
  \A a \in IPs \ Whitelist : OnlyOneFails(a) ~> (Listed(a) \/ ~OnlyOneFails(a))
=============================================================================
