---------------------------- MODULE ArtilleryBan ----------------------------
(***************************************************************************)
(* Artillery's blacklist: the file banlist.txt and the iptables chain      *)
(* ARTILLERY.  The main thread fills the chain from the file at boot; after*)
(* that each client of a honeypot port has a thread that bans it, and one  *)
(* more thread adds addresses from feeds.  All rewrite the file, with no   *)
(* lock.  remove_ban.py is a process of its own.                           *)
(*                                                                         *)
(* An address is a text that is_valid_ipv4 takes and that does not start   *)
(* with "0.".  The constants say of each text what the code finds in its   *)
(* characters.  A text that is no such address is left out of the file.  A *)
(* banner is longer than the lines of addresses, and a file no longer than *)
(* what one write takes.                                                   *)
(***************************************************************************)
EXTENDS Integers, Sequences, FiniteSets, SequencesExt

CONSTANTS
  IPs,            \* addresses, as texts
  NoIP,           \* none of them
  Size,           \* Size[a]: the characters of its line, the newline included
  Ends,          \* Ends[a][n]: the address that its line's last n characters are, or NoIP
  Inside,         \* Inside[a]: the addresses that are a part of its text, or all of it
  Aton,           \* Aton[a]: the four full numbers that inet_aton takes it for
  Order,          \* Order[a]: the 32 bits of those, as a number
  Handlers,       \* honeypot threads that serve a client at one time
  MaxTouches,     \* bound on the clients of the honeypot
  MaxPulls,       \* bound on the rounds of the feed thread
  MaxBoots,       \* bound on the starts of artillery
  Pardons,        \* addresses remove_ban.py is run for, once
  FeedIPs,        \* addresses a feed may list
  Whitelist,      \* addresses in WHITELIST_IP
  Nets,           \* CIDR blocks in WHITELIST_IP, to the addresses in them
  Config          \* the other options: key to value

Main    == "main"
Feed    == "feed"
Remover == "remove_ban"
Threads == Handlers \union {Main, Feed}

\* The addresses that are written in full.
Canonical == {a \in IPs : Aton[a] = a}

ASSUME ArtilleryBanAssumption ==
  /\ NoIP \notin IPs
  /\ Size \in [IPs -> Nat \ {0}] /\ Order \in [IPs -> Nat]
  /\ Inside \in [IPs -> SUBSET IPs] /\ \A a \in IPs : a \in Inside[a]
  /\ DOMAIN Ends = IPs /\ \A a \in IPs : Ends[a] \in [1 .. Size[a] - 1 -> IPs \union {NoIP}]
  /\ Aton \in [IPs -> Canonical]
  /\ Handlers \intersect {Main, Feed, Remover} = {}
  /\ MaxTouches \in Nat /\ MaxPulls \in Nat /\ MaxBoots \in Nat
  /\ Pardons \subseteq Canonical /\ \A a \in IPs : Inside[a] \intersect Pardons \subseteq {a}
  /\ FeedIPs \subseteq IPs /\ IsFiniteSet(FeedIPs) /\ Whitelist \subseteq IPs
  /\ \A c \in DOMAIN Nets : Nets[c] \subseteq IPs
  /\ {"HONEYPOT_BAN", "HONEYPOT_AUTOACCEPT", "SOURCE_FEEDS",
      "THREAT_INTELLIGENCE_FEED", "RECYCLE_IPS"} \subseteq DOMAIN Config

VARIABLES
  banlist,   \* the file: [banner, ips], its comment lines and its addresses
  chain,     \* rules of ARTILLERY, first match first
  hasChain,  \* iptables -N has been run
  jump,      \* INPUT jumps to the chain
  cmds,      \* boot's iptables commands that have not run yet
  boots, touches, pulls,   \* counters for the bounds
  pc,        \* pc[t]: where thread t is
  ip,        \* ip[t]: the address it is banning
  todo,      \* lines of the banfile the main thread has yet to ban
  data,      \* data[t]: addresses it has read from the file or from a feed
  rm,        \* remove_ban.py: [pc, ip, data, todo]
  recycler,  \* refresh_log's thread: "none", "run" or "ended"
  listener,  \* the thread of a honeypot port: "none", "start" or "serving"
  seen,      \* history: who touched a port, unless whitelisted, or came in a feed
  banned,    \* history: addresses given to iptables -I since boot
  listed,    \* history: addresses ban has found in the file or put there
  pieces,    \* history: addresses that are ends of lines cut by a shorter write
  alone,     \* history: so far one at a time was at work on the file
  orderly    \* history: boot's commands ended, in order, before its bans

file == <<banlist, listed, pieces>>
fw   == <<chain, hasChain, jump, cmds, banned>>
side == <<recycler, listener>>
loc  == <<pc, ip, data, todo, side>>
cnt  == <<boots, touches, pulls>>
past == <<seen, alone, orderly>>
vars == <<file, fw, loc, cnt, rm, past>>

Blank == [banner |-> FALSE, ips |-> <<>>]

FirstPc == [t \in Threads |-> IF t = Main THEN "boot" ELSE "idle"]
NoIPs   == [t \in Threads |-> NoIP]
NoData  == [t \in Threads |-> <<>>]

Init ==
  /\ banlist = [Blank EXCEPT !.banner = TRUE]     \* check_banlist_path
  /\ chain = <<>> /\ hasChain = FALSE /\ jump = FALSE
  /\ cmds = {} /\ boots = 0 /\ touches = 0 /\ pulls = 0
  /\ pc = FirstPc /\ ip = NoIPs /\ data = NoData
  /\ todo = <<>> /\ recycler = "none" /\ listener = "none"
  /\ rm = [pc |-> "idle", ip |-> NoIP, data |-> Blank, todo |-> {}]
  /\ seen = {} /\ banned = {} /\ listed = {} /\ pieces = {}
  /\ alone = TRUE /\ orderly = TRUE

Goto(t, label) == pc' = [pc EXCEPT ![t] = label]

\* Somebody has begun to look at the file and may not be done with it.
AtFile ==
  \/ rm.pc \in {"cut", "write"}
  \/ \E t \in Threads :
       pc[t] \in {"look", "add", "sort", "cut", "write", "fetch", "append"}

-----------------------------------------------------------------------------
(* Configuration.                                                          *)

\* read_config looks for the text param and "=": a key that ends in "=" of its
\* own is on no line, and None comes back.
ReadConfig(key) == IF key \in DOMAIN Config THEN Config[key] ELSE "None"

On(key) == ReadConfig(key) = "on"

\* printCIDR compares each address of a block with the text of the block.
PrintCIDR == \E c \in DOMAIN Nets : c \in Nets[c]

\* Mutant of IsWhitelisted: the list is not looked at.
Bug_NoWhitelist(a) == PrintCIDR

IsWhitelisted(a) == a \in Whitelist \/ PrintCIDR

-----------------------------------------------------------------------------
(* The firewall.                                                           *)

Drop(a) == <<"DROP", Aton[a]>>
Accept  == <<"ACCEPT", "tcp">>

\* is_already_banned: the address is compared with whole lines of the listing.
IsAlreadyBanned(a) == <<a>> \in ToSet(chain)

\* Mutant of InsertDrop: the rule goes to the end of the chain.
Bug_AppendDrop(a) ==
  /\ banned' = banned \union {a}
  /\ chain' = IF hasChain THEN Append(chain, Drop(a)) ELSE chain

InsertDrop(a) ==               \* iptables -I ARTILLERY 1
  /\ banned' = banned \union {a}
  /\ chain' = IF hasChain THEN <<Drop(a)>> \o chain ELSE chain

\* create_iptables_subset starts its three commands and waits for none.
RunCommand ==
  /\ \E c \in cmds :
       /\ cmds' = cmds \ {c}
       /\ orderly' = (orderly /\ \A d \in cmds : c = d \/ <<c, d>> \in {
            <<"-N", "-F">>, <<"-N", "-I">>, <<"-F", "-I">>})
       /\ hasChain' = (hasChain \/ c = "-N")
       /\ chain' = IF c = "-F" THEN <<>> ELSE chain
       /\ jump' = (jump \/ (c = "-I" /\ hasChain))
  /\ UNCHANGED <<file, banned, loc, cnt, rm, seen, alone>>

-----------------------------------------------------------------------------
(* The file: one step for each open, read or write of it.                  *)

Meant(ips) == {Aton[a] : a \in ips}

Bytes(ips) == FoldLeft(LAMBDA n, a : n + Size[a], 0, ips)

\* Lines of ips that n characters written over them, from the first on, touch.
Covered(n, ips) == Cardinality({i \in DOMAIN ips : Bytes(SubSeq(ips, 1, i - 1)) < n})

\* The end of the last of them that is still there, if it is an address: a set of
\* no more than one.
Piece(n, ips) ==
  LET k    == Covered(n, ips)
      over == Bytes(SubSeq(ips, 1, k)) - n
  IN IF k \in DOMAIN ips /\ over \in DOMAIN Ends[ips[k]]
       THEN {Ends[ips[k]][over]} \ {NoIP} ELSE {}

Beyond(n, ips) == SetToSeq(Piece(n, ips)) \o SubSeq(ips, Covered(n, ips) + 1, Len(ips))

\* A write from the start of a file that others have written since it was cut:
\* what reaches past its end stays.
Overlay(new) ==
  [banner |-> new.banner \/ banlist.banner,
   ips |-> new.ips \o
     IF new.banner = banlist.banner THEN Beyond(Bytes(new.ips), banlist.ips)
       ELSE IF banlist.banner THEN banlist.ips ELSE <<>>]

WriteOver(new) ==
  /\ banlist' = Overlay(new)
  /\ pieces' = pieces \union
       IF new.banner = banlist.banner
         THEN LET left == Piece(Bytes(new.ips), banlist.ips) IN left \union Meant(left)
         ELSE {}

\* list.sort, of addresses; of equal ones the first stays the first.
Sorted(ips) ==
  LET Before(i, j) == Order[ips[i]] < Order[ips[j]] \/ (Order[ips[i]] = Order[ips[j]] /\ i < j)
      Place(i)     == 1 + Cardinality({j \in DOMAIN ips : Before(j, i)})
  IN [k \in DOMAIN ips |-> ips[CHOOSE i \in DOMAIN ips : Place(i) = k]]

\* sort_banlist: read, and sort in memory; inet_aton and inet_ntoa write out in full
\* what was not.
SortRead(t) ==
  /\ pc[t] = "sort"
  /\ data' = [data EXCEPT ![t] = [k \in DOMAIN banlist.ips |-> Aton[Sorted(banlist.ips)[k]]]]
  /\ Goto(t, "cut")
  /\ UNCHANGED <<file, fw, ip, todo, side, cnt, rm, past>>

SortCut(t) ==                  \* open(..., "w")
  /\ pc[t] = "cut"
  /\ banlist' = Blank
  /\ Goto(t, "write")
  /\ UNCHANGED <<listed, pieces, fw, ip, data, todo, side, cnt, rm, past>>

Bannered(ips) == [banner |-> TRUE, ips |-> ips]

After(t) == IF t = Main THEN "next" ELSE "idle"

\* Mutant of SortWrite: the first line is taken for the banner's and dropped.
Bug_LosesFirst(t) ==
  /\ pc[t] = "write"
  /\ WriteOver(Bannered(IF data[t] = <<>> THEN <<>> ELSE Tail(data[t])))
  /\ data' = [data EXCEPT ![t] = <<>>]
  /\ Goto(t, After(t))
  /\ UNCHANGED <<listed, fw, ip, todo, side, cnt, rm, past>>

SortWrite(t) ==                \* close() writes the buffer
  /\ pc[t] = "write"
  /\ WriteOver(Bannered(data[t]))
  /\ data' = [data EXCEPT ![t] = <<>>]
  /\ Goto(t, After(t))
  /\ UNCHANGED <<listed, fw, ip, todo, side, cnt, rm, past>>

SortBanlist(t) == SortRead(t) \/ SortCut(t) \/ SortWrite(t)

-----------------------------------------------------------------------------
(* ban(ip), in thread t.                                                   *)

\* Mutant of BanDrop: an address that is in the file is taken for dropped.
Bug_TrustsFile(t) ==
  /\ pc[t] = "drop"
  /\ IF On("HONEYPOT_BAN") /\ ip[t] \notin ToSet(banlist.ips)
       THEN InsertDrop(ip[t]) ELSE UNCHANGED <<chain, banned>>
  /\ Goto(t, "look")
  /\ alone' = (alone /\ ~AtFile)
  /\ UNCHANGED <<file, hasChain, jump, cmds, ip, data, todo, side, cnt, rm, seen,
                 orderly>>

BanDrop(t) ==
  /\ pc[t] = "drop"
  /\ IF On("HONEYPOT_BAN") /\ ~IsAlreadyBanned(ip[t])
       THEN InsertDrop(ip[t]) ELSE UNCHANGED <<chain, banned>>
  /\ Goto(t, "look")
  /\ alone' = (alone /\ ~AtFile)
  /\ UNCHANGED <<file, hasChain, jump, cmds, ip, data, todo, side, cnt, rm, seen,
                 orderly>>

\* ip in data, of the text of the file: it may be a part of another address.
Found(a) == \E b \in ToSet(banlist.ips) : a \in Inside[b]

BanLook(t) ==                  \* if ip not in data
  /\ pc[t] = "look"
  /\ IF Found(ip[t]) THEN Goto(t, After(t)) ELSE Goto(t, "add")
  /\ listed' = listed \union ({ip[t]} \intersect ToSet(banlist.ips))
  /\ UNCHANGED <<banlist, pieces, fw, ip, data, todo, side, cnt, rm, past>>

BanAdd(t) ==                   \* open(..., "a"), write, close
  /\ pc[t] = "add"
  /\ banlist' = [banlist EXCEPT !.ips = Append(@, ip[t])]
  /\ listed' = listed \union {ip[t]}
  /\ Goto(t, "sort")
  /\ UNCHANGED <<pieces, fw, ip, data, todo, side, cnt, rm, past>>

Ban(t) == BanDrop(t) \/ BanLook(t) \/ BanAdd(t) \/ SortBanlist(t)

-----------------------------------------------------------------------------
(* The main thread.                                                        *)

Boot ==                        \* create_iptables_subset: -N, -F and -I INPUT
  /\ pc[Main] = "boot" /\ boots < MaxBoots
  /\ boots' = boots + 1
  /\ cmds' = IF On("HONEYPOT_BAN") THEN {"-N", "-F", "-I"} ELSE cmds
  /\ banned' = {}
  /\ orderly' = (cmds = {})
  /\ Goto(Main, "read")
  /\ UNCHANGED <<file, chain, hasChain, jump, ip, data, todo, side, touches,
                 pulls, rm, seen, alone>>

\* Mutant of BootRead: the first address goes with the banner.
Bug_BootSkipsFirst ==
  /\ pc[Main] = "read"
  /\ orderly' = (orderly /\ cmds = {})
  /\ todo' = IF On("HONEYPOT_BAN") /\ banlist.ips # <<>> THEN Tail(banlist.ips) ELSE <<>>
  /\ Goto(Main, "next")
  /\ UNCHANGED <<file, fw, ip, data, side, cnt, rm, seen, alone>>

BootRead ==                    \* the file is short: one read gets it all
  /\ pc[Main] = "read"
  /\ orderly' = (orderly /\ cmds = {})
  /\ todo' = IF On("HONEYPOT_BAN") THEN banlist.ips ELSE <<>>
  /\ Goto(Main, "next")
  /\ UNCHANGED <<file, fw, ip, data, side, cnt, rm, seen, alone>>

\* for ip in banfile; then the other threads are started.
BootNext ==
  /\ pc[Main] = "next"
  /\ IF todo = <<>>
       THEN /\ Goto(Main, "up")
            /\ recycler' = IF On("RECYCLE_IPS") THEN "run" ELSE "none"
            /\ listener' = "start"
            /\ UNCHANGED <<ip, todo>>
       ELSE /\ ip' = [ip EXCEPT ![Main] = Head(todo)]
            /\ todo' = Tail(todo)
            /\ Goto(Main, IF IsAlreadyBanned(Head(todo)) THEN "next" ELSE "drop")
            /\ UNCHANGED side
  /\ UNCHANGED <<file, fw, data, cnt, rm, past>>

\* restart_server.py, or the power: SIGKILL between any two steps.
Killed ==
  /\ pc[Main] # "boot" /\ boots < MaxBoots
  /\ pc' = FirstPc /\ ip' = NoIPs /\ data' = NoData
  /\ todo' = <<>> /\ recycler' = "none" /\ listener' = "none"
  /\ alone' = (alone /\ ~AtFile)
  /\ UNCHANGED <<file, fw, cnt, rm, seen, orderly>>

Up == pc[Main] = "up"

Dropped(a) ==
  /\ jump
  /\ \E i \in DOMAIN chain :
       chain[i] = Drop(a) /\ \A j \in 1 .. i - 1 : chain[j] # Accept

-----------------------------------------------------------------------------
(* The honeypot.                                                           *)

ListenTcp ==
  /\ listener = "start"
  /\ listener' = "serving"
  /\ chain' = IF On("HONEYPOT_AUTOACCEPT") /\ On("HONEYPOT_BAN") /\ hasChain
                THEN Append(chain, Accept) ELSE chain
  /\ UNCHANGED <<file, hasChain, jump, cmds, banned, pc, ip, data, todo,
                 recycler, cnt, rm, past>>

\* A client's connection gets through the firewall: SocketListener.setup.
Touch(h, a) ==
  /\ listener = "serving" /\ pc[h] = "idle" /\ touches < MaxTouches
  /\ ~Dropped(a)
  /\ touches' = touches + 1
  /\ seen' = IF a \in Whitelist THEN seen ELSE seen \union {a}
  /\ IF IsWhitelisted(a) THEN UNCHANGED <<pc, ip>>
     ELSE Goto(h, "drop") /\ ip' = [ip EXCEPT ![h] = a]
  /\ UNCHANGED <<file, fw, data, todo, side, boots, pulls, rm, alone, orderly>>

-----------------------------------------------------------------------------
(* The feed thread, and refresh_log's.                                     *)

\* pull_source_feeds: without SOURCE_FEEDS url is still the string "", which
\* has no append; the AttributeError ends the thread.
PullSourceFeeds ==
  /\ pc[Main] = "up" /\ pc[Feed] = "idle" /\ pulls < MaxPulls
  /\ On("THREAT_INTELLIGENCE_FEED")
  /\ pulls' = pulls + 1
  /\ Goto(Feed, IF On("SOURCE_FEEDS") THEN "fetch" ELSE "dead")
  /\ alone' = (alone /\ ~AtFile)
  /\ UNCHANGED <<file, fw, ip, data, todo, side, boots, touches, rm, seen, orderly>>

\* Mutant of FormatIps: a comment line of the feed is not left out.
Bug_TakesComments ==
  /\ pc[Feed] = "fetch"
  /\ data' = [data EXCEPT ![Feed] = <<NoIP>>]
  /\ Goto(Feed, "append")
  /\ UNCHANGED <<file, fw, ip, todo, side, cnt, rm, past>>

\* format_ips: an URL error returns; else the file is read, to leave out what
\* it holds, and opened for appending.
FormatIps ==
  /\ pc[Feed] = "fetch"
  /\ \/ Goto(Feed, "sort") /\ UNCHANGED <<data, past>>
     \/ \E new \in SUBSET FeedIPs :
          /\ data' = [data EXCEPT ![Feed] = SetToSeq({a \in new : ~Found(a)})]
          /\ seen' = seen \union new \union Meant(new)
          /\ Goto(Feed, "append")
  /\ UNCHANGED <<file, fw, ip, todo, side, cnt, rm, alone, orderly>>

FeedAppend ==
  /\ pc[Feed] = "append"
  /\ banlist' = [banlist EXCEPT !.ips = @ \o data[Feed]]
  /\ listed' = listed \union ToSet(data[Feed])
  /\ data' = [data EXCEPT ![Feed] = <<>>]
  /\ Goto(Feed, "sort")
  /\ UNCHANGED <<pieces, fw, ip, todo, side, cnt, rm, past>>

\* refresh_log: int(interval) fails on None, and the loop is left.
RefreshLog ==
  /\ recycler = "run"
  /\ IF ReadConfig("ARTILLERY_REFRESH=") = "None"
       THEN recycler' = "ended" /\ UNCHANGED <<file, alone>>
       ELSE banlist' = Blank /\ alone' = FALSE /\ UNCHANGED <<recycler, listed, pieces>>
  /\ UNCHANGED <<fw, pc, ip, data, todo, listener, cnt, rm, seen, orderly>>

-----------------------------------------------------------------------------
(* remove_ban.py.                                                          *)

\* data.replace, of a text that is a part of no other: what is left of ips without
\* a, in its order.  The set of the one sequence it is.
Replaced(ips, a) ==
  LET left == {i \in DOMAIN ips : ips[i] # a}
      lines == 1 .. Cardinality(left)
  IN {[k \in lines |-> ips[at[k]]] :
        at \in {f \in [lines -> left] : \A j, k \in lines : j < k => f[j] < f[k]}}

RmRead(a) ==
  /\ rm.pc = "idle"
  /\ \E ips \in Replaced(banlist.ips, a) :
       rm' = [rm EXCEPT !.pc = "cut", !.ip = a, !.data = [banlist EXCEPT !.ips = ips]]
  /\ alone' = FALSE
  /\ UNCHANGED <<file, fw, loc, cnt, seen, orderly>>

RmCut ==
  /\ rm.pc = "cut"
  /\ rm' = [rm EXCEPT !.pc = "write"]
  /\ banlist' = Blank
  /\ UNCHANGED <<listed, pieces, fw, loc, cnt, past>>

RmWrite ==
  /\ rm.pc = "write"
  /\ rm' = [rm EXCEPT !.pc = "list", !.data = Blank]
  /\ WriteOver(rm.data)
  /\ UNCHANGED <<listed, fw, loc, cnt, past>>

\* The rules of the address, by number.
RmList ==
  /\ rm.pc = "list"
  /\ rm' = [rm EXCEPT !.pc = "delete",
               !.todo = {i \in DOMAIN chain : chain[i] = Drop(rm.ip)}]
  /\ UNCHANGED <<file, fw, loc, cnt, past>>

\* One iptables -D for each number: none is waited for, and each moves the
\* rules below it up by one.
RmDelete ==
  /\ \E n \in rm.todo :
       /\ rm' = [rm EXCEPT !.todo = @ \ {n}]
       /\ chain' = IF n \in DOMAIN chain THEN RemoveAt(chain, n) ELSE chain
  /\ UNCHANGED <<file, hasChain, jump, cmds, banned, loc, cnt, past>>

RemoveBan == (\E a \in Pardons : RmRead(a)) \/ RmCut \/ RmWrite \/ RmList \/ RmDelete

-----------------------------------------------------------------------------
Handle(h)   == Ban(h)
MainThread  == Boot \/ BootRead \/ BootNext \/ Ban(Main)
FeedThread  == FormatIps \/ FeedAppend \/ SortBanlist(Feed)

\* Nothing is left to do but wait for clients.
Quiet ==
  /\ Up /\ cmds = {} /\ listener = "serving" /\ recycler # "run"
  /\ \A t \in Threads \ {Main} : pc[t] \in {"idle", "dead"}

Next ==
  \/ MainThread \/ RunCommand \/ Killed
  \/ ListenTcp \/ (\E h \in Handlers : Handle(h) \/ \E a \in Canonical : Touch(h, a))
  \/ PullSourceFeeds \/ FeedThread \/ RefreshLog
  \/ RemoveBan
  \/ (Quiet /\ UNCHANGED vars)

Spec == Init /\ [][Next]_vars

-----------------------------------------------------------------------------
(* Properties.                                                             *)

(* Every variable has its type.                                            *)
TypeOK ==
  /\ banlist.banner \in BOOLEAN /\ ToSet(banlist.ips) \subseteq IPs
  /\ ToSet(chain) \subseteq {Drop(a) : a \in IPs} \union {Accept}
  /\ hasChain \in BOOLEAN /\ jump \in BOOLEAN
  /\ cmds \subseteq {"-N", "-F", "-I"}
  /\ boots \in 0 .. MaxBoots /\ touches \in 0 .. MaxTouches /\ pulls \in 0 .. MaxPulls
  /\ pc \in [Threads -> {"idle", "boot", "read", "next", "up", "drop", "look", "add",
                         "sort", "cut", "write", "fetch", "append", "dead"}]
  /\ \A t \in Threads : pc[t] \in {"drop", "look", "add"} => ip[t] \in IPs
  /\ \A t \in Threads : ToSet(data[t]) \subseteq IPs
  /\ ToSet(todo) \subseteq IPs
  /\ recycler \in {"none", "run", "ended"} /\ listener \in {"none", "start", "serving"}
  /\ seen \subseteq IPs /\ banned \subseteq IPs /\ listed \subseteq IPs /\ pieces \subseteq IPs
  /\ alone \in BOOLEAN /\ orderly \in BOOLEAN

(* While one at a time is at work on the file, restarts included, an       *)
(* address is in the file or the firewall only if it touched the honeypot  *)
(* and is not whitelisted, or came in a feed.  When threads write over each*)
(* other, only the end of a longer line that a shorter write has cut can   *)
(* come to that: what is left of 192.168.123.45 is listed and shut out as  *)
(* 123.0.0.45, though nobody ever touched a port from there.               *)
OnlyOffenders ==
  /\ alone => pieces = {}
  /\ ToSet(banlist.ips) \subseteq seen \union pieces
  /\ \A a \in IPs : Dropped(a) => Aton[a] \in seen \union pieces

(* An address that ban() has put in the firewall stays shut out of every   *)
(* honeypot port, the ones with ACCEPT rules too, until the next restart   *)
(* (README.md:5: "it blacklists them forever"), if boot's commands came in *)
(* order and remove_ban.py has not deleted rules by number.                *)
BannedStaysDropped ==
  orderly /\ rm.pc = "idle" => \A a \in banned : Dropped(a)

(* After a restart, the main thread has blocked every address of the file  *)
(* before it starts the honeypot ("iterate through lines in ban file and   *)
(* ban them", core.py:281), on the same conditions.                        *)
BootBlocks ==
  /\ On("HONEYPOT_BAN") /\ orderly /\ rm.pc = "idle"
  /\ pc[Main] = "next" /\ todo = <<>>
  => \A a \in ToSet(banlist.ips) : Dropped(a)

\* A thread that has cut the file and still has all of its lines.
Rewriting == {t \in Threads : pc[t] = "write"}

(* With one at a time at work on the file and no kill meanwhile, an address*)
(* once listed is in the file, or in the hands of the thread that is       *)
(* rewriting it, though it may be written in full by now.  (ban does not   *)
(* list an address that is a part of one that the file has.)               *)
ListedKept ==
  alone =>
    Meant(listed) \subseteq
      Meant(ToSet(banlist.ips) \union UNION {ToSet(data[t]) : t \in Rewriting})

(* "It blacklists them forever" (README.md:5): when nobody is at work on   *)
(* the file, it has every address that was ever listed.                    *)
ListedForever == Quiet => Meant(listed) \subseteq Meant(ToSet(banlist.ips))

(* Who touches a honeypot port, unless whitelisted, is shut out before     *)
(* anything is done about the file, whatever the file says of it already;  *)
(* and so is each address of the file at boot (on the same conditions).    *)
OffenderDropped ==
  On("HONEYPOT_BAN") /\ orderly /\ rm.pc = "idle" =>
    \A t \in Threads \ {Feed} :
      pc[t] \in {"look", "add", "sort", "cut", "write"} => Dropped(ip[t])
=============================================================================
