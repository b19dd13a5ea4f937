--------------------------- MODULE PortspoofPool ---------------------------
(***************************************************************************)
(* The connection pool of portspoof (src/Server.cpp, src/connection.cpp).  *)
(* One dispatcher, Server::run, accepts connections and writes each one    *)
(* into a slot of the worker that choose_thread picks by its client_count; *)
(* every worker, process_connection, walks the slots of its own table,     *)
(* answers the connection it finds there, closes it and clears the slot.   *)
(* The dispatcher and the workers share clients[][] and client_count[] and *)
(* are meant to be kept apart by new_connection_mutex.                     *)
(*                                                                         *)
(* Two things of the code decide the shape of this module:                 *)
(*  - a worker that finds a slot EMPTY unlocks the mutex although it never *)
(*    locked it (connection.cpp:302); the default mutex is then simply     *)
(*    released, whoever held it, so nothing below may assume exclusion and *)
(*    client_count++ and -- are a load and a store;                        *)
(*  - close(fd) comes before clients[i] = 0, so the kernel may hand the    *)
(*    descriptor to the next accept() while it still stands in a slot.     *)
(***************************************************************************)
EXTENDS Integers

CONSTANTS
  ThreadNr,            \* Configuration::getThreadNr()
  MaxClientPerThread,  \* MAX_CLIENT_PER_THREAD
  Fds,                 \* descriptors accept() may return; 0..2 are /dev/null
  MaxConns,            \* bound on the number of connections accepted
  NotNmapScanner,      \* OPT_NOT_NMAP_SCANNER ("-2")
  NfdsSlack            \* select() is called with nfds = fd + NfdsSlack:
                       \* 0 in the code, 1 would make it look at fd

ASSUME PoolAssumption ==
  /\ ThreadNr \in Nat \ {0}
  /\ MaxClientPerThread \in Nat \ {0}
  /\ Fds \subseteq Nat \ {0}
  /\ MaxConns \in Nat
  /\ NotNmapScanner \in BOOLEAN
  /\ NfdsSlack \in {0, 1}

Tids  == 0 .. ThreadNr - 1
Slots == 0 .. MaxClientPerThread - 1
Conns == 1 .. MaxConns
None  == 0             \* an empty slot, a closed descriptor, no connection

VARIABLES
  clients,       \* threads[t].clients[i]: a descriptor, 0 when empty
  client_count,  \* threads[t].client_count
  mutex,         \* new_connection_mutex is locked
  apc,           \* where the dispatcher is in run() / choose_thread()
  newsockfd,     \* the descriptor accept() returned
  choosen,       \* result of choose_thread()
  ai, amin,      \* its loop counters i and min; ai also scans the slots
  aload,         \* client_count the dispatcher loaded for its ++
  wpc, wi,       \* where worker t is, and its slot index i
  wload,         \* client_count the worker loaded for its --
  sock,          \* kernel: the connection open on a descriptor
  slotConn,      \* history: the connection a slot was filled with
  accepted,      \* history: number of connections accepted so far
  answered, closed, lost  \* history: what became of them

dispatcher == <<apc, newsockfd, choosen, ai, amin, aload>>
workers    == <<wpc, wi, wload>>
history    == <<slotConn, accepted, answered, closed, lost>>
vars == <<clients, client_count, mutex, dispatcher, workers, sock, history>>

Init ==
  /\ clients = [t \in Tids |-> [i \in Slots |-> None]]
  /\ client_count = [t \in Tids |-> 0]
  /\ mutex = FALSE
  /\ apc = "accept" /\ newsockfd = None /\ choosen = -1
  /\ ai = 0 /\ amin = 0 /\ aload = 0
  /\ wpc = [t \in Tids |-> "sleep"]
  /\ wi = [t \in Tids |-> 0]
  /\ wload = [t \in Tids |-> 0]
  /\ sock = [f \in Fds |-> None]
  /\ slotConn = [t \in Tids |-> [i \in Slots |-> None]]
  /\ accepted = 0
  /\ answered = {} /\ closed = {} /\ lost = {}

-----------------------------------------------------------------------------
(* The dispatcher.                                                         *)

Accept ==                      \* accept() and nonblock()
  /\ apc = "accept"
  /\ accepted < MaxConns
  /\ \E f \in Fds :
       /\ sock[f] = None
       /\ newsockfd' = f
       /\ sock' = [sock EXCEPT ![f] = accepted + 1]
  /\ accepted' = accepted + 1
  /\ apc' = "lock"
  /\ UNCHANGED <<clients, client_count, mutex, choosen, ai, amin, aload,
                 workers, slotConn, answered, closed, lost>>

DispatcherLock ==              \* start: pthread_mutex_lock
  /\ apc = "lock"
  /\ ~ mutex
  /\ mutex' = TRUE
  /\ ai' = ThreadNr - 1
  /\ amin' = ThreadNr - 1
  /\ apc' = "choose"
  /\ UNCHANGED <<clients, client_count, newsockfd, choosen, aload, workers,
                 sock, history>>

ChooseStep ==                  \* one round of the while loop
  /\ apc = "choose"
  /\ ai >= 0
  /\ amin' = IF client_count[ai] < client_count[amin] THEN ai ELSE amin
  /\ ai' = ai - 1
  /\ UNCHANGED <<clients, client_count, mutex, apc, newsockfd, choosen, aload,
                 workers, sock, history>>

\* Mutant of ChooseDone: the full pool is not tested for.
Bug_NoFullTest ==
  /\ apc = "choose"
  /\ ai < 0
  /\ choosen' = amin /\ apc' = "scan" /\ ai' = 0
  /\ UNCHANGED <<clients, client_count, mutex, newsockfd, amin, aload,
                 workers, sock, history>>

ChooseDone ==                  \* min is full: -1, else scan its slots
  /\ apc = "choose"
  /\ ai < 0
  /\ IF client_count[amin] = MaxClientPerThread
       THEN choosen' = -1 /\ apc' = "full"
       ELSE choosen' = amin /\ apc' = "scan"
  /\ ai' = 0
  /\ UNCHANGED <<clients, client_count, mutex, newsockfd, amin, aload,
                 workers, sock, history>>

Full ==                        \* unlock, sleep(1), goto start
  /\ apc = "full"
  /\ mutex' = FALSE
  /\ apc' = "lock"
  /\ UNCHANGED <<clients, client_count, newsockfd, choosen, ai, amin, aload,
                 workers, sock, history>>

\* Mutant of Place: the slot is written without the test for 0.
Bug_PlaceAnywhere ==
  /\ apc = "scan"
  /\ clients' = [clients EXCEPT ![choosen][ai] = newsockfd]
  /\ slotConn' = [slotConn EXCEPT ![choosen][ai] = sock[newsockfd]]
  /\ apc' = "load"
  /\ UNCHANGED <<client_count, mutex, newsockfd, choosen, ai, amin, aload,
                 workers, sock, accepted, answered, closed, lost>>

Place ==                       \* the first empty slot takes the connection
  /\ apc = "scan"
  /\ clients[choosen][ai] = None
  /\ clients' = [clients EXCEPT ![choosen][ai] = newsockfd]
  /\ slotConn' = [slotConn EXCEPT ![choosen][ai] = sock[newsockfd]]
  /\ apc' = "load"
  /\ UNCHANGED <<client_count, mutex, newsockfd, choosen, ai, amin, aload,
                 workers, sock, accepted, answered, closed, lost>>

ScanOn ==                      \* slot taken: next one, or none was empty
  /\ apc = "scan"
  /\ clients[choosen][ai] # None
  /\ IF ai = MaxClientPerThread - 1
       THEN /\ lost' = lost \union {sock[newsockfd]}
            /\ apc' = "unlock"
            /\ UNCHANGED ai
       ELSE /\ ai' = ai + 1
            /\ UNCHANGED <<apc, lost>>
  /\ UNCHANGED <<clients, client_count, mutex, newsockfd, choosen, amin, aload,
                 workers, sock, slotConn, accepted, answered, closed>>

IncLoad ==                     \* client_count++, its load
  /\ apc = "load"
  /\ aload' = client_count[choosen]
  /\ apc' = "store"
  /\ UNCHANGED <<clients, client_count, mutex, newsockfd, choosen, ai, amin,
                 workers, sock, history>>

IncStore ==                    \* client_count++, its store
  /\ apc = "store"
  /\ client_count' = [client_count EXCEPT ![choosen] = aload + 1]
  /\ apc' = "unlock"
  /\ UNCHANGED <<clients, mutex, newsockfd, choosen, ai, amin, aload, workers,
                 sock, history>>

DispatcherUnlock ==
  /\ apc = "unlock"
  /\ mutex' = FALSE
  /\ apc' = "accept"
  /\ UNCHANGED <<clients, client_count, newsockfd, choosen, ai, amin, aload,
                 workers, sock, history>>

Dispatcher ==
  \/ Accept \/ DispatcherLock \/ ChooseStep \/ ChooseDone \/ Full
  \/ Place \/ ScanOn \/ IncLoad \/ IncStore \/ DispatcherUnlock

-----------------------------------------------------------------------------
(* The workers.                                                            *)

Fd(t) == clients[t][wi[t]]     \* threads[tid].clients[i], read each time

\* i++ of the for loop, and sleep(1) again after the last slot
NextSlot(t) ==
  IF wi[t] + 1 < MaxClientPerThread
    THEN /\ wi' = [wi EXCEPT ![t] = wi[t] + 1]
         /\ wpc' = [wpc EXCEPT ![t] = "test"]
    ELSE /\ wi' = [wi EXCEPT ![t] = 0]
         /\ wpc' = [wpc EXCEPT ![t] = "sleep"]

Goto(t, label) == wpc' = [wpc EXCEPT ![t] = label] /\ UNCHANGED wi

Wake(t) ==
  /\ wpc[t] = "sleep"
  /\ Goto(t, "test")
  /\ UNCHANGED <<clients, client_count, mutex, dispatcher, wload, sock,
                 history>>

TestEmpty(t) ==                \* empty slot: unlocks what it does not own
  /\ wpc[t] = "test"
  /\ Fd(t) = None
  /\ mutex' = FALSE
  /\ NextSlot(t)
  /\ UNCHANGED <<clients, client_count, dispatcher, wload, sock, history>>

TestTaken(t) ==
  /\ wpc[t] = "test"
  /\ Fd(t) # None
  /\ Goto(t, "recv")
  /\ UNCHANGED <<clients, client_count, mutex, dispatcher, wload, sock,
                 history>>

\* select() looks at the descriptors below nfds; a timeout answers at once
SelectReports(fd) == fd < fd + NfdsSlack

Received(t) ==                 \* what n says of the connection
  IF NotNmapScanner \/ ~ SelectReports(Fd(t))
    THEN {"data"}
    ELSE {"data", "eof", "again", "error"}

\* Mutant of Recv: a connection select() has not reported is passed over.
Bug_TimeoutSkips(t) ==
  /\ wpc[t] = "recv"
  /\ IF NotNmapScanner \/ SelectReports(Fd(t)) THEN Goto(t, "send") ELSE NextSlot(t)
  /\ UNCHANGED <<clients, client_count, mutex, dispatcher, wload, sock,
                 history>>

Recv(t) ==
  /\ wpc[t] = "recv"
  /\ \E n \in Received(t) :
       \/ n = "data" /\ Goto(t, "send")
       \/ n \in {"eof", "error"} /\ Goto(t, "close")
       \/ n = "again" /\ NextSlot(t)
  /\ UNCHANGED <<clients, client_count, mutex, dispatcher, wload, sock,
                 history>>

\* Mutant of Send: the close() after send() is forgotten.
Bug_SendNoClose(t) ==
  /\ wpc[t] = "send"
  /\ answered' = answered \union {sock[Fd(t)]}
  /\ Goto(t, "lock")
  /\ UNCHANGED <<clients, client_count, mutex, dispatcher, wload, sock,
                 slotConn, accepted, closed, lost>>

Send(t) ==                     \* send(signature)
  /\ wpc[t] = "send"
  /\ answered' = answered \union {sock[Fd(t)]}
  /\ Goto(t, "close")
  /\ UNCHANGED <<clients, client_count, mutex, dispatcher, wload, sock,
                 slotConn, accepted, closed, lost>>

\* Mutant of Close: the slot is never cleared.
Bug_CloseNoClear(t) ==
  /\ wpc[t] = "close"
  /\ sock' = [sock EXCEPT ![Fd(t)] = None]
  /\ closed' = closed \union {sock[Fd(t)]}
  /\ NextSlot(t)
  /\ UNCHANGED <<clients, client_count, mutex, dispatcher, wload, slotConn,
                 accepted, answered, lost>>

Close(t) ==                    \* the descriptor is free, the slot is not
  /\ wpc[t] = "close"
  /\ sock' = [sock EXCEPT ![Fd(t)] = None]
  /\ closed' = closed \union {sock[Fd(t)]}
  /\ Goto(t, "lock")
  /\ UNCHANGED <<clients, client_count, mutex, dispatcher, wload, slotConn,
                 accepted, answered, lost>>

WorkerLock(t) ==
  /\ wpc[t] = "lock"
  /\ ~ mutex
  /\ mutex' = TRUE
  /\ Goto(t, "clear")
  /\ UNCHANGED <<clients, client_count, dispatcher, wload, sock, history>>

Clear(t) ==
  /\ wpc[t] = "clear"
  /\ clients' = [clients EXCEPT ![t][wi[t]] = None]
  /\ slotConn' = [slotConn EXCEPT ![t][wi[t]] = None]
  /\ Goto(t, "load")
  /\ UNCHANGED <<client_count, mutex, dispatcher, wload, sock, accepted,
                 answered, closed, lost>>

DecLoad(t) ==                  \* client_count--, its load
  /\ wpc[t] = "load"
  /\ wload' = [wload EXCEPT ![t] = client_count[t]]
  /\ Goto(t, "store")
  /\ UNCHANGED <<clients, client_count, mutex, dispatcher, sock, history>>

DecStore(t) ==                 \* client_count--, its store
  /\ wpc[t] = "store"
  /\ client_count' = [client_count EXCEPT ![t] = wload[t] - 1]
  /\ Goto(t, "unlock")
  /\ UNCHANGED <<clients, mutex, dispatcher, wload, sock, history>>

WorkerUnlock(t) ==
  /\ wpc[t] = "unlock"
  /\ mutex' = FALSE
  /\ NextSlot(t)
  /\ UNCHANGED <<clients, client_count, dispatcher, wload, sock, history>>

Worker(t) ==
  \/ Wake(t) \/ TestEmpty(t) \/ TestTaken(t) \/ Recv(t) \/ Send(t) \/ Close(t)
  \/ WorkerLock(t) \/ Clear(t) \/ DecLoad(t) \/ DecStore(t) \/ WorkerUnlock(t)

Next == Dispatcher \/ \E t \in Tids : Worker(t)

Spec == Init /\ [][Next]_vars

(* Every thread of the process is scheduled.  pthread mutexes are not fair,*)
(* but the mutex is free again and again (a dispatcher that finds the pool *)
(* full sleeps a second with it released, a worker sleeps between rounds), *)
(* so a thread that waits for it gets it in the end: strong fairness.      *)
Fairness ==
  /\ SF_vars(DispatcherLock) /\ WF_vars(Dispatcher /\ apc # "accept")
  /\ \A t \in Tids : WF_vars(Worker(t)) /\ SF_vars(WorkerLock(t))

FairSpec == Spec /\ Fairness

-----------------------------------------------------------------------------
(* Properties.                                                             *)

HasConn == {"lock", "choose", "full", "scan"}  \* newsockfd not placed yet
Closing == {"lock", "clear"}                   \* closed, slot not cleared

\* A slot whose descriptor is still the one its connection came with.
Live(t, i) == clients[t][i] # None /\ ~ (wi[t] = i /\ wpc[t] \in Closing)

(* Every variable has its type; what a counter may hold is the subject of  *)
(* CountBounded below.                                                     *)
TypeOK ==
  /\ clients \in [Tids -> [Slots -> Fds \union {None}]]
  /\ client_count \in [Tids -> Int]
  /\ mutex \in BOOLEAN
  /\ apc \in {"accept", "lock", "choose", "full", "scan", "load", "store",
              "unlock"}
  /\ newsockfd \in Fds \union {None}
  /\ choosen \in Tids \union {-1}
  /\ ai \in Int /\ amin \in Int /\ aload \in Int
  /\ wpc \in [Tids -> {"sleep", "test", "recv", "send", "close", "lock",
                       "clear", "load", "store", "unlock"}]
  /\ wi \in [Tids -> Slots]
  /\ wload \in [Tids -> Int]
  /\ sock \in [Fds -> Conns \union {None}]
  /\ slotConn \in [Tids -> [Slots -> Conns \union {None}]]
  /\ accepted \in 0 .. MaxConns
  /\ answered \subseteq Conns /\ closed \subseteq Conns /\ lost \subseteq Conns

(* A worker never sends on, or closes, a descriptor that has come to mean  *)
(* another connection: up to the worker's own close() the descriptor in a  *)
(* slot is open on the connection the slot was filled with.                *)
SlotKeepsItsConnection ==
  \A t \in Tids, i \in Slots :
    Live(t, i) => /\ slotConn[t][i] # None
                  /\ sock[clients[t][i]] = slotConn[t][i]

(* A descriptor stands in two slots only in the window between close() and *)
(* clients[i] = 0, in which the kernel may have given it out again: no two *)
(* workers, and no two slots of one worker, ever serve the same one.       *)
NoSharedDescriptor ==
  \A t, u \in Tids, i, j \in Slots :
    /\ Live(t, i)
    /\ Live(u, j)
    /\ clients[t][i] = clients[u][j]
    => t = u /\ i = j

(* client_count never exceeds MAX_CLIENT_PER_THREAD, however the ++ of the *)
(* dispatcher and the -- of the workers interleave; choose_thread's test   *)
(* for a full pool is ==, and would miss a counter that got past it.       *)
CountBounded == \A t \in Tids : client_count[t] <= MaxClientPerThread

(* No descriptor leaks in a worker: one that is open is in the dispatcher's*)
(* hands, or in a slot some worker will come to, or is one the dispatcher  *)
(* found no slot for.                                                      *)
OpenAccounted ==
  \A f \in Fds : sock[f] # None =>
    \/ apc \in HasConn /\ newsockfd = f
    \/ \E t \in Tids, i \in Slots : Live(t, i) /\ clients[t][i] = f
    \/ sock[f] \in lost

(* A filled slot changes only when its own worker has closed what is in it *)
(* (action property): the dispatcher never overwrites one, although it may *)
(* run its scan while a worker is inside the "critical section".           *)
SlotReuse ==
  [][\A t \in Tids, i \in Slots :
       clients[t][i] # None /\ clients'[t][i] # clients[t][i]
         => clients'[t][i] = None /\ wi[t] = i /\ wpc[t] = "clear"]_vars

(* The pool is a DecoyService: answered at most once and before its close, *)
(* closed once, and one connection at a time between accept() and a slot.  *)
Waiting == IF apc \in HasConn THEN {sock[newsockfd]} ELSE {}

Queued ==
  {slotConn[p[1]][p[2]] : p \in {q \in Tids \X Slots : Live(q[1], q[2])}}

Service == INSTANCE DecoyService WITH waiting <- Waiting, queued <- Queued

ImplementsService == Service!Spec

(* A connection that got a slot is closed in the end (-2, or select() that *)
(* never reports the descriptor, so that every slot is answered at once).  *)
QueuedIsClosed ==
  \A c \in Conns :
    (\E t \in Tids, i \in Slots : slotConn[t][i] = c) ~> (c \in closed)

(* The inductive invariant from which the properties above are proved.     *)

\* The dispatcher's locals make sense where they are used.
DispatcherLocals ==
  /\ apc = "choose" => amin \in Tids /\ ai \in -1 .. ThreadNr - 1
  /\ apc \in {"scan", "load", "store"} => choosen \in Tids
  /\ apc = "scan" => ai \in Slots

\* What the dispatcher holds is open and in no slot that will be served.
HandConn ==
  apc \in HasConn =>
    /\ newsockfd \in Fds
    /\ sock[newsockfd] # None
    /\ \A t \in Tids, i \in Slots :
         Live(t, i) => clients[t][i] # newsockfd

\* A worker past its test works on a filled slot.
WorkerSlot ==
  \A t \in Tids :
    wpc[t] \in {"recv", "send", "close", "lock", "clear"} => Fd(t) # None

\* The loads and tests that ++ and -- rely on.
CountLoads ==
  /\ \A t \in Tids : wpc[t] = "store" => wload[t] <= MaxClientPerThread
  /\ apc \in {"scan", "load"} => client_count[choosen] < MaxClientPerThread
  /\ apc = "store" => aload < MaxClientPerThread

\* Connections are numbered once, and one descriptor is open on each.
ConnNumbers ==
  /\ \A f \in Fds : sock[f] <= accepted
  /\ \A f, g \in Fds : sock[f] = sock[g] /\ sock[f] # None => f = g
  /\ \A t \in Tids, i \in Slots : slotConn[t][i] <= accepted
  /\ \A c \in closed \union lost : c <= accepted

IInv ==
  /\ TypeOK /\ DispatcherLocals /\ HandConn /\ WorkerSlot
  /\ SlotKeepsItsConnection /\ NoSharedDescriptor
  /\ CountBounded /\ CountLoads
  /\ ConnNumbers /\ OpenAccounted

(* README.md:44, "Portspoof will respond to every service probe with a     *)
(* valid service signature".                                               *)
EveryProbeAnswered ==
  \A c \in Conns : (accepted >= c) ~> (c \in answered)
=============================================================================
