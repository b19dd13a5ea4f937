------------------------- MODULE PortspoofPoolProofs -------------------------
(***************************************************************************)
(* Proofs about PortspoofPool, for every number of threads, slots,         *)
(* descriptors and connections.  IInv is inductive although the mutex      *)
(* excludes nobody: what keeps slots and descriptors apart is who writes   *)
(* what, not the lock.                                                     *)
(***************************************************************************)
EXTENDS PortspoofPool, TLAPS

-----------------------------------------------------------------------------
(* How a worker moves.                                                     *)

WorkerLabels == {"sleep", "test", "recv", "send", "close", "lock", "clear",
                 "load", "store", "unlock"}

\* Moving on to the next slot keeps the index in range and touches no other
\* worker (the for loop of connection.cpp:112).
LEMMA NextSlotMoves ==
  ASSUME NEW t \in Tids, TypeOK, NextSlot(t)
  PROVE  /\ wi' \in [Tids -> Slots]
         /\ wpc' \in [Tids -> WorkerLabels]
         /\ wpc'[t] \in {"sleep", "test"}
         /\ \A u \in Tids \ {t} : wi'[u] = wi[u] /\ wpc'[u] = wpc[u]
<1>1. wi[t] \in Slots /\ wi \in [Tids -> Slots] /\ wpc \in [Tids -> WorkerLabels]
  BY DEF TypeOK, WorkerLabels
<1>2. CASE wi[t] + 1 < MaxClientPerThread
  <2>1. wi[t] + 1 \in Slots
    BY <1>1, <1>2, PoolAssumption DEF Slots
  <2>2. QED
    BY <1>1, <1>2, <2>1 DEF NextSlot, WorkerLabels
<1>3. CASE ~ (wi[t] + 1 < MaxClientPerThread)
  <2>1. 0 \in Slots
    BY PoolAssumption DEF Slots
  <2>2. QED
    BY <1>1, <1>3, <2>1 DEF NextSlot, WorkerLabels
<1>4. QED
  BY <1>2, <1>3

\* So does a jump to a label inside the loop body.
LEMMA GotoMoves ==
  ASSUME NEW t \in Tids, TypeOK, NEW l \in WorkerLabels, Goto(t, l)
  PROVE  /\ wi' = wi
         /\ wpc' \in [Tids -> WorkerLabels]
         /\ wpc'[t] = l
         /\ \A u \in Tids \ {t} : wpc'[u] = wpc[u]
  BY DEF Goto, TypeOK, WorkerLabels

\* Where recv() can send the worker.
LEMMA RecvMoves ==
  ASSUME NEW t \in Tids, TypeOK, Recv(t)
  PROVE  /\ wi' \in [Tids -> Slots]
         /\ wpc' \in [Tids -> WorkerLabels]
         /\ \/ wpc'[t] \in {"sleep", "test"}
            \/ wpc'[t] \in {"send", "close"} /\ wi' = wi
         /\ \A u \in Tids \ {t} : wi'[u] = wi[u] /\ wpc'[u] = wpc[u]
<1>1. Goto(t, "send") \/ Goto(t, "close") \/ NextSlot(t)
  BY DEF Recv
<1>2. "send" \in WorkerLabels /\ "close" \in WorkerLabels
  BY DEF WorkerLabels
<1>3. wi \in [Tids -> Slots]
  BY DEF TypeOK
<1>4. QED
  BY <1>1, <1>2, <1>3, NextSlotMoves, GotoMoves

-----------------------------------------------------------------------------
(* Types.                                                                  *)

LEMMA LocalsStep ==
  TypeOK /\ DispatcherLocals /\ [Next]_vars => DispatcherLocals'
<1> SUFFICES ASSUME TypeOK, DispatcherLocals, [Next]_vars
             PROVE  DispatcherLocals'
  OBVIOUS
<1> USE PoolAssumption DEF TypeOK, Tids, Slots, DispatcherLocals
<1>1. CASE Dispatcher
  <2>1. CASE Accept \/ Full \/ Place \/ IncLoad \/ IncStore \/ DispatcherUnlock
    BY <2>1 DEF Accept, Full, Place, IncLoad, IncStore, DispatcherUnlock
  <2>6. CASE DispatcherLock
    BY <2>6 DEF DispatcherLock
  <2>2. CASE ChooseStep
    BY <2>2 DEF ChooseStep
  <2>3. CASE ChooseDone
    BY <2>3 DEF ChooseDone
  <2>4. CASE ScanOn
    BY <2>4 DEF ScanOn
  <2>5. QED
    BY <1>1, <2>1, <2>2, <2>3, <2>4, <2>6 DEF Dispatcher
<1>2. CASE \E t \in Tids : Worker(t)
  BY <1>2 DEF Worker, Wake, TestEmpty, TestTaken, Recv, Send, Close, WorkerLock,
              Clear, DecLoad, DecStore, WorkerUnlock, dispatcher
<1>3. CASE UNCHANGED vars
  BY <1>3 DEF vars, dispatcher
<1>4. QED
  BY <1>1, <1>2, <1>3 DEF Next

LEMMA TypeStep ==
  ASSUME TypeOK, DispatcherLocals, HandConn, WorkerSlot,
         SlotKeepsItsConnection, [Next]_vars
  PROVE  TypeOK'
<1> USE DEF TypeOK
<1>1. CASE Accept
  BY <1>1, PoolAssumption DEF Accept, Conns, workers
<1>2. CASE DispatcherLock \/ Full \/ IncLoad \/ IncStore \/ DispatcherUnlock
  <2>1. CASE Full \/ DispatcherUnlock
    BY <2>1 DEF Full, DispatcherUnlock, workers, history
  <2>5. CASE DispatcherLock
    <3>1. ThreadNr - 1 \in Int
      BY PoolAssumption
    <3>2. QED
      BY <2>5, <3>1 DEF DispatcherLock, workers, history
  <2>2. CASE IncLoad
    BY <2>2 DEF IncLoad, workers, history, DispatcherLocals
  <2>3. CASE IncStore
    <3>1. aload + 1 \in Int
      OBVIOUS
    <3>2. client_count' \in [Tids -> Int]
      BY <2>3, <3>1 DEF IncStore
    <3>3. QED
      BY <2>3, <3>2 DEF IncStore, workers, history
  <2>4. QED
    BY <1>2, <2>1, <2>2, <2>3, <2>5
<1>3. CASE ChooseStep
  BY <1>3 DEF ChooseStep, workers, history
<1>4. CASE ChooseDone
  <2>1. amin \in Tids
    BY <1>4 DEF ChooseDone, DispatcherLocals
  <2>2. choosen' \in Tids \union {-1} /\ apc' \in {"full", "scan"}
    BY <1>4, <2>1 DEF ChooseDone
  <2>3. QED
    BY <1>4, <2>2 DEF ChooseDone, workers, history
<1>5. CASE Place
  <2>1. newsockfd \in Fds /\ choosen \in Tids /\ ai \in Slots
    BY <1>5 DEF Place, HandConn, HasConn, DispatcherLocals
  <2>2. sock[newsockfd] \in Conns \union {None}
    BY <2>1
  <2>3. /\ clients' \in [Tids -> [Slots -> Fds \union {None}]]
        /\ slotConn' \in [Tids -> [Slots -> Conns \union {None}]]
    BY <1>5, <2>1, <2>2 DEF Place
  <2>4. QED
    BY <1>5, <2>3 DEF Place, workers
<1>6. CASE ScanOn
  <2>1. newsockfd \in Fds /\ sock[newsockfd] # None
    BY <1>6 DEF ScanOn, HandConn, HasConn
  <2>2. lost' \subseteq Conns /\ ai' \in Int /\ apc' \in {"scan", "unlock"}
    BY <1>6, <2>1 DEF ScanOn
  <2>3. QED
    BY <1>6, <2>2 DEF ScanOn, workers
<1>7. CASE \E t \in Tids : Wake(t) \/ TestTaken(t) \/ WorkerLock(t)
  <2>1. PICK t \in Tids : Wake(t) \/ TestTaken(t) \/ WorkerLock(t)
    BY <1>7
  <2>2. PICK l \in WorkerLabels : Goto(t, l)
    BY <2>1 DEF Wake, TestTaken, WorkerLock, WorkerLabels
  <2>3. QED
    BY <2>1, <2>2, GotoMoves
    DEF Wake, TestTaken, WorkerLock, dispatcher, history, WorkerLabels
<1>8. CASE \E t \in Tids : TestEmpty(t) \/ WorkerUnlock(t)
  BY <1>8, NextSlotMoves
  DEF TestEmpty, WorkerUnlock, dispatcher, history, WorkerLabels
<1>9. CASE \E t \in Tids : Recv(t)
  BY <1>9, RecvMoves DEF Recv, dispatcher, history, WorkerLabels
<1>10. CASE \E t \in Tids : Send(t) \/ Close(t)
  <2>1. PICK t \in Tids : Send(t) \/ Close(t)
    BY <1>10
  <2>2. wpc' \in [Tids -> WorkerLabels] /\ wi' = wi
    BY <2>1, GotoMoves DEF Send, Close, WorkerLabels
  <2>3. Fd(t) \in Fds /\ sock[Fd(t)] \in Conns
    <3>1. wi[t] \in Slots /\ Fd(t) # None
      BY <2>1 DEF Send, Close, WorkerSlot
    <3>2. Live(t, wi[t])
      BY <2>1, <3>1 DEF Send, Close, Live, Closing, Fd
    <3>3. QED
      BY <3>1, <3>2 DEF SlotKeepsItsConnection, Fd
  <2>4. QED
    BY <2>1, <2>2, <2>3 DEF Send, Close, dispatcher, WorkerLabels
<1>11. CASE \E t \in Tids : Clear(t)
  <2>1. PICK t \in Tids : Clear(t)
    BY <1>11
  <2>2. wpc' \in [Tids -> WorkerLabels] /\ wi' = wi
    BY <2>1, GotoMoves DEF Clear, WorkerLabels
  <2>3. /\ clients' \in [Tids -> [Slots -> Fds \union {None}]]
        /\ slotConn' \in [Tids -> [Slots -> Conns \union {None}]]
    BY <2>1 DEF Clear
  <2>4. QED
    BY <2>1, <2>2, <2>3 DEF Clear, dispatcher, WorkerLabels
<1>12. CASE \E t \in Tids : DecLoad(t) \/ DecStore(t)
  <2>1. PICK t \in Tids : DecLoad(t) \/ DecStore(t)
    BY <1>12
  <2>2. wpc' \in [Tids -> WorkerLabels] /\ wi' = wi
    BY <2>1, GotoMoves DEF DecLoad, DecStore, WorkerLabels
  <2>3. wload' \in [Tids -> Int] /\ client_count' \in [Tids -> Int]
    BY <2>1 DEF DecLoad, DecStore
  <2>4. QED
    BY <2>1, <2>2, <2>3 DEF DecLoad, DecStore, dispatcher, history, WorkerLabels
<1>13. CASE UNCHANGED vars
  BY <1>13 DEF vars, dispatcher, workers, history
<1>14. QED
  BY <1>1, <1>2, <1>3, <1>4, <1>5, <1>6, <1>7, <1>8, <1>9, <1>10, <1>11, <1>12,
     <1>13 DEF Next, Dispatcher, Worker

-----------------------------------------------------------------------------
(* The counters.                                                           *)

\* However ++ and -- interleave, no store takes a counter past the bound: a
\* worker stores one less than a value within it, the dispatcher one more than
\* a value it loaded after testing that the counter was not at it, and in
\* between only workers write.
LEMMA CountStep ==
  TypeOK /\ DispatcherLocals /\ CountBounded /\ CountLoads /\ [Next]_vars
    => CountBounded' /\ CountLoads'
<1> SUFFICES ASSUME TypeOK, DispatcherLocals, CountBounded, CountLoads,
                    [Next]_vars
             PROVE  CountBounded' /\ CountLoads'
  OBVIOUS
<1> USE PoolAssumption DEF TypeOK, Tids, DispatcherLocals, CountBounded, CountLoads
<1>1. CASE Dispatcher
  <2>1. CASE Accept \/ DispatcherLock \/ ChooseStep \/ Full \/ Place \/ ScanOn
               \/ DispatcherUnlock
    BY <2>1 DEF Accept, DispatcherLock, ChooseStep, Full, Place, ScanOn,
                DispatcherUnlock, workers
  <2>2. CASE ChooseDone
    BY <2>2 DEF ChooseDone, workers
  <2>3. CASE IncLoad \/ IncStore
    BY <2>3 DEF IncLoad, IncStore, workers
  <2>4. QED
    BY <1>1, <2>1, <2>2, <2>3 DEF Dispatcher
<1>2. ASSUME NEW t \in Tids, Worker(t)
      PROVE  CountBounded' /\ CountLoads'
  <2>1. CASE Wake(t) \/ TestTaken(t) \/ Send(t) \/ Close(t) \/ WorkerLock(t)
               \/ Clear(t)
    BY <1>2, <2>1 DEF Wake, TestTaken, Send, Close, WorkerLock, Clear, Goto,
                      dispatcher
  <2>2. CASE TestEmpty(t) \/ Recv(t) \/ WorkerUnlock(t)
    <3>1. wpc'[t] # "store" /\ \A u \in Tids \ {t} : wpc'[u] = wpc[u]
      BY <1>2, <2>2, NextSlotMoves, RecvMoves DEF TestEmpty, WorkerUnlock
    <3>2. UNCHANGED <<client_count, wload, dispatcher>>
      BY <2>2 DEF TestEmpty, Recv, WorkerUnlock
    <3>3. QED
      BY <3>1, <3>2 DEF dispatcher
  <2>3. CASE DecLoad(t)
    BY <1>2, <2>3 DEF DecLoad, Goto, dispatcher
  <2>4. CASE DecStore(t)
    BY <1>2, <2>4 DEF DecStore, Goto, dispatcher
  <2>5. QED
    BY <1>2, <2>1, <2>2, <2>3, <2>4 DEF Worker
<1>3. CASE UNCHANGED vars
  BY <1>3 DEF vars, dispatcher, workers
<1>4. QED
  BY <1>1, <1>2, <1>3 DEF Next

-----------------------------------------------------------------------------
(* Slots and descriptors.  All but four actions leave the slots, the       *)
(* descriptors and what is Live alone.                                     *)

Quiet ==
  \/ DispatcherLock \/ ChooseStep \/ ChooseDone \/ Full \/ ScanOn \/ IncLoad
  \/ IncStore \/ DispatcherUnlock
  \/ \E t \in Tids : \/ Wake(t) \/ TestEmpty(t) \/ TestTaken(t) \/ Recv(t)
                     \/ Send(t) \/ WorkerLock(t) \/ DecLoad(t) \/ DecStore(t)
                     \/ WorkerUnlock(t)
  \/ UNCHANGED vars

LEMMA Actions ==
  [Next]_vars => \/ Quiet \/ Accept \/ Place
                 \/ \E t \in Tids : Close(t) \/ Clear(t)
  BY DEF Next, Dispatcher, Worker, Quiet

LEMMA QuietLive ==
  ASSUME TypeOK, WorkerSlot, Quiet
  PROVE  /\ UNCHANGED <<clients, sock, slotConn, newsockfd, accepted, closed>>
         /\ \A t \in Tids, i \in Slots : Live(t, i)' <=> Live(t, i)
         /\ WorkerSlot'
         /\ apc' \in HasConn => apc \in HasConn
         /\ apc \in HasConn => apc' \in HasConn \/ sock[newsockfd] \in lost'
         /\ \/ lost' = lost
            \/ apc \in HasConn /\ lost' = lost \union {sock[newsockfd]}
<1>1. CASE \/ DispatcherLock \/ ChooseStep \/ ChooseDone \/ Full \/ ScanOn
           \/ IncLoad \/ IncStore \/ DispatcherUnlock \/ UNCHANGED vars
  BY <1>1 DEF DispatcherLock, ChooseStep, ChooseDone, Full, ScanOn, IncLoad,
    IncStore, DispatcherUnlock, vars, dispatcher, workers, history, HasConn,
    Live, WorkerSlot, Fd
<1>2. ASSUME NEW t \in Tids,
             \/ Wake(t) \/ TestEmpty(t) \/ TestTaken(t) \/ Recv(t)
             \/ Send(t) \/ WorkerLock(t) \/ DecLoad(t) \/ DecStore(t)
             \/ WorkerUnlock(t)
      PROVE  /\ UNCHANGED <<clients, sock, slotConn, accepted, closed, lost,
                            dispatcher>>
             /\ \A u \in Tids, i \in Slots : Live(u, i)' <=> Live(u, i)
             /\ WorkerSlot'
  <2>1. UNCHANGED <<clients, sock, slotConn, accepted, closed, lost, dispatcher>>
    BY <1>2 DEF Wake, TestEmpty, TestTaken, Recv, Send, WorkerLock, DecLoad,
                DecStore, WorkerUnlock, history
  <2>2. CASE TestEmpty(t) \/ Recv(t) \/ WorkerUnlock(t)
    <3>1. /\ wpc[t] \notin Closing /\ wpc'[t] \notin Closing
          /\ wpc'[t] \in {"recv", "send", "close", "lock", "clear"}
               => wpc[t] = "recv" /\ wi'[t] = wi[t]
          /\ \A u \in Tids \ {t} : wpc'[u] = wpc[u] /\ wi'[u] = wi[u]
      BY <2>2, NextSlotMoves, RecvMoves
      DEF TestEmpty, Recv, WorkerUnlock, Closing
    <3>2. QED
      BY <2>1, <3>1 DEF Live, WorkerSlot, Fd
  <2>3. CASE Wake(t) \/ TestTaken(t) \/ Send(t) \/ WorkerLock(t) \/ DecLoad(t)
               \/ DecStore(t)
    <3>1. /\ wpc[t] \in Closing <=> wpc'[t] \in Closing
          /\ wpc'[t] \in {"recv", "send", "close", "lock", "clear"}
               => Fd(t) # None
          /\ wi' = wi
          /\ \A u \in Tids \ {t} : wpc'[u] = wpc[u]
      BY <2>3 DEF Wake, TestTaken, Send, WorkerLock, DecLoad, DecStore, Goto,
                  TypeOK, Closing, WorkerSlot
    <3>2. QED
      BY <2>1, <3>1 DEF Live, WorkerSlot, Fd
  <2>4. QED
    BY <1>2, <2>1, <2>2, <2>3
<1>3. QED
  BY <1>1, <1>2 DEF Quiet, dispatcher

\* accept() fills the dispatcher's hand and no slot.
LEMMA AcceptLive ==
  ASSUME TypeOK, Accept
  PROVE  /\ UNCHANGED <<clients, slotConn, closed, lost>>
         /\ \A t \in Tids, i \in Slots : Live(t, i)' <=> Live(t, i)
         /\ WorkerSlot => WorkerSlot'
         /\ apc \notin HasConn /\ apc' \in HasConn
         /\ newsockfd' \in Fds /\ sock[newsockfd'] = None
         /\ sock' = [sock EXCEPT ![newsockfd'] = accepted + 1]
         /\ accepted' = accepted + 1
  BY DEF Accept, workers, HasConn, Live, WorkerSlot, Fd

\* The dispatcher's write makes one empty slot live.
LEMMA PlaceLive ==
  ASSUME TypeOK, DispatcherLocals, HandConn, WorkerSlot, Place
  PROVE  /\ UNCHANGED <<sock, newsockfd, accepted, closed, lost>>
         /\ newsockfd \in Fds /\ choosen \in Tids /\ ai \in Slots
         /\ apc \in HasConn /\ apc' \notin HasConn
         /\ clients[choosen][ai] = None /\ ~ Live(choosen, ai)
         /\ clients' = [clients EXCEPT ![choosen][ai] = newsockfd]
         /\ slotConn' = [slotConn EXCEPT ![choosen][ai] = sock[newsockfd]]
         /\ \A t \in Tids, i \in Slots :
              Live(t, i)' <=> (Live(t, i) \/ (t = choosen /\ i = ai))
         /\ WorkerSlot'
<1>1. /\ newsockfd \in Fds /\ choosen \in Tids /\ ai \in Slots
      /\ clients[choosen][ai] = None
      /\ clients' = [clients EXCEPT ![choosen][ai] = newsockfd]
      /\ UNCHANGED <<wi, wpc>>
      /\ apc \in HasConn /\ apc' \notin HasConn
  BY DEF Place, HandConn, HasConn, DispatcherLocals, workers
<1>2. newsockfd # None
  BY <1>1, PoolAssumption DEF None
<1>3. \A t \in Tids, i \in Slots :
        clients'[t][i] = IF t = choosen /\ i = ai THEN newsockfd
                                                  ELSE clients[t][i]
  BY <1>1 DEF TypeOK
<1>4. ~ Live(choosen, ai) /\ ~ (wi[choosen] = ai /\ wpc[choosen] \in Closing)
  BY <1>1 DEF Live, WorkerSlot, Fd, Closing
<1>5. \A t \in Tids, i \in Slots :
        Live(t, i)' <=> (Live(t, i) \/ (t = choosen /\ i = ai))
  BY <1>1, <1>2, <1>3, <1>4 DEF Live
<1>6. WorkerSlot'
  BY <1>1, <1>2, <1>3 DEF WorkerSlot, Fd, TypeOK
<1>7. QED
  BY <1>1, <1>4, <1>5, <1>6 DEF Place

\* close() makes one live slot stale.
LEMMA CloseLive ==
  ASSUME TypeOK, WorkerSlot, NEW t \in Tids, Close(t)
  PROVE  /\ UNCHANGED <<clients, slotConn, newsockfd, apc, accepted, lost>>
         /\ wi[t] \in Slots /\ Fd(t) \in Fds /\ Live(t, wi[t])
         /\ sock' = [sock EXCEPT ![Fd(t)] = None]
         /\ closed' = closed \union {sock[Fd(t)]}
         /\ \A u \in Tids, i \in Slots :
              Live(u, i)' <=> (Live(u, i) /\ ~ (u = t /\ i = wi[t]))
         /\ WorkerSlot'
<1>1. /\ UNCHANGED <<clients, slotConn, newsockfd, apc, accepted, lost>>
      /\ sock' = [sock EXCEPT ![Fd(t)] = None]
      /\ closed' = closed \union {sock[Fd(t)]}
      /\ wpc[t] = "close" /\ Fd(t) # None
  BY DEF Close, dispatcher, WorkerSlot
<1>2. wi' = wi /\ wpc'[t] = "lock" /\ \A u \in Tids \ {t} : wpc'[u] = wpc[u]
  BY GotoMoves DEF Close, WorkerLabels
<1>3. wi[t] \in Slots /\ Fd(t) \in Fds
  BY <1>1 DEF TypeOK, Fd
<1>4. Live(t, wi[t])
  BY <1>1 DEF Live, Closing, Fd
<1>5. \A u \in Tids, i \in Slots :
        Live(u, i)' <=> (Live(u, i) /\ ~ (u = t /\ i = wi[t]))
  BY <1>1, <1>2 DEF Live, Closing
<1>6. WorkerSlot'
  BY <1>1, <1>2 DEF WorkerSlot, Fd
<1>7. QED
  BY <1>1, <1>3, <1>4, <1>5, <1>6

\* clients[i] = 0 empties a slot that was stale already.
LEMMA ClearLive ==
  ASSUME TypeOK, WorkerSlot, NEW t \in Tids, Clear(t)
  PROVE  /\ UNCHANGED <<sock, newsockfd, apc, accepted, closed, lost>>
         /\ wi[t] \in Slots /\ ~ Live(t, wi[t])
         /\ clients' = [clients EXCEPT ![t][wi[t]] = None]
         /\ slotConn' = [slotConn EXCEPT ![t][wi[t]] = None]
         /\ \A u \in Tids, i \in Slots : Live(u, i)' <=> Live(u, i)
         /\ WorkerSlot'
<1>1. /\ UNCHANGED <<sock, newsockfd, apc, accepted, closed, lost>>
      /\ wpc[t] = "clear"
      /\ clients' = [clients EXCEPT ![t][wi[t]] = None]
      /\ slotConn' = [slotConn EXCEPT ![t][wi[t]] = None]
  BY DEF Clear, dispatcher
<1>2. wi' = wi /\ wpc'[t] = "load" /\ \A u \in Tids \ {t} : wpc'[u] = wpc[u]
  BY GotoMoves DEF Clear, WorkerLabels
<1>3. wi[t] \in Slots /\ ~ Live(t, wi[t])
  BY <1>1 DEF TypeOK, Live, Closing
<1>4. \A u \in Tids, i \in Slots :
        clients'[u][i] = IF u = t /\ i = wi[t] THEN None ELSE clients[u][i]
  BY <1>1, <1>3 DEF TypeOK
<1>5. \A u \in Tids, i \in Slots : Live(u, i)' <=> Live(u, i)
  BY <1>1, <1>2, <1>3, <1>4 DEF Live, Closing
<1>6. WorkerSlot'
  BY <1>1, <1>2, <1>4 DEF WorkerSlot, Fd, TypeOK
<1>7. QED
  BY <1>1, <1>3, <1>5, <1>6

\* In every case below only the descriptor accepted, placed, closed or cleared
\* has to be looked at.
LEMMA HandStep ==
  ASSUME TypeOK, DispatcherLocals, HandConn, WorkerSlot,
         SlotKeepsItsConnection, [Next]_vars
  PROVE  HandConn'
<1>1. CASE Quiet
  BY <1>1, QuietLive DEF HandConn
<1>2. CASE Accept
  <2>1. \A t \in Tids, i \in Slots : Live(t, i) => clients[t][i] # newsockfd'
    BY <1>2, AcceptLive DEF SlotKeepsItsConnection
  <2>2. sock'[newsockfd'] # None
    BY <1>2, AcceptLive DEF TypeOK, None
  <2>3. QED
    BY <1>2, <2>1, <2>2, AcceptLive DEF HandConn
<1>3. CASE Place
  BY <1>3, PlaceLive DEF HandConn
<1>4. ASSUME NEW t \in Tids, Close(t)
      PROVE  HandConn'
  BY <1>4, CloseLive DEF HandConn, Fd, TypeOK
<1>5. ASSUME NEW t \in Tids, Clear(t)
      PROVE  HandConn'
  BY <1>5, ClearLive DEF HandConn, Live, TypeOK
<1>6. QED
  BY <1>1, <1>2, <1>3, <1>4, <1>5, Actions

LEMMA KeepsStep ==
  ASSUME TypeOK, DispatcherLocals, HandConn, WorkerSlot,
         SlotKeepsItsConnection, NoSharedDescriptor, [Next]_vars
  PROVE  SlotKeepsItsConnection'
<1> SUFFICES ASSUME NEW t \in Tids, NEW i \in Slots, Live(t, i)'
             PROVE  slotConn'[t][i] # None /\ sock'[clients'[t][i]] = slotConn'[t][i]
  BY DEF SlotKeepsItsConnection
<1> USE DEF SlotKeepsItsConnection
<1>1. CASE Quiet
  BY <1>1, QuietLive
<1>2. CASE Accept
  <2>1. Live(t, i) /\ clients'[t][i] = clients[t][i] /\ slotConn'[t][i] = slotConn[t][i]
    BY <1>2, AcceptLive
  <2>2. clients[t][i] \in Fds /\ clients[t][i] # newsockfd'
    BY <1>2, <2>1, AcceptLive DEF Live, TypeOK
  <2>3. QED
    BY <1>2, <2>1, <2>2, AcceptLive DEF TypeOK
<1>3. CASE Place
  <2>1. CASE t = choosen /\ i = ai
    BY <1>3, <2>1, PlaceLive DEF TypeOK, HandConn
  <2>2. CASE ~ (t = choosen /\ i = ai)
    BY <1>3, <2>2, PlaceLive DEF TypeOK
  <2>3. QED
    BY <2>1, <2>2
<1>4. ASSUME NEW w \in Tids, Close(w)
      PROVE  slotConn'[t][i] # None /\ sock'[clients'[t][i]] = slotConn'[t][i]
  <2>1. Live(t, i) /\ ~ (t = w /\ i = wi[w]) /\ Live(w, wi[w]) /\ wi[w] \in Slots
    BY <1>4, CloseLive
  <2>2. clients[t][i] # Fd(w) /\ clients[t][i] \in Fds
    BY <2>1 DEF NoSharedDescriptor, Fd, Live, TypeOK
  <2>3. QED
    BY <1>4, <2>1, <2>2, CloseLive DEF TypeOK
<1>5. ASSUME NEW w \in Tids, Clear(w)
      PROVE  slotConn'[t][i] # None /\ sock'[clients'[t][i]] = slotConn'[t][i]
  <2>1. Live(t, i) /\ ~ (t = w /\ i = wi[w])
    BY <1>5, ClearLive
  <2>2. QED
    BY <1>5, <2>1, ClearLive DEF TypeOK
<1>6. QED
  BY <1>1, <1>2, <1>3, <1>4, <1>5, Actions

LEMMA SharedStep ==
  ASSUME TypeOK, DispatcherLocals, HandConn, WorkerSlot, NoSharedDescriptor,
         [Next]_vars
  PROVE  NoSharedDescriptor'
<1> SUFFICES ASSUME NEW t \in Tids, NEW u \in Tids, NEW i \in Slots, NEW j \in Slots,
                    Live(t, i)', Live(u, j)', clients'[t][i] = clients'[u][j]
             PROVE  t = u /\ i = j
  BY DEF NoSharedDescriptor
<1> USE DEF NoSharedDescriptor
<1>1. CASE Quiet
  BY <1>1, QuietLive
<1>2. CASE Accept
  BY <1>2, AcceptLive
<1>3. CASE Place
  <2>1. \A v \in Tids, k \in Slots :
          clients'[v][k] = IF v = choosen /\ k = ai THEN newsockfd ELSE clients[v][k]
    BY <1>3, PlaceLive DEF TypeOK
  <2>2. \A v \in Tids, k \in Slots : Live(v, k) => clients[v][k] # newsockfd
    BY <1>3, PlaceLive DEF HandConn
  <2>3. (Live(t, i) \/ (t = choosen /\ i = ai)) /\ (Live(u, j) \/ (u = choosen /\ j = ai))
    BY <1>3, PlaceLive
  <2>4. QED
    BY <2>1, <2>2, <2>3
<1>4. ASSUME NEW w \in Tids, Close(w) PROVE t = u /\ i = j
  BY <1>4, CloseLive
<1>5. ASSUME NEW w \in Tids, Clear(w) PROVE t = u /\ i = j
  <2>1. /\ Live(t, i) /\ ~ (t = w /\ i = wi[w])
        /\ Live(u, j) /\ ~ (u = w /\ j = wi[w])
    BY <1>5, ClearLive
  <2>2. QED
    BY <1>5, <2>1, ClearLive DEF TypeOK
<1>6. QED
  BY <1>1, <1>2, <1>3, <1>4, <1>5, Actions

LEMMA NumbersStep ==
  ASSUME TypeOK, DispatcherLocals, HandConn, WorkerSlot, ConnNumbers,
         [Next]_vars
  PROVE  ConnNumbers'
<1>1. CASE Quiet
  <2>1. apc \in HasConn => sock[newsockfd] <= accepted
    BY DEF HandConn, ConnNumbers
  <2>2. QED
    BY <1>1, <2>1, QuietLive DEF ConnNumbers
<1>2. CASE Accept
  <2>1. accepted \in Int /\ accepted' = accepted + 1
    BY <1>2, AcceptLive DEF TypeOK
  <2>2. \A f \in Fds : /\ sock[f] \in Int /\ sock[f] <= accepted
                       /\ sock'[f] = IF f = newsockfd' THEN accepted + 1 ELSE sock[f]
    BY <1>2, AcceptLive DEF ConnNumbers, TypeOK, Conns, None
  <2>3. \A t \in Tids, i \in Slots : slotConn[t][i] \in Int
    BY DEF TypeOK, Conns, None
  <2>4. \A c \in closed \union lost : c \in Int
    BY DEF TypeOK, Conns
  <2>5. /\ \A f \in Fds : sock'[f] <= accepted'
        /\ \A f, g \in Fds : sock'[f] = sock'[g] /\ sock'[f] # None => f = g
    BY <2>1, <2>2 DEF ConnNumbers
  <2>6. /\ \A t \in Tids, i \in Slots : slotConn'[t][i] <= accepted'
        /\ \A c \in closed' \union lost' : c <= accepted'
    BY <1>2, <2>1, <2>3, <2>4, AcceptLive DEF ConnNumbers
  <2>7. QED
    BY <2>5, <2>6 DEF ConnNumbers
<1>3. CASE Place
  <2>1. sock[newsockfd] <= accepted
    BY <1>3, PlaceLive DEF ConnNumbers
  <2>4. \A t \in Tids, i \in Slots :
          slotConn'[t][i] = IF t = choosen /\ i = ai THEN sock[newsockfd]
                                                     ELSE slotConn[t][i]
    BY <1>3, PlaceLive DEF TypeOK
  <2>2. \A t \in Tids, i \in Slots : slotConn'[t][i] <= accepted
    BY <2>1, <2>4 DEF ConnNumbers
  <2>3. QED
    BY <1>3, <2>2, PlaceLive DEF ConnNumbers
<1>4. ASSUME NEW w \in Tids, Close(w) PROVE ConnNumbers'
  <2>1. \A f \in Fds : sock'[f] = IF f = Fd(w) THEN None ELSE sock[f]
    BY <1>4, CloseLive DEF TypeOK
  <2>2. None <= accepted
    BY DEF TypeOK, None
  <2>3. /\ \A f \in Fds : sock'[f] <= accepted
        /\ \A f, g \in Fds : sock'[f] = sock'[g] /\ sock'[f] # None => f = g
    BY <2>1, <2>2 DEF ConnNumbers
  <2>4. \A c \in closed' \union lost' : c <= accepted
    BY <1>4, CloseLive DEF ConnNumbers
  <2>5. QED
    BY <1>4, <2>3, <2>4, CloseLive DEF ConnNumbers
<1>5. ASSUME NEW w \in Tids, Clear(w) PROVE ConnNumbers'
  <2>1. None <= accepted
    BY DEF TypeOK, None
  <2>4. \A t \in Tids, i \in Slots :
          slotConn'[t][i] = IF t = w /\ i = wi[w] THEN None ELSE slotConn[t][i]
    BY <1>5, ClearLive DEF TypeOK
  <2>2. \A t \in Tids, i \in Slots : slotConn'[t][i] <= accepted
    BY <2>1, <2>4 DEF ConnNumbers
  <2>3. QED
    BY <1>5, <2>2, ClearLive DEF ConnNumbers
<1>6. QED
  BY <1>1, <1>2, <1>3, <1>4, <1>5, Actions

LEMMA OpenStep ==
  ASSUME TypeOK, DispatcherLocals, HandConn, WorkerSlot, OpenAccounted,
         [Next]_vars
  PROVE  OpenAccounted'
<1>1. CASE Quiet
  BY <1>1, QuietLive DEF OpenAccounted
<1>2. CASE Accept
  BY <1>2, AcceptLive DEF OpenAccounted, TypeOK
<1>3. CASE Place
  <2>1. SUFFICES ASSUME NEW f \in Fds, sock[f] # None
                 PROVE  \/ \E t \in Tids, i \in Slots : Live(t, i)' /\ clients'[t][i] = f
                        \/ sock[f] \in lost
    BY <1>3, PlaceLive DEF OpenAccounted
  <2>2. CASE f = newsockfd
    BY <1>3, <2>2, PlaceLive DEF TypeOK
  <2>3. ASSUME NEW t \in Tids, NEW i \in Slots, Live(t, i), clients[t][i] = f
        PROVE  Live(t, i)' /\ clients'[t][i] = f
    BY <1>3, <2>3, PlaceLive DEF TypeOK
  <2>4. QED
    BY <2>1, <2>2, <2>3 DEF OpenAccounted
<1>4. ASSUME NEW w \in Tids, Close(w) PROVE OpenAccounted'
  BY <1>4, CloseLive DEF OpenAccounted, TypeOK, Fd
<1>5. ASSUME NEW w \in Tids, Clear(w) PROVE OpenAccounted'
  <2>1. ASSUME NEW t \in Tids, NEW i \in Slots, Live(t, i)
        PROVE  Live(t, i)' /\ clients'[t][i] = clients[t][i]
    <3>1. ~ (t = w /\ i = wi[w]) /\ Live(t, i)'
      BY <1>5, <2>1, ClearLive
    <3>2. QED
      BY <1>5, <3>1, ClearLive DEF TypeOK
  <2>2. SUFFICES ASSUME NEW f \in Fds, sock[f] # None
                 PROVE  \/ apc \in HasConn /\ newsockfd = f
                        \/ \E t \in Tids, i \in Slots : Live(t, i)' /\ clients'[t][i] = f
                        \/ sock[f] \in lost
    BY <1>5, ClearLive DEF OpenAccounted
  <2>3. QED
    BY <2>1, <2>2 DEF OpenAccounted
<1>6. QED
  BY <1>1, <1>2, <1>3, <1>4, <1>5, Actions

-----------------------------------------------------------------------------
(* The theorems.                                                           *)

LEMMA InitInv == Init => IInv
<1> SUFFICES ASSUME Init PROVE IInv
  OBVIOUS
<1>1. TypeOK
  <2>1. 0 \in Slots /\ accepted \in 0 .. MaxConns
    BY PoolAssumption DEF Init, Slots
  <2>2. /\ clients \in [Tids -> [Slots -> Fds \union {None}]]
        /\ slotConn \in [Tids -> [Slots -> Conns \union {None}]]
        /\ sock \in [Fds -> Conns \union {None}]
    BY DEF Init
  <2>3. /\ client_count \in [Tids -> Int] /\ wload \in [Tids -> Int]
        /\ wi \in [Tids -> Slots]
    BY <2>1 DEF Init
  <2>4. wpc \in [Tids -> {"sleep", "test", "recv", "send", "close", "lock",
                          "clear", "load", "store", "unlock"}]
    BY DEF Init
  <2>5. /\ newsockfd \in Fds \union {None} /\ choosen \in Tids \union {-1}
        /\ ai \in Int /\ amin \in Int /\ aload \in Int
    BY DEF Init
  <2>6. /\ mutex \in BOOLEAN
        /\ apc \in {"accept", "lock", "choose", "full", "scan", "load",
                    "store", "unlock"}
        /\ answered \subseteq Conns /\ closed \subseteq Conns /\ lost \subseteq Conns
    BY DEF Init
  <2>7. QED
    BY <2>1, <2>2, <2>3, <2>4, <2>5, <2>6 DEF TypeOK
<1>2. \A t \in Tids, i \in Slots : ~ Live(t, i)
  BY DEF Init, Live
<1>3. DispatcherLocals /\ HandConn /\ WorkerSlot /\ CountBounded /\ CountLoads
  BY PoolAssumption
  DEF Init, DispatcherLocals, HandConn, HasConn, WorkerSlot, CountBounded,
      CountLoads
<1>4. ConnNumbers /\ OpenAccounted
  BY DEF Init, ConnNumbers, OpenAccounted, None
<1>5. QED
  BY <1>1, <1>2, <1>3, <1>4
  DEF IInv, SlotKeepsItsConnection, NoSharedDescriptor

LEMMA StepInv == IInv /\ [Next]_vars => IInv'
  <1> SUFFICES ASSUME IInv, [Next]_vars PROVE IInv'
    OBVIOUS
  <1> USE DEF IInv
  <1>1. TypeOK' /\ DispatcherLocals'
    BY TypeStep, LocalsStep
  <1>2. WorkerSlot'
    BY Actions, QuietLive, AcceptLive, PlaceLive, CloseLive, ClearLive
  <1>3. HandConn' /\ SlotKeepsItsConnection' /\ NoSharedDescriptor'
    BY HandStep, KeepsStep, SharedStep
  <1>4. CountBounded' /\ CountLoads' /\ ConnNumbers' /\ OpenAccounted'
    BY CountStep, NumbersStep, OpenStep
  <1>5. QED
    BY <1>1, <1>2, <1>3, <1>4

(* Types, the bound of client_count, and the three slot and descriptor     *)
(* invariants hold in every reachable state of the pool, for every number  *)
(* of threads and slots.                                                   *)
THEOREM Inductive == Spec => []IInv
  BY InitInv, StepInv, PTL DEF Spec

(* Every variable keeps its type.                                          *)
THEOREM TypeCorrect == Spec => []TypeOK
<1>1. IInv => TypeOK
  BY DEF IInv
<1>2. QED
  BY <1>1, Inductive, PTL

(* A worker never answers or closes a connection other than the one its    *)
(* slot was filled with, although descriptors are reused while they still  *)
(* stand in slots (process_connection closes before it clears).            *)
THEOREM SlotsKeepConnections == Spec => []SlotKeepsItsConnection
<1>1. IInv => SlotKeepsItsConnection
  BY DEF IInv
<1>2. QED
  BY <1>1, Inductive, PTL

(* No descriptor is ever served out of two slots.                          *)
THEOREM DescriptorsNotShared == Spec => []NoSharedDescriptor
<1>1. IInv => NoSharedDescriptor
  BY DEF IInv
<1>2. QED
  BY <1>1, Inductive, PTL

(* client_count stays within MAX_CLIENT_PER_THREAD in spite of lost        *)
(* updates, so the == of choose_thread cannot be stepped over.             *)
THEOREM CountersBounded == Spec => []CountBounded
<1>1. IInv => CountBounded
  BY DEF IInv
<1>2. QED
  BY <1>1, Inductive, PTL

(* The only descriptors nobody will close are those of lost connections.   *)
THEOREM DescriptorsAccounted == Spec => []OpenAccounted
<1>1. IInv => OpenAccounted
  BY DEF IInv
<1>2. QED
  BY <1>1, Inductive, PTL

(* A filled slot is emptied by its own worker's clear, and by nothing else *)
(* (no step of the dispatcher overwrites it).                              *)
THEOREM SlotsNotOverwritten == Spec => SlotReuse
<1>1. ASSUME TypeOK, WorkerSlot, DispatcherLocals, HandConn, [Next]_vars,
             NEW t \in Tids, NEW i \in Slots,
             clients[t][i] # None, clients'[t][i] # clients[t][i]
      PROVE  clients'[t][i] = None /\ wi[t] = i /\ wpc[t] = "clear"
  <2>1. ~ Quiet /\ ~ Accept /\ \A w \in Tids : ~ Close(w)
    BY <1>1, QuietLive, AcceptLive, CloseLive
  <2>2. ~ Place
    <3>1. Place => clients'[t][i] = clients[t][i]
      BY <1>1, PlaceLive DEF TypeOK
    <3>2. QED
      BY <1>1, <3>1
  <2>3. PICK w \in Tids : Clear(w)
    BY <1>1, <2>1, <2>2, Actions
  <2>4. QED
    BY <1>1, <2>3, ClearLive DEF Clear, TypeOK
<1>2. IInv /\ [Next]_vars =>
        [\A t \in Tids, i \in Slots :
           clients[t][i] # None /\ clients'[t][i] # clients[t][i]
             => clients'[t][i] = None /\ wi[t] = i /\ wpc[t] = "clear"]_vars
  BY <1>1 DEF IInv
<1>3. QED
  BY <1>2, Inductive, PTL DEF Spec, SlotReuse

-----------------------------------------------------------------------------
(* Refinement: the pool implements DecoyService.                           *)

LEMMA QueuedIs ==
  \A c : c \in Queued <=> \E t \in Tids, i \in Slots : Live(t, i) /\ slotConn[t][i] = c
<1>1. ASSUME NEW c, c \in Queued
      PROVE  \E t \in Tids, i \in Slots : Live(t, i) /\ slotConn[t][i] = c
  BY <1>1 DEF Queued
<1>2. ASSUME NEW c, NEW t \in Tids, NEW i \in Slots, Live(t, i), slotConn[t][i] = c
      PROVE  c \in Queued
  <2>1. <<t, i>> \in {q \in Tids \X Slots : Live(q[1], q[2])}
    BY <1>2
  <2>2. QED
    BY <1>2, <2>1 DEF Queued
<1>3. QED
  BY <1>1, <1>2

LEMMA QueuedIsPrimed ==
  \A c : c \in Queued' <=> \E t \in Tids, i \in Slots : Live(t, i)' /\ slotConn'[t][i] = c
<1>1. ASSUME NEW c, c \in Queued'
      PROVE  \E t \in Tids, i \in Slots : Live(t, i)' /\ slotConn'[t][i] = c
  BY <1>1 DEF Queued
<1>2. ASSUME NEW c, NEW t \in Tids, NEW i \in Slots, Live(t, i)', slotConn'[t][i] = c
      PROVE  c \in Queued'
  <2>1. <<t, i>> \in {q \in Tids \X Slots : Live(q[1], q[2])'}
    BY <1>2
  <2>2. QED
    BY <1>2, <2>1 DEF Queued
<1>3. QED
  BY <1>1, <1>2

\* Nothing moves in or out of the queue when the slots and Live stay the same.
LEMMA QueuedSame ==
  ASSUME UNCHANGED slotConn, \A t \in Tids, i \in Slots : Live(t, i)' <=> Live(t, i)
  PROVE  Queued' = Queued
  BY QueuedIs, QueuedIsPrimed

LEMMA PlaceQueues ==
  ASSUME TypeOK, DispatcherLocals, HandConn, WorkerSlot, Place
  PROVE  Queued' = Queued \union {sock[newsockfd]}
<1>1. \A t \in Tids, i \in Slots :
        slotConn'[t][i] = IF t = choosen /\ i = ai THEN sock[newsockfd]
                                                   ELSE slotConn[t][i]
  BY PlaceLive DEF TypeOK
<1>2. choosen \in Tids /\ ai \in Slots /\ ~ Live(choosen, ai)
  BY PlaceLive
<1>3. \A t \in Tids, i \in Slots :
        Live(t, i)' <=> (Live(t, i) \/ (t = choosen /\ i = ai))
  BY PlaceLive
<1>4. \A c : c \in Queued' <=> (c \in Queued \/ c = sock[newsockfd])
  <2>1. ASSUME NEW c PROVE c \in Queued' => (c \in Queued \/ c = sock[newsockfd])
    BY <1>1, <1>3, QueuedIs, QueuedIsPrimed
  <2>2. ASSUME NEW c, c \in Queued PROVE c \in Queued'
    <3>1. PICK t \in Tids, i \in Slots : Live(t, i) /\ slotConn[t][i] = c
      BY <2>2, QueuedIs
    <3>2. Live(t, i)' /\ slotConn'[t][i] = c
      BY <1>1, <1>2, <1>3, <3>1
    <3>3. QED
      BY <3>2, QueuedIsPrimed
  <2>3. sock[newsockfd] \in Queued'
    <3>1. \E t \in Tids, i \in Slots : Live(t, i)' /\ slotConn'[t][i] = sock[newsockfd]
      BY <1>1, <1>2, <1>3
    <3>2. QED
      BY <3>1, QueuedIsPrimed
  <2>4. QED
    BY <2>1, <2>2, <2>3
<1>5. QED
  BY <1>4

LEMMA CloseUnqueues ==
  ASSUME TypeOK, WorkerSlot, SlotKeepsItsConnection, NoSharedDescriptor,
         ConnNumbers, NEW w \in Tids, Close(w)
  PROVE  sock[Fd(w)] \in Queued /\ Queued' = Queued \ {sock[Fd(w)]}
<1>1. /\ wi[w] \in Slots /\ Live(w, wi[w]) /\ slotConn' = slotConn
      /\ \A u \in Tids, i \in Slots :
           Live(u, i)' <=> (Live(u, i) /\ ~ (u = w /\ i = wi[w]))
  BY CloseLive
<1>2. sock[Fd(w)] = slotConn[w][wi[w]]
  BY <1>1 DEF SlotKeepsItsConnection, Fd
<1>3. ASSUME NEW u \in Tids, NEW i \in Slots, Live(u, i),
             slotConn[u][i] = sock[Fd(w)]
      PROVE  u = w /\ i = wi[w]
  <2>1. /\ sock[clients[u][i]] = sock[Fd(w)] /\ sock[Fd(w)] # None
        /\ clients[u][i] \in Fds /\ Fd(w) \in Fds
    BY <1>1, <1>2, <1>3 DEF SlotKeepsItsConnection, Live, TypeOK, Fd
  <2>2. clients[u][i] = clients[w][wi[w]]
    BY <2>1 DEF ConnNumbers, Fd
  <2>3. QED
    BY <1>1, <1>3, <2>2 DEF NoSharedDescriptor
<1>4. \A c : c \in Queued' <=> (c \in Queued /\ c # sock[Fd(w)])
  <2>1. ASSUME NEW c, c \in Queued' PROVE c \in Queued /\ c # sock[Fd(w)]
    <3>1. PICK u \in Tids, i \in Slots : Live(u, i)' /\ slotConn'[u][i] = c
      BY <2>1, QueuedIsPrimed
    <3>2. Live(u, i) /\ ~ (u = w /\ i = wi[w]) /\ slotConn[u][i] = c
      BY <1>1, <3>1
    <3>3. QED
      BY <1>3, <3>2, QueuedIs
  <2>2. ASSUME NEW c, c \in Queued, c # sock[Fd(w)] PROVE c \in Queued'
    <3>1. PICK u \in Tids, i \in Slots : Live(u, i) /\ slotConn[u][i] = c
      BY <2>2, QueuedIs
    <3>2. Live(u, i)' /\ slotConn'[u][i] = c
      BY <1>1, <1>2, <2>2, <3>1
    <3>3. QED
      BY <3>2, QueuedIsPrimed
  <2>3. QED
    BY <2>1, <2>2
<1>5. sock[Fd(w)] \in Queued
  BY <1>1, <1>2, QueuedIs
<1>6. QED
  BY <1>4, <1>5

LEMMA ClearQueueSame ==
  ASSUME TypeOK, WorkerSlot, NEW w \in Tids, Clear(w)
  PROVE  Queued' = Queued
<1>1. \A t \in Tids, i \in Slots : Live(t, i)' <=> Live(t, i)
  BY ClearLive
<1>2. ASSUME NEW t \in Tids, NEW i \in Slots, Live(t, i)
      PROVE  slotConn'[t][i] = slotConn[t][i]
  <2>1. ~ (t = w /\ i = wi[w])
    BY <1>2, ClearLive
  <2>2. QED
    BY <2>1, ClearLive DEF TypeOK
<1>3. ASSUME NEW c
      PROVE  (\E t \in Tids, i \in Slots : Live(t, i) /\ slotConn[t][i] = c)
         <=> (\E t \in Tids, i \in Slots : Live(t, i)' /\ slotConn'[t][i] = c)
  BY <1>1, <1>2
<1>4. QED
  BY <1>3, QueuedIs, QueuedIsPrimed

\* Every step of the pool is a step of the abstract service or a stutter.
LEMMA ServiceStep == IInv /\ [Next]_vars => [Service!Next]_(Service!vars)
<1> SUFFICES ASSUME IInv, [Next]_vars
             PROVE  Service!Next \/ UNCHANGED Service!vars
  OBVIOUS
<1> USE DEF IInv
<1>1. CASE Accept
  <2>1. accepted + 1 \in Conns /\ accepted + 1 \notin Service!Seen
    <3>1. accepted + 1 \in Conns
      BY <1>1, PoolAssumption DEF Accept, TypeOK, Conns
    <3>2. Waiting = {}
      BY <1>1 DEF Accept, Waiting, HasConn
    <3>3. \A c \in Queued : c <= accepted
      BY QueuedIs DEF ConnNumbers
    <3>4. \A c \in Waiting \union Queued \union closed \union lost : c <= accepted
      BY <3>2, <3>3 DEF ConnNumbers
    <3>5. QED
      BY <3>1, <3>4 DEF Service!Seen, TypeOK
  <2>2. Waiting = {} /\ Waiting' = {accepted + 1}
    BY <1>1, AcceptLive DEF Waiting, TypeOK
  <2>3. Queued' = Queued /\ UNCHANGED <<answered, closed, lost>>
    BY <1>1, AcceptLive, QueuedSame DEF Accept
  <2>4. Service!Accept(accepted + 1)
    BY <2>1, <2>2, <2>3 DEF Service!Accept
  <2>5. QED
    BY <2>1, <2>4 DEF Service!Next, Service!Conns, Conns
<1>2. CASE Place
  <2>1. Waiting = {sock[newsockfd]} /\ Waiting' = {} /\ sock[newsockfd] \in Conns
    BY <1>2, PlaceLive DEF Waiting, TypeOK, HandConn
  <2>2. Queued' = Queued \union {sock[newsockfd]}
    BY <1>2, PlaceQueues
  <2>3. Service!Queue(sock[newsockfd])
    BY <1>2, <2>1, <2>2 DEF Place, Service!Queue
  <2>4. QED
    BY <2>1, <2>3 DEF Service!Next, Service!Conns, Conns
<1>3. CASE ScanOn
  <2>1. Queued' = Queued /\ UNCHANGED <<answered, closed, sock, newsockfd>>
    BY <1>3, QuietLive, QueuedSame DEF ScanOn, Quiet
  <2>2. Waiting = {sock[newsockfd]} /\ sock[newsockfd] \in Conns
    BY <1>3 DEF ScanOn, Waiting, HandConn, HasConn, TypeOK
  <2>3. CASE ai = MaxClientPerThread - 1
    <3>1. Waiting' = {} /\ lost' = lost \union {sock[newsockfd]}
      BY <1>3, <2>3 DEF ScanOn, Waiting, HasConn
    <3>2. Service!Lose(sock[newsockfd])
      BY <2>1, <2>2, <3>1 DEF Service!Lose
    <3>3. QED
      BY <2>2, <3>2 DEF Service!Next, Service!Conns, Conns
  <2>4. CASE ai # MaxClientPerThread - 1
    <3>1. Waiting' = Waiting /\ lost' = lost
      BY <1>3, <2>1, <2>4 DEF ScanOn, Waiting, HasConn
    <3>2. QED
      BY <2>1, <3>1 DEF Service!vars
  <2>5. QED
    BY <2>3, <2>4
<1>4. ASSUME NEW w \in Tids, Send(w)
      PROVE  Service!Next \/ UNCHANGED Service!vars
  <2>1. Quiet
    BY <1>4 DEF Quiet
  <2>2. Queued' = Queued /\ UNCHANGED <<closed, lost, dispatcher, sock>>
    BY <1>4, <2>1, QuietLive, QueuedSame DEF Send
  <2>3. Waiting' = Waiting
    BY <2>2 DEF Waiting, dispatcher
  <2>4. sock[Fd(w)] \in Queued /\ sock[Fd(w)] \in Conns
    <3>1. wi[w] \in Slots /\ Live(w, wi[w])
      BY <1>4 DEF Send, Live, Closing, WorkerSlot, Fd, TypeOK
    <3>2. sock[Fd(w)] = slotConn[w][wi[w]] /\ slotConn[w][wi[w]] # None
      BY <3>1 DEF SlotKeepsItsConnection, Fd
    <3>3. QED
      BY <3>1, <3>2, QueuedIs DEF TypeOK
  <2>5. answered' = answered \union {sock[Fd(w)]}
    BY <1>4 DEF Send
  <2>6. CASE sock[Fd(w)] \in answered
    BY <2>2, <2>3, <2>5, <2>6 DEF Service!vars
  <2>7. CASE sock[Fd(w)] \notin answered
    <3>1. Service!Answer(sock[Fd(w)])
      BY <2>2, <2>3, <2>4, <2>5, <2>7 DEF Service!Answer
    <3>2. QED
      BY <2>4, <3>1 DEF Service!Next, Service!Conns, Conns
  <2>8. QED
    BY <2>6, <2>7
<1>5. ASSUME NEW w \in Tids, Close(w)
      PROVE  Service!Next \/ UNCHANGED Service!vars
  <2>1. Waiting' = Waiting
    BY <1>5, CloseLive DEF Waiting, HandConn, Fd, TypeOK
  <2>2. sock[Fd(w)] \in Queued /\ Queued' = Queued \ {sock[Fd(w)]}
    BY <1>5, CloseUnqueues
  <2>3. sock[Fd(w)] \in Conns
    BY <2>2, QueuedIs, <1>5, CloseLive DEF SlotKeepsItsConnection, TypeOK
  <2>4. Service!Close(sock[Fd(w)])
    BY <1>5, <2>1, <2>2 DEF Close, Service!Close
  <2>5. QED
    BY <2>3, <2>4 DEF Service!Next, Service!Conns, Conns
<1>6. ASSUME NEW w \in Tids, Clear(w)
      PROVE  Service!Next \/ UNCHANGED Service!vars
  <2>1. Queued' = Queued
    BY <1>6, ClearQueueSame
  <2>2. UNCHANGED <<Waiting, answered, closed, lost>>
    BY <1>6 DEF Clear, Waiting, dispatcher
  <2>3. QED
    BY <2>1, <2>2 DEF Service!vars
<1>7. CASE Quiet /\ ~ ScanOn /\ \A w \in Tids : ~ Send(w)
  <2>1. Queued' = Queued
    BY <1>7, QuietLive, QueuedSame
  <2>2. UNCHANGED <<answered, closed, lost>> /\ (apc' \in HasConn <=> apc \in HasConn)
    BY <1>7
    DEF Quiet, DispatcherLock, ChooseStep, ChooseDone, Full, IncLoad, IncStore,
        DispatcherUnlock, Wake, TestEmpty, TestTaken, Recv, WorkerLock, DecLoad,
        DecStore, WorkerUnlock, vars, history, dispatcher, HasConn
  <2>3. Waiting' = Waiting
    BY <1>7, <2>2, QuietLive DEF Waiting
  <2>4. QED
    BY <2>1, <2>2, <2>3 DEF Service!vars
<1>8. QED
  BY <1>1, <1>2, <1>3, <1>4, <1>5, <1>6, <1>7, Actions

(* The pool implements the service it promises: one connection at a time is*)
(* between accept() and a slot, each is answered at most once and before   *)
(* its one close; a lost one is lost between accept() and a slot.          *)
THEOREM PoolImplementsService == Spec => ImplementsService
<1>1. Init => Service!Init
  <2>1. Init => Waiting = {}
    BY DEF Init, Waiting, HasConn
  <2>2. Init => \A t \in Tids, i \in Slots : ~ Live(t, i)
    BY DEF Init, Live
  <2>3. Init => Queued = {}
    BY <2>2, QueuedIs
  <2>4. QED
    BY <2>1, <2>3 DEF Init, Service!Init
<1>2. QED
  BY <1>1, Inductive, ServiceStep, PTL DEF Spec, ImplementsService, Service!Spec
=============================================================================
