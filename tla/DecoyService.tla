---------------------------- MODULE DecoyService ----------------------------
(***************************************************************************)
(* What portspoof promises of the connections it accepts, without threads, *)
(* slots, counters or locks.  One connection at a time is in the hands of  *)
(* the dispatcher (Server::run); it is queued for a worker or lost; a      *)
(* queued connection is answered with a signature at most once, and then   *)
(* it is closed, once.  Connections are numbered in the order of accept(). *)
(***************************************************************************)
EXTENDS Integers

CONSTANT MaxConns          \* bound on the number of connections explored

Conns == 1 .. MaxConns

VARIABLES
  waiting,   \* accepted, in the dispatcher's hands
  queued,    \* given to a worker and not closed yet
  answered,  \* a signature was sent on it
  closed,    \* closed by a worker
  lost       \* accepted, given to no worker, never closed

vars == <<waiting, queued, answered, closed, lost>>

Init == /\ waiting = {}
        /\ queued = {}
        /\ answered = {}
        /\ closed = {}
        /\ lost = {}

Seen == waiting \union queued \union closed \union lost

Accept(c) == /\ waiting = {}
             /\ c \notin Seen
             /\ waiting' = {c}
             /\ UNCHANGED <<queued, answered, closed, lost>>

Queue(c) == /\ c \in waiting
            /\ waiting' = waiting \ {c}
            /\ queued' = queued \union {c}
            /\ UNCHANGED <<answered, closed, lost>>

Lose(c) == /\ c \in waiting
           /\ waiting' = waiting \ {c}
           /\ lost' = lost \union {c}
           /\ UNCHANGED <<queued, answered, closed>>

Answer(c) == /\ c \in queued \ answered
             /\ answered' = answered \union {c}
             /\ UNCHANGED <<waiting, queued, closed, lost>>

Close(c) == /\ c \in queued
            /\ queued' = queued \ {c}
            /\ closed' = closed \union {c}
            /\ UNCHANGED <<waiting, answered, lost>>

Next == \E c \in Conns :
          Accept(c) \/ Queue(c) \/ Lose(c) \/ Answer(c) \/ Close(c)

Spec == Init /\ [][Next]_vars
=============================================================================
