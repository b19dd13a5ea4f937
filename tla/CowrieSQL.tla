----------------------------- MODULE CowrieSQL -----------------------------
(***************************************************************************)
(* The MySQL output of cowrie (output/mysql.py): write() is a coroutine of *)
(* the reactor that hands queries to the threads of a connection pool.     *)
(* The queries wait in one queue; what a query says comes back to the      *)
(* reactor, which goes on with the coroutine that asked.                   *)
(*                                                                         *)
(* db is [queue, answers, sensor, versions, last, rows]: the queries not   *)
(* run yet; the answers not delivered yet; whether `sensors' has a row of  *)
(* this sensor; the clients known; the table of the last row inserted,     *)
(* which LAST_INSERT_ID counts in; the rows of `sessions'.                 *)
(***************************************************************************)
EXTENDS Integers, Sequences, SequencesExt

\* The events of which write() makes an INSERT that nothing waits for
Recorded == {"login.success", "login.failed", "params", "input", "file_download", "file_upload",
             "log.closed", "fingerprint"}

NoRow == [there |-> FALSE, sensor |-> "", client |-> "", ended |-> FALSE]

EmptyDb(ids, known) ==
  [queue |-> << >>, answers |-> << >>, sensor |-> known, versions |-> FALSE, last |-> "",
   rows |-> [i \in ids |-> NoRow]]

\* Mutant: more than one thread runs queries.
Bug_Threads == 3

\* cp_max: at most so many queries run at a time
cp_max == 1

\* A query: about session id, for one of the two coroutines that wait, or for none
Query(op, id, for) == [op |-> op, id |-> id, for |-> for]

runQueries(db, qs) == [db EXCEPT !.queue = @ \o qs]

\* simpleQuery: nobody waits for the answer; for is the value it stores.
simpleQuery(op, id, value) == << Query(op, id, value) >>

-----------------------------------------------------------------------------
(* write(), up to its first query *)

write(id, event) ==
  CASE event = "connect" -> << Query("SELECT", id, "sensors") >>
    [] event = "version" -> << Query("SELECT", id, "clients") >>
    [] event = "size"    -> simpleQuery("UPDATE termsize", id, "")
    [] event = "closed"  -> simpleQuery("UPDATE endtime", id, "")
    [] event \in Recorded -> simpleQuery("INSERT", id, event)
    [] OTHER -> << >>

\* The row of the session, once the sensor's id is at hand; the client of the session
Found(id, for, value) ==
  simpleQuery(IF for = "sensors" THEN "INSERT sessions" ELSE "UPDATE client", id, value)

\* The reactor goes on with the coroutine of the first answer.
Resumed(db) ==
  LET a == Head(db.answers)
      rest == [db EXCEPT !.answers = Tail(@)]
      next == CASE a.op = "SELECT" /\ a.found -> Found(a.id, a.for, a.for)
                [] a.op = "SELECT" /\ ~a.found -> << Query("INSERT for", a.id, a.for) >>
                [] a.op = "INSERT for" -> << Query("LAST_INSERT_ID", a.id, a.for) >>
                [] a.op = "LAST_INSERT_ID" -> Found(a.id, a.for, a.last)
  IN runQueries(rest, next)

-----------------------------------------------------------------------------
(* A thread of the pool runs the i-th query of the queue.                  *)

Runnable(db) == {i \in DOMAIN db.queue : i <= cp_max}

Known(db, table) == IF table = "sensors" THEN db.sensor ELSE db.versions

Ran(db, i) ==
  LET q == db.queue[i]
      rest == [db EXCEPT !.queue = RemoveAt(@, i)]
      answer == [op |-> q.op, id |-> q.id, for |-> q.for, found |-> Known(db, q.for), last |-> db.last]
      asked(d) == [d EXCEPT !.answers = Append(@, answer)]
  IN CASE q.op \in {"SELECT", "LAST_INSERT_ID"} -> asked(rest)
       [] q.op = "INSERT for" ->
            asked([rest EXCEPT !.last = q.for, !.sensor = @ \/ q.for = "sensors",
                               !.versions = @ \/ q.for = "clients"])
       [] q.op = "INSERT" -> [rest EXCEPT !.last = q.for]
       [] q.op = "INSERT sessions" ->
            [rest EXCEPT !.last = "sessions", !.rows[q.id].there = TRUE, !.rows[q.id].sensor = q.for]
       [] q.op = "UPDATE client" /\ db.rows[q.id].there -> [rest EXCEPT !.rows[q.id].client = q.for]
       [] q.op = "UPDATE endtime" /\ db.rows[q.id].there -> [rest EXCEPT !.rows[q.id].ended = TRUE]
       [] OTHER -> rest
=============================================================================
