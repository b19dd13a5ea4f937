----------------------------- MODULE CowrieAuth -----------------------------
(***************************************************************************)
(* Who cowrie lets in: core/auth.py and the password half of               *)
(* core/checkers.py, as functions.  A rule of userdb.txt is kept as the    *)
(* set of words its login and its password match ("*" matches all of       *)
(* them, /.../ those of its expression), whether "!" stands before the     *)
(* password, and the text of the password as it is written.                *)
(***************************************************************************)
EXTENDS Integers, Sequences, SequencesExt, FiniteSets

CONSTANTS
  Words,       \* what a client may type as a name or a password
  Userdb,      \* the lines of userdb.txt: [login, bang, password, text]
  MinTry, MaxTry, MaxCache   \* option auth_class_parameters

ASSUME AuthAssumption ==
  /\ Userdb \in Seq([login : SUBSET Words, bang : BOOLEAN,
                     password : SUBSET Words, text : STRING])
  /\ MinTry \in Nat \ {0} /\ MaxTry \in Nat /\ MaxCache \in Nat

-----------------------------------------------------------------------------
(* UserDB *)

\* py3 says that Python 3 runs it, which compares an integer with b'!': the rule
\* then allows the one word that is its text.
RuleKey(py3, rule) ==
  << rule.login, IF rule.bang /\ py3 THEN {rule.text} ELSE rule.password >>

\* adduser: an OrderedDict keeps the place of a key that is set again.
adduser(py3, db, rule) ==
  LET at == {i \in DOMAIN db : db[i].key = RuleKey(py3, rule)}
      entry == [key |-> RuleKey(py3, rule), policy |-> ~rule.bang \/ py3]
  IN IF at = {} THEN Append(db, entry)
     ELSE [i \in DOMAIN db |-> IF i \in at THEN entry ELSE db[i]]

load(py3) == FoldLeft(LAMBDA db, rule : adduser(py3, db, rule), << >>, Userdb)

\* UserDB.checklogin: the policy of the first rule that matches
FirstMatch(py3, user, passwd) ==
  LET db == load(py3)
      at == {i \in DOMAIN db : user \in db[i].key[1] /\ passwd \in db[i].key[2]}
  IN at # {} /\ db[CHOOSE i \in at : \A j \in at : i <= j].policy

-----------------------------------------------------------------------------
(* AuthRandom: the file auth_random.json, read and written by every attempt *)

\* ips[a] is << >> for an address not seen; try counts, max is the number
\* needed, won is << >> or the pair of "user" and "pw".
NoVisitors(addresses) == [cache |-> << >>, ips |-> [a \in addresses |-> << >>]]

Needed == MinTry .. (IF MaxTry < MinTry THEN MinTry + 1 ELSE MaxTry)

Visitor(max) == [try |-> 0, max |-> max, tried |-> {}, won |-> << >>]

\* One attempt of a known address: [auth, vars]
Attempt(vars, ip, userpass, info) ==
  LET count == info.try + 1
      kept(i) == [vars EXCEPT !.ips[ip] = << i >>]
      cached == Append(vars.cache, userpass)
  IN CASE userpass \in info.tried -> [auth |-> FALSE, vars |-> kept(info)]
       [] userpass \notin info.tried /\ count < info.max ->
            [auth |-> FALSE,
             vars |-> kept([info EXCEPT !.try = count, !.tried = @ \union {userpass}])]
       [] userpass \notin info.tried /\ count = info.max ->
            [auth |-> TRUE,
             vars |-> [kept([info EXCEPT !.try = count, !.won = userpass])
                         EXCEPT !.cache = IF Len(cached) > MaxCache THEN Tail(cached) ELSE cached]]
       [] userpass \notin info.tried /\ count > info.max ->
            [auth |-> info.won = userpass,
             vars |-> kept(IF info.won = << >>
                           THEN [info EXCEPT !.try = 1, !.tried = @ \union {userpass}]
                           ELSE [info EXCEPT !.try = count])]

\* AuthRandom.checklogin: what it may give, for each number randint may draw.
\* An address that comes with a cached pair is let in at once.
Draws(vars, ip, userpass) ==
  IF vars.ips[ip] # << >> THEN {Attempt(vars, ip, userpass, vars.ips[ip][1])}
  ELSE IF userpass \in Range(vars.cache)
  THEN {[auth |-> TRUE,
         vars |-> [vars EXCEPT !.ips[ip] = << [Visitor(1) EXCEPT !.won = userpass] >>]]}
  ELSE {Attempt(vars, ip, userpass, Visitor(max)) : max \in Needed}

-----------------------------------------------------------------------------
(* checkers.checkUserPass: the class is made anew for every attempt.       *)

\* mode is [auth_class, py3]; result is "success", "failed" or "raised": under
\* Python 3 AuthRandom adds bytes to str before anything else, nothing is logged.
checkUserPass(mode, vars, ip, user, passwd) ==
  LET said(yes) == IF yes THEN "success" ELSE "failed"
  IN CASE mode.auth_class = "UserDB" ->
            {[result |-> said(FirstMatch(mode.py3, user, passwd)), vars |-> vars]}
       [] mode.auth_class = "AuthRandom" /\ mode.py3 -> {[result |-> "raised", vars |-> vars]}
       [] mode.auth_class = "AuthRandom" /\ ~mode.py3 ->
            {[result |-> said(d.auth), vars |-> d.vars] : d \in Draws(vars, ip, << user, passwd >>)}
=============================================================================
