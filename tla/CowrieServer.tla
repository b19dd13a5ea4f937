---------------------------- MODULE CowrieServer ----------------------------
(***************************************************************************)
(* cowrie's SSH and telnet servers: connections to the ports it listens    *)
(* on, from the first byte to the last event, with the checkers, the       *)
(* channels, the terminal logs, SFTP, the timeouts and the output that     *)
(* ties every event to its session and writes it to MySQL.  What goes on   *)
(* in a shell is in CowrieShell; here a line is received, and may end it.  *)
(*                                                                         *)
(* Everything but the threads of the database runs in the reactor: an      *)
(* action is one call of it.                                               *)
(***************************************************************************)
EXTENDS CowrieAuth, CowrieSQL, CowrieSFTP, TLC

CONSTANTS
  Conns,       \* the connections
  Setups,      \* how cowrie is run and what its clients do: [mode, plan]
  Garbled,     \* words that are not UTF-8
  Fetching,    \* command lines that start a download and wait for it (wget, curl)
  Tree,        \* the file system a session starts with
  MaxLag,      \* bound: queries the database is behind when a client goes on
  MaxSecond    \* bound: seconds told apart in the names of uploads

ASSUME ServerAssumption == MaxLag \in Nat /\ MaxSecond \in Nat

\* The words a message says
Said(m) ==
  CASE m.op = "info" -> Range(m.words)
    [] m.op \in {"publickey", "password", "line", "request", "data"} -> {m.word}
    [] OTHER -> {}

\* What a client sends, and the words of an answer, are lists.  (What json.dump makes of
\* a word that is not UTF-8 is left out, so where AuthRandom checks there is none.)
ASSUME SetupsAssumption ==
  \A s \in Setups :
    /\ {s.mode.py3, s.mode.mysql, s.mode.sensor, s.mode.ttylog, s.mode.auth_none} \subseteq BOOLEAN
    /\ s.mode.auth_class \in {"UserDB", "AuthRandom"}
    /\ \A c \in Conns :
         /\ s.plan[c].proto \in {"ssh", "telnet"}
         /\ s.plan[c].msgs \in Seq(Range(s.plan[c].msgs))
         /\ \A m \in Range(s.plan[c].msgs) :
              /\ m.op = "info" => m.words \in Seq(Words)
              /\ s.mode.auth_class = "AuthRandom" => Said(m) \intersect Garbled = {}

VARIABLES
  mode,        \* [auth_class, py3, mysql, sensor, ttylog, auth_none]; mysql: that output
               \* is enabled, sensor: its database knows us from an earlier run
  plan,        \* of each connection: [proto, port, ip, echo, msgs]
  todo,        \* what each client still sends
  up,          \* "none", "up", "closing" (loseConnection), "broken" (an
               \* exception while reading), "lost" (connectionLost has run)
  stage,       \* ssh: "version", "kex", "auth", "service"; telnet: "User",
               \* "Password", "Discard", "Command"
  timer,       \* setTimeout of the transport: "none", "auth", "interactive"
  sno,         \* transport.sessionno
  nextno,      \* of each port
  pending,     \* _pamDeferred is set; the telnet password that waits
  channels,    \* of each connection
  uservar,     \* auth_random.json
  out,         \* the output plugin: [sessions, db]
  host, second,
  past         \* history, see NoPast

client == << mode, plan, todo >>
link == << up, stage, timer, sno, nextno, pending >>
files == << host, second >>
vars == << client, link, channels, uservar, out, files, past >>

-----------------------------------------------------------------------------
(* The output plugin *)

\* wrong, missed: connections an event of which went to another session, to none;
\* late: with an event after the end; early: ended before their row was asked for;
\* clash: met another one of the same number
NoPast == [wrong |-> {}, missed |-> {}, late |-> {}, early |-> {}, clash |-> {}]

\* Mutant: the number of the transport alone, as if one server counted for all.
Bug_BareNumber(proto, n) == << n >>

\* output.py emit: the session number of an event, an "S" or a "T" of the protocol
\* and the number of the transport
sessionno(proto, n) == << proto, n >>

Key(c) == sessionno(plan[c].proto, sno[c])

\* The row of the session is there or its INSERT is in the queue.
Asked(db, c) ==
  db.rows[c].there \/ \E i \in DOMAIN db.queue : db.queue[i].op = "INSERT sessions" /\ db.queue[i].id = c

\* The queries of events written for session id
Written(id, events) ==
  runQueries(out.db, IF mode.mysql THEN FlattenSeq([i \in DOMAIN events |-> write(id, events[i])]) ELSE << >>)

\* emit of connect, which adds the session
EmitConnect(c, key) ==
  out' = [sessions |-> [k \in {key} \union DOMAIN out.sessions |-> IF k = key THEN c ELSE out.sessions[k]],
          db |-> Written(c, << "connect" >>)]

\* convert, the first thing emit does with an event that says word: it decodes the
\* bytes, and raises, which the log swallows, when they are not UTF-8.
Converted(event, word) == IF word \in Garbled THEN << >> ELSE << event >>

\* emit, for the other events of one call of connection c that convert has let pass:
\* each looks its session up (a KeyError when it is not there, swallowed by the log).
EmitFor(c, events, sessions) ==
  /\ out' = IF Key(c) \in DOMAIN out.sessions
            THEN [sessions |-> sessions, db |-> Written(out.sessions[Key(c)], events)]
            ELSE out
  /\ LET known == Key(c) \in DOMAIN out.sessions
         mark(set, when) == IF when THEN set \union {c} ELSE set
     IN past' = [past EXCEPT !.missed = mark(@, events # << >> /\ ~known),
                             !.wrong = mark(@, events # << >> /\ known /\ out.sessions[Key(c)] # c),
                             !.late = mark(@, events # << >> /\ up[c] = "lost"),
                             !.early = mark(@, "closed" \in Range(events) /\ ~Asked(out.db, c))]

Emit(c, events) == EmitFor(c, events, out.sessions)

\* closed, the last event, removes the session.
EmitClosed(c, events) ==
  EmitFor(c, Append(events, "closed"),
          [k \in DOMAIN out.sessions \ {Key(c)} |-> out.sessions[k]])

-----------------------------------------------------------------------------
(* Terminal logs: the LoggingServerProtocol of a shell or a command        *)

\* open is ttylogOpen, closes the log.closed events, timer that of the protocol,
\* stdin what an exec's input went to: "no", "open", "written"; fetch: a command of
\* it waits for a download
TerminalLog(exec, fetches) ==
  [open |-> mode.ttylog, closes |-> 0, timer |-> TRUE, stdin |-> IF exec THEN "open" ELSE "no",
   replaced |-> FALSE, fetch |-> fetches]

\* Mutant: ttylogOpen stays TRUE.
Bug_StaysOpen(l) ==
  [l EXCEPT !.closes = @ + (IF l.open THEN 1 ELSE 0), !.timer = FALSE, !.stdin = "no"]

\* connectionLost
LogLost(l) ==
  [l EXCEPT !.open = FALSE, !.closes = @ + (IF l.open THEN 1 ELSE 0), !.timer = FALSE, !.stdin = "no"]

LogEvents(l) ==
  (IF l.stdin = "written" THEN << "file_download" >> ELSE << >>)
    \o (IF l.open THEN << "log.closed" >> ELSE << >>)

\* It is called more than once when a session ends.
LogClosed(l) ==
  [log |-> LogLost(LogLost(l)), events |-> LogEvents(l) \o LogEvents(LogLost(l))]

-----------------------------------------------------------------------------
(* Channels *)

\* there: in conn.channels; sent: we said CLOSE; runs: what was started on it;
\* client: the protocol that data goes to (0: none)
Channel(kind) ==
  [kind |-> kind, there |-> TRUE, sent |-> FALSE, runs |-> "nothing", logs |-> << >>, client |-> 0,
   sftp |-> NoSftp]

\* loseConnection of a channel: CLOSE is said, and closed() waits for the client's.
LoseChannel(ch) == [ch EXCEPT !.sent = TRUE]

\* closed(): the protocol the session has now loses its connection; what an
\* SFTP server has open is closed.  The set of its one outcome.
ChannelClosed(ch, h) ==
  LET log == LogClosed(Last(ch.logs))
      gone == [ch EXCEPT !.there = FALSE]
  IN CASE ch.runs = "terminal" ->
            {[channel |-> [gone EXCEPT !.logs[Len(ch.logs)] = log.log], events |-> log.events, host |-> h]}
       [] ch.runs = "sftp" ->
            {[channel |-> [gone EXCEPT !.sftp = r.s], host |-> r.host,
              events |-> [n \in 1 .. r.uploads |-> "file_upload"]] : r \in CloseAll(ch.sftp, h)}
       [] OTHER -> {[channel |-> gone, events |-> << >>, host |-> h]}

\* serviceStopped: all channels that are left, in order; upto[k] is what may have
\* become of the first k
AllClosed(c) ==
  LET chs == channels[c]
      next(acc, k) ==
        IF chs[k].there
        THEN {[channels |-> [acc.channels EXCEPT ![k] = r.channel], host |-> r.host,
               events |-> acc.events \o r.events] : r \in ChannelClosed(chs[k], acc.host)}
        ELSE {acc}
      upto[k \in 0 .. Len(chs)] ==
        IF k = 0 THEN {[channels |-> chs, host |-> host, events |-> << >>]}
        ELSE UNION {next(acc, k) : acc \in upto[k - 1]}
  IN upto[Len(chs)]

-----------------------------------------------------------------------------
Init ==
  /\ \E s \in Setups : mode = s.mode /\ plan = s.plan
  /\ todo = [c \in Conns |-> plan[c].msgs]
  /\ up = [c \in Conns |-> "none"]
  /\ stage = [c \in Conns |-> "none"]
  /\ timer = [c \in Conns |-> "none"]
  /\ sno = [c \in Conns |-> 0]
  /\ nextno = [p \in {plan[c].port : c \in Conns} |-> 0]
  /\ pending = [c \in Conns |-> << >>]
  /\ channels = [c \in Conns |-> << >>]
  /\ uservar = NoVisitors({plan[c].ip : c \in Conns})
  /\ out = [sessions |-> << >>, db |-> EmptyDb(Conns, mode.sensor)]
  /\ host = NoHost
  /\ second = 0
  /\ past = NoPast

\* connectionMade: each listening port counts its connections from 0.
ConnectionMade(c) ==
  LET key == sessionno(plan[c].proto, nextno[plan[c].port])
      twins == {d \in Conns \ {c} : /\ up[d] \in {"up", "closing", "broken"}
                                    /\ plan[d].proto = plan[c].proto
                                    /\ sno[d] = nextno[plan[c].port]}
  IN /\ up[c] = "none"
     /\ up' = [up EXCEPT ![c] = "up"]
     /\ stage' = [stage EXCEPT ![c] = IF plan[c].proto = "ssh" THEN "version" ELSE "User"]
     /\ timer' = [timer EXCEPT ![c] = "auth"]
     /\ sno' = [sno EXCEPT ![c] = nextno[plan[c].port]]
     /\ nextno' = [nextno EXCEPT ![plan[c].port] = @ + 1]
     /\ EmitConnect(c, key)
     /\ past' = [past EXCEPT !.clash = IF twins = {} THEN @ ELSE @ \union twins \union {c}]
     /\ UNCHANGED << client, pending, channels, uservar, files >>

-----------------------------------------------------------------------------
(* What a client sends *)

\* The next message of c, an op of ops, is read.
Reads(c, ops) ==
  /\ up[c] = "up"
  /\ todo[c] # << >>
  /\ Head(todo[c]).op \in ops
  /\ Len(out.db.queue) + Len(out.db.answers) <= MaxLag
  /\ todo' = [todo EXCEPT ![c] = Tail(@)]
  /\ UNCHANGED << mode, plan >>

Msg(c) == Head(todo[c])

\* dataReceived, the version line.  loseConnection stops the reading.
Version(c) ==
  /\ stage[c] = "version"
  /\ Reads(c, {"version"})
  /\ Emit(c, << "version" >>)
  /\ IF Msg(c).good THEN stage' = [stage EXCEPT ![c] = "kex"] /\ up' = up
     ELSE up' = [up EXCEPT ![c] = "closing"] /\ stage' = stage
  /\ UNCHANGED << timer, sno, nextno, pending, channels, uservar, files >>

\* ssh_KEXINIT, and the exchange up to the user authentication's serviceStarted
KexInit(c) ==
  /\ stage[c] = "kex"
  /\ Reads(c, {"kexinit"})
  /\ Emit(c, << "kex" >>)
  /\ stage' = [stage EXCEPT ![c] = "auth"]
  /\ pending' = [pending EXCEPT ![c] = << >>]
  /\ UNCHANGED << up, timer, sno, nextno, channels, uservar, files >>

\* Mutant: no timeout once the client is in.
Bug_NoTimeout(c) ==
  /\ stage' = [stage EXCEPT ![c] = "service"]
  /\ timer' = [timer EXCEPT ![c] = "none"]

\* setService(ssh-connection)
ServiceSet(c) ==
  /\ stage' = [stage EXCEPT ![c] = "service"]
  /\ timer' = [timer EXCEPT ![c] = "interactive"]

\* The outcomes of answers tried one after the other: cbCheckPamUser stops at
\* the first that is right, an exception ends it.
Tried(c, visitors, answers) ==
  LET event(r, answer) == IF r.result = "raised" THEN << >> ELSE Converted("login." \o r.result, answer)
      next(acc, answer) ==
        IF acc.result # "failed" THEN {acc}
        ELSE {[result |-> r.result, vars |-> r.vars, events |-> acc.events \o event(r, answer)] :
                r \in checkUserPass(mode, acc.vars, plan[c].ip, "root", answer)}
      upto[n \in 0 .. Len(answers)] ==
        IF n = 0 THEN {[result |-> "failed", vars |-> visitors, events |-> << >>]}
        ELSE UNION {next(acc, answers[n]) : acc \in upto[n - 1]}
  IN upto[Len(answers)]

\* auth_none: who comes so is let in when that is enabled.
AuthNone(c) ==
  /\ stage[c] = "auth"
  /\ Reads(c, {"none"})
  /\ IF mode.auth_none THEN ServiceSet(c) ELSE UNCHANGED << stage, timer >>
  /\ UNCHANGED << up, sno, nextno, pending, channels, uservar, out, files, past >>

\* requestAvatarId with a public key: its fingerprint is logged with the name that
\* asks, it never fits.
AuthPublicKey(c) ==
  /\ stage[c] = "auth"
  /\ Reads(c, {"publickey"})
  /\ Emit(c, Converted("fingerprint", Msg(c).word))
  /\ UNCHANGED << up, stage, timer, sno, nextno, pending, channels, uservar, files >>

\* The end of portal.login with a password or with answers
Checked(c, answers) ==
  \E r \in Tried(c, uservar, answers) :
    /\ Emit(c, r.events)
    /\ uservar' = r.vars
    /\ IF r.result = "success" THEN ServiceSet(c) ELSE UNCHANGED << stage, timer >>

AuthPassword(c) ==
  /\ stage[c] = "auth"
  /\ Reads(c, {"password"})
  /\ Checked(c, << Msg(c).word >>)
  /\ UNCHANGED << up, sno, nextno, pending, channels, files >>

\* auth_keyboard_interactive: only one at a time
AuthKeyboard(c) ==
  /\ stage[c] = "auth"
  /\ Reads(c, {"keyboard-interactive"})
  /\ IF pending[c] # << >> THEN up' = [up EXCEPT ![c] = "closing"] /\ pending' = pending
     ELSE pending' = [pending EXCEPT ![c] = << "pam" >>] /\ up' = up
  /\ UNCHANGED << stage, timer, sno, nextno, channels, uservar, out, files, past >>

\* ssh_USERAUTH_INFO_RESPONSE: without a question, None has no callback.
AuthInfo(c) ==
  /\ stage[c] = "auth"
  /\ Reads(c, {"info"})
  /\ pending' = [pending EXCEPT ![c] = << >>]
  /\ IF pending[c] = << >>
     THEN up' = [up EXCEPT ![c] = "broken"] /\ UNCHANGED << stage, timer, uservar, out, past >>
     ELSE up' = up /\ Checked(c, Msg(c).words)
  /\ UNCHANGED << sno, nextno, channels, files >>

\* A message of another stage is answered with UNIMPLEMENTED.
Unimplemented(c) ==
  /\ plan[c].proto = "ssh"
  /\ \/ /\ stage[c] = "service"
        /\ Reads(c, {"none", "publickey", "password", "keyboard-interactive", "info"})
     \/ /\ stage[c] = "auth"
        /\ Reads(c, {"open", "request", "data", "eof", "close", "sftp"})
  /\ UNCHANGED << link, channels, uservar, out, files, past >>

-----------------------------------------------------------------------------
(* The connection service *)

\* CHANNEL_OPEN: a session, or a forward that is logged and thrown away
ChannelOpen(c) ==
  /\ stage[c] = "service"
  /\ Reads(c, {"open"})
  /\ channels' = [channels EXCEPT ![c] = Append(@, Channel(Msg(c).kind))]
  /\ Emit(c, IF Msg(c).kind = "direct-tcpip" THEN << "direct-tcpip.request" >> ELSE << >>)
  /\ UNCHANGED << link, uservar, files >>

\* A message for channel number ch of c; of one that is not there, a KeyError
\* ends the connection.
OnChannel(c, ops) ==
  /\ stage[c] = "service"
  /\ Reads(c, ops)
  /\ Msg(c).ch \in DOMAIN channels[c] /\ channels[c][Msg(c).ch].there

Mine(c) == channels[c][Msg(c).ch]

Becomes(c, ch) == channels' = [channels EXCEPT ![c][Msg(c).ch] = ch]

NoSuchChannel(c) ==
  /\ stage[c] = "service"
  /\ Reads(c, {"request", "data", "eof", "close", "sftp"})
  /\ ~(Msg(c).ch \in DOMAIN channels[c] /\ channels[c][Msg(c).ch].there)
  /\ up' = [up EXCEPT ![c] = "broken"]
  /\ UNCHANGED << stage, timer, sno, nextno, pending, channels, uservar, out, files, past >>

\* openShell and execCommand: the new protocol takes the place of the old one, which
\* nobody tells, before it runs; data goes to it unless it raised.
Started(ch, log, raised) ==
  LET old == [i \in DOMAIN ch.logs |-> [ch.logs[i] EXCEPT !.replaced = TRUE]]
  IN [ch EXCEPT !.runs = "terminal", !.logs = Append(old, log),
                !.client = IF raised THEN @ ELSE Len(ch.logs) + 1]

\* openShell
ShellStarted(ch) == Started(ch, TerminalLog(FALSE, FALSE), FALSE)

\* execCommand runs the line at once, up to its end or to a download.  A line that is
\* not UTF-8 raises before anything is set up; without ttylog the log's own file raises
\* after it ran, and the request is refused.
ExecStarted(ch, line) ==
  LET raised == line \in Garbled \/ ~mode.ttylog
      log == [TerminalLog(TRUE, line \in Fetching \ Garbled) EXCEPT !.timer = line \notin Garbled]
      new == Started(ch, log, raised)
  IN {new} \union {x \in {LoseChannel(new)} : line \notin Fetching \union Garbled}

\* ssh_CHANNEL_REQUEST
ChannelRequest(c) ==
  /\ OnChannel(c, {"request"})
  /\ LET m == Msg(c)
         runs == Mine(c).kind = "session"
     IN CASE runs /\ m.type = "shell" /\ Mine(c).runs # "sftp" ->
               /\ Becomes(c, ShellStarted(Mine(c)))
               /\ Emit(c, << "params" >>)
          [] runs /\ m.type = "exec" /\ Mine(c).runs # "sftp" ->
               /\ \E next \in ExecStarted(Mine(c), m.word) : Becomes(c, next)
               /\ Emit(c, IF m.word \in Garbled THEN << >> ELSE << "params", "input" >>)
          [] runs /\ m.type \in {"pty", "env"} ->
               /\ Emit(c, IF m.type = "pty" THEN << "size" >> ELSE Converted("var", m.word))
               /\ UNCHANGED channels
          [] runs /\ m.type = "sftp" /\ Mine(c).runs = "nothing" ->
               /\ Becomes(c, [Mine(c) EXCEPT !.runs = "sftp", !.sftp = [NoSftp EXCEPT !.tree = Tree]])
               /\ UNCHANGED << out, past >>
          [] OTHER -> UNCHANGED << channels, out, past >>
  /\ UNCHANGED << link, uservar, files >>

\* What eofReceived of protocol l may leave of its channel: a shell is over, a command
\* may go on.
ProtocolEof(ch, l) == {LoseChannel(ch)} \union {x \in {ch} : l.stdin # "no"}

\* eofReceived of a session: that of its protocol; with no session, the channel is
\* lost, with one that has only asked for a terminal it stays.
EofReceived(ch) ==
  CASE ch.runs = "terminal" -> ProtocolEof(ch, Last(ch.logs))
    [] ch.runs = "nothing"  -> {ch, LoseChannel(ch)}
    [] ch.runs = "sftp"     -> {LoseChannel(ch)}

\* dataReceived of the protocol that data goes to: past the limit it is an end of file,
\* what a command reads is kept, a line of a shell may end it or start a download.
\* Until that has ended, lines wait.
ProtocolData(c, ch, i) ==
  LET l == ch.logs[i]
  IN \/ UploadLimit # 0 /\ (\E next \in ProtocolEof(ch, l) : Becomes(c, next)) /\ UNCHANGED << out, past >>
     \/ /\ l.stdin # "no"
        /\ Becomes(c, [ch EXCEPT !.logs[i].stdin = "written"])
        /\ UNCHANGED << out, past >>
     \/ /\ l.stdin = "no" /\ l.fetch /\ Msg(c).word \notin Garbled
        /\ UNCHANGED << channels, out, past >>
     \/ /\ l.stdin = "no" /\ ~l.fetch /\ Msg(c).word \notin Garbled
        /\ \E next \in IF Msg(c).word \in Fetching THEN {[ch EXCEPT !.logs[i].fetch = TRUE]}
                       ELSE {ch, LoseChannel(ch)} : Becomes(c, next)
        /\ Emit(c, << "input" >>)

\* dataReceived of a channel: data for a forward is logged and the forward closed.
ChannelData(c) ==
  /\ OnChannel(c, {"data"})
  /\ LET ch == Mine(c)
     IN IF ch.kind = "direct-tcpip"
        THEN Becomes(c, LoseChannel(ch)) /\ Emit(c, << "direct-tcpip.data" >>)
        ELSE IF ch.client # 0 THEN ProtocolData(c, ch, ch.client)
             ELSE UNCHANGED << channels, out, past >>
  /\ UNCHANGED << link, uservar, files >>

\* ssh_CHANNEL_EOF: it means something to a session only.
ChannelEof(c) ==
  /\ OnChannel(c, {"eof"})
  /\ LET ch == Mine(c)
     IN \E next \in (IF ch.kind = "session" THEN EofReceived(ch) ELSE {ch}) : Becomes(c, next)
  /\ UNCHANGED << link, uservar, out, files, past >>

\* ssh_CHANNEL_CLOSE: with ours said, now or before, the channel is closed.
ChannelClose(c) ==
  /\ OnChannel(c, {"close"})
  /\ \E r \in ChannelClosed(LoseChannel(Mine(c)), host) :
       /\ Becomes(c, r.channel)
       /\ host' = r.host
       /\ Emit(c, r.events)
  /\ UNCHANGED << link, uservar, second >>

\* A request of SFTP.  The clock may have gone on since the last one.
Sftp(c) ==
  /\ OnChannel(c, {"sftp"})
  /\ Mine(c).runs = "sftp"
  /\ second' \in {second} \union (IF Msg(c).do = "open" THEN {second + 1} \intersect (0 .. MaxSecond) ELSE {})
  /\ \E r \in {Request(Mine(c).sftp, host, Msg(c), second')} :
       /\ Becomes(c, [Mine(c) EXCEPT !.sftp = r.s])
       /\ host' = r.host
       /\ Emit(c, IF r.uploaded THEN << "file_upload" >> ELSE << >>)
  /\ UNCHANGED << link, uservar >>

-----------------------------------------------------------------------------
(* Telnet *)

\* What a login leaves: [events, success, channel], for each way it may go
TelnetLogins(c) ==
  {[r |-> r,
    in |-> r.result = "success",
    events |-> r.events \o (IF r.result = "success" THEN << "params" >> ELSE << >>)] :
     r \in Tried(c, uservar, IF pending[c] = << >> THEN << Msg(c).word >> ELSE pending[c])}

\* Mutant: the transport does not keep the session it starts.
Bug_NotKept == [ShellStarted(Channel("telnet")) EXCEPT !.runs = "nothing"]

TelnetSession == ShellStarted(Channel("telnet"))

\* portal.login, _cbLogin and _ebLogin
Login(c) ==
  /\ \E l \in TelnetLogins(c) :
       /\ Emit(c, l.events)
       /\ uservar' = l.r.vars
       /\ stage' = [stage EXCEPT ![c] = IF l.in THEN "Command" ELSE "User"]
       /\ timer' = [timer EXCEPT ![c] = IF l.in THEN "interactive" ELSE @]
       /\ channels' = [channels EXCEPT ![c] = IF l.in THEN << TelnetSession >> ELSE @]
  /\ UNCHANGED << up, sno, nextno, files >>

\* telnet_User
TelnetUser(c) ==
  /\ stage[c] = "User"
  /\ Reads(c, {"line"})
  /\ stage' = [stage EXCEPT ![c] = "Password"]
  /\ UNCHANGED << up, timer, sno, nextno, pending, channels, uservar, out, files, past >>

\* telnet_Password: a client that has let the server echo must answer WONT ECHO
\* first; until then its lines are discarded.
TelnetPassword(c) ==
  /\ stage[c] = "Password"
  /\ Reads(c, {"line"})
  /\ IF plan[c].echo
     THEN /\ pending' = [pending EXCEPT ![c] = << Msg(c).word >>]
          /\ stage' = [stage EXCEPT ![c] = "Discard"]
          /\ UNCHANGED << up, timer, sno, nextno, channels, uservar, out, files, past >>
     ELSE pending' = pending /\ Login(c)

TelnetDiscard(c) ==
  /\ stage[c] = "Discard"
  /\ Reads(c, {"line"})
  /\ UNCHANGED << link, channels, uservar, out, files, past >>

\* DONT ECHO: login is called; an answer nobody waits for changes nothing.
TelnetAck(c) ==
  /\ plan[c].proto = "telnet"
  /\ Reads(c, {"ack"})
  /\ IF pending[c] = << >> THEN UNCHANGED << link, channels, uservar, out, files, past >>
     ELSE pending' = [pending EXCEPT ![c] = << >>] /\ Login(c)

\* A line for the shell of the session, which it may end, or start a download
TelnetLine(c) ==
  /\ stage[c] = "Command"
  /\ Reads(c, {"line"})
  /\ Msg(c).word \notin Garbled
  /\ IF channels[c][1].logs[1].fetch THEN UNCHANGED << up, channels, out, past >>
     ELSE /\ Emit(c, << "input" >>)
          /\ \E ends \in BOOLEAN :
               /\ ends => Msg(c).word \notin Fetching
               /\ up' = [up EXCEPT ![c] = IF ends THEN "closing" ELSE @]
          /\ channels' = IF Msg(c).word \in Fetching THEN [channels EXCEPT ![c][1].logs[1].fetch = TRUE]
                         ELSE channels
  /\ UNCHANGED << stage, timer, sno, nextno, pending, uservar, files >>

-----------------------------------------------------------------------------
(* What a shell's lines and downloads may raise *)

\* lineReceived of a shell decodes the line first: one that is not UTF-8 raises, and
\* that ends the connection.
Undecodable(c) ==
  /\ \/ stage[c] = "Command" /\ Reads(c, {"line"})
     \/ OnChannel(c, {"data"}) /\ Mine(c).client # 0 /\ Mine(c).logs[Mine(c).client].stdin = "no"
  /\ Msg(c).word \in Garbled
  /\ up' = [up EXCEPT ![c] = "broken"]
  /\ UNCHANGED << stage, timer, sno, nextno, pending, channels, uservar, out, files, past >>

\* A download has ended, and with its command maybe the shell.  Its event carries the
\* number of the connection: logDispatch finds that by way of the terminal, and raises
\* when the protocol has lost it, so that the event is thrown away.
Downloaded(c) ==
  \E k \in DOMAIN channels[c] : \E i \in DOMAIN channels[c][k].logs :
    LET ch == channels[c][k]
        next == [ch EXCEPT !.logs[i].fetch = FALSE]
        terminal == up[c] \in {"up", "closing", "broken"} /\ (ch.there \/ ch.logs[i].replaced)
    IN /\ ch.logs[i].fetch
       /\ IF terminal
          THEN /\ Emit(c, << "file_download" >>)
               /\ \E ends \in BOOLEAN :
                    /\ channels' = [channels EXCEPT ![c][k] = IF ends /\ ch.there THEN LoseChannel(next) ELSE next]
                    /\ up' = [up EXCEPT ![c] = IF ends /\ plan[c].proto = "telnet" /\ @ = "up" THEN "closing"
                                                ELSE @]
          ELSE channels' = [channels EXCEPT ![c][k] = next] /\ UNCHANGED << up, out, past >>
       /\ UNCHANGED << client, stage, timer, sno, nextno, pending, uservar, files >>

-----------------------------------------------------------------------------
(* Timeouts and the end *)

\* timeoutConnection of the transport.  A login inside connectionLost has set it
\* on a connection that is gone.
TransportTimeout(c) ==
  /\ timer[c] # "none"
  /\ timer' = [timer EXCEPT ![c] = "none"]
  /\ up' = [up EXCEPT ![c] = IF @ = "up" THEN "closing" ELSE @]
  /\ UNCHANGED << client, stage, sno, nextno, pending, channels, uservar, out, files, past >>

\* timeoutConnection of a shell or a command, also of one that was replaced:
\* processEnded loses its channel, for telnet the connection.
ShellTimeout(c) ==
  \E k \in DOMAIN channels[c] : \E i \in DOMAIN channels[c][k].logs :
    LET ch == [channels[c][k] EXCEPT !.logs[i].timer = FALSE]
    IN /\ channels[c][k].logs[i].timer
       /\ channels' = [channels EXCEPT ![c][k] = IF ch.there THEN LoseChannel(ch) ELSE ch]
       /\ up' = [up EXCEPT ![c] = IF plan[c].proto = "telnet" /\ @ = "up" THEN "closing" ELSE @]
       /\ UNCHANGED << client, stage, timer, sno, nextno, pending, uservar, out, files, past >>

\* connectionLost of the SSH transport, and of a telnet one that waits for
\* nothing: timers, then the channels, then the event.
LosesConnection(c) ==
  /\ plan[c].proto = "ssh" \/ pending[c] = << >>
  /\ up' = [up EXCEPT ![c] = "lost"]
  /\ timer' = [timer EXCEPT ![c] = "none"]
  /\ \E r \in AllClosed(c) :
       /\ channels' = [channels EXCEPT ![c] = r.channels]
       /\ host' = r.host
       /\ EmitClosed(c, r.events)
  /\ UNCHANGED << client, stage, sno, nextno, pending, uservar, second >>

\* connectionLost of a telnet transport whose client never answered WONT ECHO:
\* the negotiation fails, so the login is made, and its session lost at once.
LosesWaiting(c) ==
  /\ plan[c].proto = "telnet" /\ pending[c] # << >>
  /\ up' = [up EXCEPT ![c] = "lost"]
  /\ pending' = [pending EXCEPT ![c] = << >>]
  /\ \E l \in TelnetLogins(c), r \in ChannelClosed(TelnetSession, host) :
       /\ uservar' = l.r.vars
       /\ stage' = [stage EXCEPT ![c] = IF l.in THEN "Command" ELSE "User"]
       /\ timer' = [timer EXCEPT ![c] = IF l.in THEN "interactive" ELSE "none"]
       /\ channels' = [channels EXCEPT ![c] = IF l.in THEN << r.channel >> ELSE @]
       /\ EmitClosed(c, l.events \o (IF l.in THEN r.events ELSE << >>))
  /\ UNCHANGED << client, sno, nextno, files >>

\* The client goes away.
HangUp(c) == up[c] = "up" /\ (LosesConnection(c) \/ LosesWaiting(c))

\* The server has closed, or dropped it because of an exception.
Lost(c) == up[c] \in {"closing", "broken"} /\ (LosesConnection(c) \/ LosesWaiting(c))

-----------------------------------------------------------------------------
(* The database *)

\* A thread runs a query.
QueryRuns ==
  /\ \E i \in Runnable(out.db) : out' = [out EXCEPT !.db = Ran(@, i)]
  /\ UNCHANGED << client, link, channels, uservar, files, past >>

\* The reactor gets an answer.
AnswerArrives ==
  /\ out.db.answers # << >>
  /\ out' = [out EXCEPT !.db = Resumed(@)]
  /\ UNCHANGED << client, link, channels, uservar, files, past >>

-----------------------------------------------------------------------------
SshMessage(c) ==
  \/ Version(c) \/ KexInit(c) \/ AuthNone(c) \/ AuthPublicKey(c) \/ AuthPassword(c) \/ AuthKeyboard(c)
  \/ AuthInfo(c) \/ Unimplemented(c) \/ ChannelOpen(c) \/ NoSuchChannel(c)
  \/ ChannelRequest(c) \/ ChannelData(c) \/ ChannelEof(c) \/ ChannelClose(c) \/ Sftp(c)

TelnetMessage(c) ==
  TelnetUser(c) \/ TelnetPassword(c) \/ TelnetDiscard(c) \/ TelnetAck(c) \/ TelnetLine(c)

Next ==
  \/ \E c \in Conns :
       ConnectionMade(c) \/ SshMessage(c) \/ TelnetMessage(c) \/ TransportTimeout(c)
         \/ Undecodable(c) \/ Downloaded(c) \/ ShellTimeout(c) \/ HangUp(c) \/ Lost(c)
  \/ QueryRuns \/ AnswerArrives

\* Timers go off, and a connection that is closed ends.
Fairness == \A c \in Conns : WF_vars(TransportTimeout(c)) /\ WF_vars(Lost(c))

Spec == Init /\ [][Next]_vars /\ Fairness

-----------------------------------------------------------------------------
(* Properties *)

TypeOK ==
  /\ up \in [Conns -> {"none", "up", "closing", "broken", "lost"}]
  /\ stage \in [Conns -> {"none", "version", "kex", "auth", "service",
                          "User", "Password", "Discard", "Command"}]
  /\ timer \in [Conns -> {"none", "auth", "interactive"}]
  /\ second \in 0 .. MaxSecond
  /\ Range(out.sessions) \subseteq Conns
  /\ \A c \in Conns :
       /\ up[c] = "none" <=> stage[c] = "none"
       /\ channels[c] # << >> => stage[c] \in {"service", "Command"}
       /\ \A k \in DOMAIN channels[c] :
            (channels[c][k].runs = "terminal") <=> (channels[c][k].logs # << >>)

\* output.py ties events to sessions by a number: an event of a connection that gets
\* to the look-up finds a session, and its own, unless connections had one number at
\* one time, which only those of two ports of a protocol may.  (Three kinds of event do
\* not get that far, and are lost: one with bytes that are not UTF-8, see Converted;
\* that of a download whose terminal is gone, see Downloaded; and what a shell logs with
\* log.msg when a timer or a download lets it go on, which carries no number at all.)
EventsAttributed ==
  /\ past.wrong \union past.missed \subseteq past.clash
  /\ \A c \in past.clash : \E d \in Conns : plan[d].proto = plan[c].proto /\ plan[d].port # plan[c].port

\* insults.py: when a connection has ended, each of its terminal logs was closed,
\* once, however often connectionLost was called and whoever ended it, except a
\* log whose protocol another one replaced; and no event of it came afterwards.
LogsClosed ==
  /\ past.late = {}
  /\ \A c \in Conns : \A k \in DOMAIN channels[c] :
       \A i \in DOMAIN channels[c][k].logs :
         LET l == channels[c][k].logs[i]
         IN /\ l.closes <= 1
            /\ up[c] = "lost" /\ mode.ttylog => (l.closes = 1 <=> ~l.replaced)

\* mysql.py: when the database has caught up, the row of a session that is over
\* says so, unless the session was over before its row was asked for.
EndtimeKept ==
  mode.mysql /\ out.db.queue = << >> /\ out.db.answers = << >> =>
    \A c \in Conns \ (past.early \union past.clash) :
      up[c] = "lost" => out.db.rows[c].there /\ out.db.rows[c].ended

\* filetransfer.py: what was uploaded stays on the host under its hash once its
\* handle is closed, unless another upload of the same second had the same path (also
\* one refused when the file was emptied already), or that happened to the file which
\* was filed under the hash before.
UploadsKept ==
  LET servers == UNION {{c} \X DOMAIN channels[c] : c \in Conns}
      server(x) == channels[x[1]][x[2]].sftp
      handles == UNION {{x} \X DOMAIN server(x).handles : x \in servers}
      at(x) == server(x[1]).handles[x[2]]
      alone(fd) ==
        \A x \in handles : at(x).fd = fd =>
          /\ \A y \in handles : at(y).name = at(x).name => x = y
          /\ \A y \in servers : at(x).name \notin server(y).leaked
  IN \A x \in handles :
       LET sha == Sha(at(x).wrote)
       IN at(x).state # "open" /\ at(x).wrote # "" /\ alone(at(x).fd)
            => /\ sha \in DOMAIN host.names
               /\ alone(host.names[sha]) => Contents(host, sha) = at(x).wrote

\* timeoutConnection: "Make sure all sessions time out eventually."
AllEnd == \A c \in Conns : up[c] \in {"up", "closing", "broken"} ~> up[c] = "lost"
=============================================================================
