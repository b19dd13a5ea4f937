--------------------------- MODULE MCCowrieServer ---------------------------
(* How cowrie is run, and what clients do, in the checked instance *)
EXTENDS CowrieServer

MCWords == {"root", "x", "y", "z", "latin1"}
\* root:x:!x, root:x:/y|z/, *:x:y
MCUserdb ==
  << [login |-> {"root"}, bang |-> TRUE, password |-> {"x"}, text |-> "!x"],
     [login |-> {"root"}, bang |-> FALSE, password |-> {"y", "z"}, text |-> "/y|z/"],
     [login |-> MCWords, bang |-> FALSE, password |-> {"y"}, text |-> "y"] >>

\* /d and /f
MCTree ==
  [node |-> << [Entry("", "dir", << >>, NoFile, 1) EXCEPT !.contents = << 2, 3 >>],
               Entry("d", "dir", << >>, NoFile, 2), Entry("f", "file", << >>, NoFile, 3) >>,
   newcount |-> 0]

Mode(class, py3, mysql, sensor, ttylog) ==
  [auth_class |-> class, py3 |-> py3, mysql |-> mysql, sensor |-> sensor, ttylog |-> ttylog,
   auth_none |-> ~ttylog]
Normal == Mode("UserDB", TRUE, FALSE, TRUE, TRUE)
Bare == Mode("UserDB", FALSE, FALSE, TRUE, FALSE)
Random == Mode("AuthRandom", FALSE, FALSE, TRUE, TRUE)
Random3 == Mode("AuthRandom", TRUE, FALSE, TRUE, TRUE)
Logged == Mode("UserDB", TRUE, TRUE, TRUE, TRUE)
FirstRun == Mode("UserDB", TRUE, TRUE, FALSE, TRUE)

Op(op) == [op |-> op]
Version_(good) == [op |-> "version", good |-> good]
Password(w) == [op |-> "password", word |-> w]
Info(ws) == [op |-> "info", words |-> ws]
Keyboard == Op("keyboard-interactive")
Open(kind) == [op |-> "open", kind |-> kind]
Ask(ch, type) == [op |-> "request", ch |-> ch, type |-> type, word |-> "ls"]
Say(ask, w) == [ask EXCEPT !.word = w]
Data(ch, w) == [op |-> "data", ch |-> ch, word |-> w]
PublicKey(user) == [op |-> "publickey", word |-> user]
On(op, ch) == [op |-> op, ch |-> ch]
L(w) == [op |-> "line", word |-> w]

\* SFTP requests on the first channel
Create(p) == [op |-> "sftp", ch |-> 1, do |-> "open", path |-> << p >>, flags |-> {"write", "creat", "trunc"}]
Excl(p) == [op |-> "sftp", ch |-> 1, do |-> "open", path |-> << p >>, flags |-> {"write", "creat", "excl"}]
Fetch(p) == [op |-> "sftp", ch |-> 1, do |-> "open", path |-> << p >>, flags |-> {"read"}]
Put(h, data) == [op |-> "sftp", ch |-> 1, do |-> "write", h |-> h, data |-> data]
End(h) == [op |-> "sftp", ch |-> 1, do |-> "close", h |-> h]
Name(do, p, q) == [op |-> "sftp", ch |-> 1, do |-> do, path |-> << p >>, to |-> << q >>]

Client(proto, port, ip, echo, msgs) ==
  [proto |-> proto, port |-> port, ip |-> ip, echo |-> echo, msgs |-> msgs]
Ssh(msgs) == Client("ssh", "2222", "a", FALSE, << Version_(TRUE), Op("kexinit") >> \o msgs)
In(msgs) == Ssh(<< Password("y") >> \o msgs)
At(port, cl) == [cl EXCEPT !.port = port]
Telnet(echo, msgs) == Client("telnet", "2223", "a", echo, msgs)
Files(msgs) == In(<< Open("session"), Ask(1, "sftp") >> \o msgs)
Scan == Client("ssh", "2222", "b", FALSE, << Version_(FALSE) >>)
Silent == Client("telnet", "2223", "b", FALSE, << >>)

Shell == In(<< Open("session"), Ask(1, "pty"), Ask(1, "shell"), Data(1, "ls"), On("close", 1) >>)
Terminal == In(<< Open("session"), Ask(1, "pty") >>)
Twice == In(<< Open("session"), Ask(1, "shell"), Ask(1, "exec"), On("eof", 1), On("close", 1), Data(1, "ls") >>)
Command == In(<< Open("session"), Ask(1, "exec"), Data(1, "ls"), On("eof", 1), On("close", 1) >>)
Forward == In(<< Open("direct-tcpip"), Data(1, "ls"), Open("session"), On("eof", 2), On("close", 2) >>)
Pam == Ssh(<< PublicKey("root"), Keyboard, Info(<< "x", "root" >>), Keyboard, Info(<< "root", "z" >>), Open("session") >>)
PamTwice == Ssh(<< Op("none"), Keyboard, Keyboard >>)
PamNone == Ssh(<< Password("root"), Info(<< "y" >>) >>)
Late == In(<< Password("y"), Open("session"), Ask(1, "shell") >>)
Anyone == Ssh(<< Op("none"), Open("session"), Ask(1, "exec"), Ask(1, "shell"), Data(1, "ls"), On("close", 1) >>)
Upload == Files(<< Create("g"), Put(1, "p"), End(1), On("close", 1) >>)
Upload2 == Files(<< Create("g"), Create("h"), Put(1, "p"), Put(2, "q"), Create("g"), Put(3, "q"), End(1), On("close", 1) >>)
Tamper == Files(<< Create("g"), Put(1, "q"), Name("remove", "g", "g"), Create("f"), Put(2, "p"),
                   Name("rename", "f", "g"), End(1), Excl("d"), Fetch("g"), Put(3, "p"), End(2) >>)
Dirs == Files(<< Name("mkdir", "e", "e"), Name("rmdir", "d", "d"), Name("rmdir", "f", "f"), Fetch("e"), End(4) >>)
\* The tree is full when the file is opened for the second time.
Full == Files([i \in 1 .. 3 |-> Name("mkdir", <<"a", "b", "c">>[i], "")]
                \o << Create("g"), Put(1, "p"), Name("remove", "g", "g"), Create("g"), End(1) >>)
Lines == Telnet(TRUE, << L("root"), L("x"), L("y"), Op("ack"), L("root"), L("root"), Op("ack"), Op("ack") >>)
Bot == Telnet(FALSE, << L("root"), L("root"), L("root"), L("y"), L("x"), L("x") >>)
Wget == In(<< Open("session"), Say(Ask(1, "exec"), "wget"), Data(1, "x"), On("eof", 1), On("close", 1) >>)
WgetTwice == In(<< Open("session"), Ask(1, "shell"), Data(1, "wget"), Data(1, "ls"), Say(Ask(1, "exec"), "wget"),
                   On("close", 1) >>)
Mistyped == In(<< Open("session"), Ask(1, "pty"), Ask(1, "shell"), Data(1, "wget"), Data(1, "latin1") >>)
Latin == Ssh(<< PublicKey("latin1"), Password("latin1"), Keyboard, Info(<< "latin1", "y" >>), Open("session"),
               Say(Ask(1, "env"), "latin1"), Ask(1, "env"), Ask(1, "shell"), Say(Ask(1, "exec"), "latin1"),
               Data(1, "ls"), On("eof", 1), On("close", 1) >>)
WgetTelnet == Telnet(FALSE, << L("root"), L("latin1"), L("root"), L("y"), L("wget"), L("ls"), L("latin1") >>)
Guess(ws) == Ssh([i \in DOMAIN ws |-> Password(ws[i])])

Setup(m, a, b) == [mode |-> m, plan |-> << a, b >>]
Clients == {Shell, Twice, Command, Forward, Pam, PamTwice, PamNone, Late, Anyone, Upload, Upload2, Tamper,
            Full, Dirs, Lines, Bot, Scan, Silent, Wget, WgetTwice, Mistyped, Latin, WgetTelnet}
Guesses == {Guess(<< "x", "x", "y", "z" >>), Telnet(FALSE, << L("root"), L("y"), L("root"), L("x") >>), Bot}

\* Each client beside one that is turned away, those that share something (a session
\* number, the download directory, the visitors) beside each other; with MySQL the
\* shorter ones, whose queries tell enough.
MCSetups ==
  {Setup(Normal, a, Scan) : a \in Clients}
    \union {Setup(Normal, a, b) : a \in {Command, Late, PamTwice}, b \in {Forward, Lines}}
    \union {Setup(Normal, a, Upload) : a \in {Upload, Upload2, Tamper}}
    \union {Setup(Normal, At("2022", Shell), b) : b \in {Command, Scan}}
    \union {Setup(Bare, a, Bot) : a \in {Anyone, Command, Pam, Wget, WgetTwice}}
    \union {Setup(Random, a, b) : a \in Guesses, b \in Guesses}
    \union {Setup(Random3, a, b) : a \in Guesses, b \in {Bot}}
    \union {Setup(Logged, Terminal, Silent), Setup(FirstRun, Guess(<< "y" >>), Scan)}
=============================================================================
