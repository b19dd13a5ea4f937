-------------------------- MODULE MCCowrieShell --------------------------
(* What clients do in the checked instance of CowrieShell *)
EXTENDS CowrieShell

At(p) == [abs |-> TRUE, pieces |-> p]
\* /d, /f with a file of the honeypot behind it, /l -> /d
MCTree ==
  [node |-> << [Entry("", "dir", << >>, NoFile, 1) EXCEPT !.contents = << 2, 3, 4 >>],
               Entry("d", "dir", << >>, NoFile, 2),
               Entry("f", "file", << >>, << "honeyfs" >>, 3),
               Entry("l", "link", << "d" >>, NoFile, 4) >>,
   newcount |-> 0]
MCHome == << >>

\* A stage: the command and what it is given
On(cmd, src, dst) == [ExitStage EXCEPT !.cmd = cmd, !.c.src = At(src), !.c.dst = At(dst)]
C(cmd) == On(cmd, << "f" >>, << "d", "g" >>)
To(cmd, redir, path) == [C(cmd) EXCEPT !.redir = redir, !.to = At(path)]
With(cmd, app) == [C(cmd) EXCEPT !.app = app]
Sh(sub) == [C("sh") EXCEPT !.sub = sub]

Line(items) == [items |-> items, unclosed |-> FALSE]
One(stage) == Line(<< << stage >> >>)
Script(exec, lines, signals) == [exec |-> exec, lines |-> lines, signals |-> signals]

Plain == DOMAIN commands \ {"sh", "sudo", "busybox"}

\* Every command by itself, typed and as the one line of an exec session
Alone == {Script(e, << One(C(cmd)) >>, 1) : e \in BOOLEAN, cmd \in Plain}

\* Dialogues, and lines typed at a command that is still there
Dialogues == {Script(FALSE, << One(C(cmd)), One(C("pwd")), One(C("pwd")) >>, 0) :
                cmd \in {"passwd", "ssh", "adduser", "yum", "php", "sleep", "scp", "wget"}}

\* Items and pipes
Ls == C("pwd")
Pipes ==
  {Line(<< << Ls, C("grep") >> >>), Line(<< << Ls, C("head"), C("cat") >> >>),
   Line(<< << C("history"), C("cat") >>, << Ls >> >>),
   Line(<< << C("unknown"), Ls >> >>), Line(<< << Ls, C("unknown"), C("cat") >>, << Ls >> >>),
   Line(<< << Ls, C("") >>, << Ls >> >>), Line(<< << >>, << Ls >> >>),
   [items |-> << << Ls >> >>, unclosed |-> TRUE], Line(<< >>),
   Line(<< << C("yes"), C("php") >> >>), Line(<< << C("sleep"), C("cat") >>, << Ls >> >>),
   Line(<< << With("sudo", "id") >> >>), Line(<< << With("sudo", "id"), C("cat") >>, << Ls >> >>),
   Line(<< << With("busybox", "id"), C("cat") >> >>), Line(<< << Ls, With("busybox", "cat") >> >>),
   Line(<< << Ls, With("sudo", "cat") >> >>),
   Line(<< << Sh(<< << Ls, C("cat") >>, << Ls >> >>) >> >>), Line(<< << Sh(<< << C("sleep") >> >>) >> >>),
   Line(<< << Sh(<< << C("unknown") >> >>) >>, << Ls >> >>), Line(<< << Ls, Sh(<< >>) >> >>),
   Line(<< << Sh(<< << Ls >> >>), C("cat") >> >>), Line(<< << Sh(<< << Ls, C("python") >> >>) >>, << Ls >> >>),
   Line(<< << Sh(<< << Ls, C("python"), C("python") >> >>) >> >>),
   Line(<< << C("aptget"), Sh(<< << To("pwd", "nowhere", << >>) >> >>) >> >>),
   Line(<< << C("aptget"), To("pwd", "nowhere", << >>) >> >>)}

\* Commands of each kind into every command, and one more item
Firsts == {"pwd", "history", "yes", "sleep", "dd", "wget", "passwd", "exit", "aptget", "php"}
Pairs == {Script(FALSE, << Line(<< << C(a), C(b) >>, << Ls >> >>) >>, 0) : a \in Firsts, b \in Plain}

Piped == {Script(e, << l >>, 0) : e \in BOOLEAN, l \in Pipes}

\* A line that comes while a command waits
Queues == {Script(FALSE, << One(C("sleep")), l >>, 0) :
             l \in {Line(<< << Ls, C("cat") >>, << C("id"), C("cat") >> >>), Line(<< >>),
                    Line(<< << >>, << Ls, C("cat") >> >>), Line(<< << Ls >>, << >> >>),
                    [items |-> << << Ls >> >>, unclosed |-> TRUE]}}

\* Redirections, and downloads that are appended to
Redirs ==
  {Script(FALSE, << One(To(cmd, r, p)), One(To("pwd", q, p)) >>, 0) :
     cmd \in {"pwd", "history"}, r \in {">", ">>"}, q \in {">", ">>"},
     p \in {<< "d", "o" >>, << "f" >>}}
  \cup {Script(FALSE, << One(C(cmd)), One(To("history", ">>", << "d", "g" >>)) >>, 0) :
          cmd \in {"wget", "curl", "ftpget"}}
  \cup {Script(FALSE, << One(To("pwd", "nowhere", << >>)) >>, 0),
        Script(FALSE, << One(To("curl", ">", << "d", "g" >>)) >>, 0),
        Script(FALSE, << One(To("pwd", ">", << "x", "o" >>)) >>, 0),
        Script(FALSE, << Line(<< << To("pwd", ">", << "x", "o" >>), C("cat") >> >>) >>, 0)}

\* A page fetched twice, the second time to the end of the file of the first
MCAgain ==
  {Script(FALSE, << One(C(cmd)), One(To("curl", ">>", << "d", "g" >>)) >>, 0) : cmd \in {"wget", "ftpget"}}

\* What an exec session sends after its line, and a download over what was captured
Inputs ==
  {Script(TRUE, << One(s), One(Ls), One(Ls) >>, 1) :
     s \in {C("scp"), C("cat"), C("sleep"), To("history", ">", << "d", "g" >>)}}
  \cup {Script(FALSE, << One(To("history", ">", << "d", "g" >>)), One(To("curl", ">>", << "d", "g" >>)) >>, 0)}

\* Commands of commands/fs.py one after the other
Files == {"rm", "cp", "mv", "mkdir", "rmdir", "touch", "nohup", "tar", "cd"}
Targets == {<< << "f" >>, << "d" >> >>, << << "d" >>, << "e" >> >>, << << "d" >>, << "d" >> >>,
            << << "l", "x" >>, << "f" >> >>}
OnFiles ==
  {Script(FALSE, << One([On(a, t[1], t[2]) EXCEPT !.c.recursive = TRUE]), One(On(b, u[1], u[2])) >>, 0) :
     a \in Files, b \in Files, t \in Targets, u \in Targets}
  \cup
  {Script(FALSE, << One(On("cp", t[1], t[2])), One(On("mv", u[1], u[2])), One(On(b, v[1], v[2])) >>, 0) :
     b \in {"mv", "rmdir"},
     t, u, v \in {<< << "f" >>, << "d" >> >>, << << "f" >>, << "g" >> >>, << << "g" >>, << "f" >> >>,
                  << << "d", "f" >>, << >> >>, << << "d" >>, << "l" >> >>}}

MCScripts ==
  Alone \cup Pairs \cup Dialogues \cup Piped \cup Queues \cup Redirs \cup MCAgain \cup Inputs \cup OnFiles

\* The stages of their lines, and of the lines given to sh
StagesOf(items) == UNION {Range(item) : item \in Range(items)}
MCStages ==
  LET typed_ == UNION {UNION {StagesOf(l.items) : l \in Range(x.lines)} : x \in MCScripts}
  IN typed_ \cup UNION {StagesOf(s.sub) : s \in typed_}
=============================================================================
