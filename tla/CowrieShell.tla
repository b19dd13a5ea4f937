---------------------------- MODULE CowrieShell ----------------------------
(***************************************************************************)
(* One session with cowrie's shell: shell/honeypot.py (the shell and the   *)
(* pipes between commands), shell/command.py, shell/protocol.py and the    *)
(* logging terminal of insults/insults.py.                                 *)
(*                                                                         *)
(* There is one thread.  A command is started by a method call inside the  *)
(* call that read the line, a pipe starts the next command inside the      *)
(* first one's write, and leaving a command runs the rest of the line      *)
(* inside its exit: the calls in progress are `todo', the sequence of what *)
(* is left to do of each, innermost first.  An action that finds todo      *)
(* empty is an event of the reactor: input, a timer, the end of a          *)
(* connection; every other one takes the first step of todo.               *)
(*                                                                         *)
(* A line is the sequence of its items, separated by ";"; an item is the   *)
(* sequence of its stages, separated by "|" (empty: only assignments).     *)
(* What a file of the download directory holds is the sequence of what was *)
(* written to it; the log of a session's terminal (ttylog) is not there.   *)
(***************************************************************************)
EXTENDS CowrieFS, CowrieCommands

CONSTANTS Scripts,     \* what a client does: [exec, lines, signals]
          Stages,      \* the commands of its lines: [cmd, redir, to, app, sub, c]
          Payloads,    \* what a download brings
          Tree,        \* the file system a session starts with
          Home,        \* its current directory
          MaxTicks,    \* bound: timers that go off in a session
          MaxObjs      \* bound: commands a timer may find when it goes off

\* A command may have another for an argument (app: sudo, busybox) or a line (sub: sh).
Paths == [abs : BOOLEAN, pieces : Seq(STRING)]
Items == Seq(Seq(Stages))
StageType ==
  [cmd : STRING, redir : {"", ">", ">>", "nowhere"}, to : Paths, app : DOMAIN commands, sub : Items,
   c : [src : Paths, dst : Paths, recursive : BOOLEAN]]
Lines == [items : Items, unclosed : BOOLEAN]
ScriptType == [exec : BOOLEAN, lines : Seq(Lines), signals : Nat]

ASSUME ScriptsAssumption ==
  /\ Stages \subseteq StageType /\ MaxTicks \in Nat
  /\ Scripts \subseteq ScriptType /\ \A x \in Scripts : x.exec => x.lines # << >>

VARIABLES
  script,      \* what the client still has to send
  link,        \* "up", "ended" (processEnded), "broken" (an exception while
               \* reading), "gone" (connectionLost)
  todo,        \* the calls in progress: [who, op]
  reading,     \* they began with input from the client
  typed,       \* its last line
  cmdstack,    \* protocol.cmdstack, of indices into
  objs,        \* every shell and command made
  pps,         \* every StdOutStdErrEmulationProtocol made
  pp,          \* protocol.pp, an index of pps, 0 for None
  timers,      \* delayed calls: << object, method >>
  ticks,       \* how many have run
  password_input,
  tree, cwd,   \* protocol.fs and protocol.cwd
  disk,        \* the host's download directory: file -> what was written to it
  redirFiles,  \* terminal.redirFiles
  past         \* history: [strays, deaths, appended]

session == << script, reading, typed, ticks >>
stack == << cmdstack, objs, pps, pp >>
store == << tree, cwd, disk, redirFiles >>
vars == << session, link, todo, stack, timers, password_input, store, past >>

-----------------------------------------------------------------------------
(* Objects *)

\* left: it has left the stack; safe is safeoutfile, got the file of the host a download was put in.
Shell(interactive) ==
  [cls |-> "shell", interactive |-> interactive, pending |-> << >>, pp |-> 0, fed |-> FALSE,
   left |-> FALSE, await |-> "", stage |-> << >>, sink |-> "pp", safe |-> NoFile, got |-> NoFile, dst |-> << >>]

IsShell(o) == objs[o].cls = "shell"

Here == [abs |-> FALSE, pieces |-> << >>]
ExitStage == [cmd |-> "exit", redir |-> "", to |-> Here, app |-> "exit", sub |-> << >>,
              c |-> [src |-> Here, dst |-> Here, recursive |-> FALSE]]

\* A ";" that stands where a command is looked for
Separator == [ExitStage EXCEPT !.cmd = ";"]

\* A command of a pipe: the stage, what follows it, whether it has written,
\* whether there is data for it, whether it was made, and whether its item was
\* the last one pending.
Pipe(stage, next, last) ==
  [stage |-> stage, next |-> next, said |-> FALSE, fed |-> FALSE, ran |-> FALSE, last |-> last]

me == Head(todo).who
op == Head(todo).op
Is(name) == todo # << >> /\ op[1] = name

Calls(who, course) == [i \in DOMAIN course |-> [who |-> who, op |-> course[i]]]

\* The class an exception is put down to
Blame == IF op[1] = "launch" THEN pps[op[2]].stage.cmd ELSE objs[me].cls

\* The step is over and what it calls comes first.
Go(who, course) == todo' = Calls(who, course) \o Tail(todo)
Skip == todo' = Tail(todo)

\* The directory d with w in the file f
Stored(f, w, d) == [g \in DOMAIN d \cup {f} |-> IF g = f THEN w ELSE d[g]]

\* A call_command, at any of its steps
Starting(o) == o[1] \in {"launch", "construct", "callend", "call None"}

\* An exception ends every call up to the first one that catches it: a death if
\* one of them is another's or a call_command.  If none catches it, it reaches the
\* reactor, which drops a connection it was reading from.
Raise ==
  LET handlers == {i \in 2..Len(todo) : todo[i].op[1] = "guard"}
  IN IF handlers = {}
     THEN /\ todo' = << >>
          /\ link' = IF reading /\ link # "gone" THEN "broken" ELSE link
          /\ past' = [past EXCEPT !.deaths = @ \cup {Blame}]
     ELSE LET i == CHOOSE i \in handlers : \A j \in handlers : i <= j
          IN /\ todo' = Calls(todo[i].who, << do(todo[i].op[2]) >>) \o SubSeq(todo, i + 1, Len(todo))
             /\ past' = IF \A j \in 1..i : todo[j].who = todo[i].who /\ ~Starting(todo[j].op) THEN past
                        ELSE [past EXCEPT !.deaths = @ \cup {Blame}]
             /\ UNCHANGED link

-----------------------------------------------------------------------------
(* shell/honeypot.py: HoneyPotShell *)

\* lineReceived: an unclosed quote drops even what was pending.
LineReceived ==
  /\ Is("line")
  /\ LET l == op[2]
         pending == IF l.unclosed THEN << >> ELSE objs[me].pending \o l.items
     IN /\ objs' = [objs EXCEPT ![me].pending = pending]
        /\ Go(me, IF pending = << >> THEN << >> ELSE << << "runCommand" >> >>)
  /\ UNCHANGED << session, link, cmdstack, pps, pp, timers, password_input, store, past >>

\* A stage that names no command; the first such leaves the other stages alone.
Known(item) == {i \in DOMAIN item : item[i].cmd \in DOMAIN commands}

\* Mutant: the last pipe of an item has a next one too.
Bug_PipeGoesOn(item, last) ==
  [i \in DOMAIN item |-> Pipe(item[i], Len(pps) + i + 1, last /\ i \in Known(item))]

\* The first of some positions of an item
First(S) == CHOOSE i \in S : \A j \in S : i <= j

\* The pipes of an item: each known command's is before that of the next known one.
\* (There is none for an unknown command: what is in its place nothing leads to.)
PipesOf(item, last) ==
  [i \in DOMAIN item |->
     LET later == {j \in Known(item) : i < j}
     IN Pipe(item[i], IF later = {} THEN 0 ELSE Len(pps) + First(later), last /\ i \in Known(item))]

\* runCommand with something to run.  Each unknown command writes its error and
\* goes on with the rest of the line before the others are started.
RunItem ==
  /\ Is("runCommand") /\ objs[me].pending # << >>
  /\ LET item == Head(objs[me].pending)
         pipes == PipesOf(item, Len(objs[me].pending) = 1)
         rest == [i \in 1..Cardinality(DOMAIN item \ Known(item)) |-> << "runOrPrompt" >>]
     IN /\ objs' = [objs EXCEPT ![me].pending = Tail(@)]
        /\ IF item = << >> THEN Go(me, << << "runOrPrompt" >> >>) /\ UNCHANGED << link, past, pps >>
           ELSE IF \E i \in 2..Len(item) : item[i].cmd = "" THEN Raise /\ UNCHANGED pps
           ELSE /\ Go(me, rest \o (IF Known(item) = {} THEN << >>
                                   ELSE IF 1 \in Known(item) THEN << << "launch", Len(pps) + 1 >> >>
                                   ELSE << << "call None", Len(pps) + First(Known(item)) >> >>))
                /\ pps' = pps \o pipes
                /\ UNCHANGED << link, past >>
  /\ UNCHANGED << session, cmdstack, pp, timers, password_input, store >>

\* runCommand with nothing left: a prompt, or the end of an exec session.
RunNothing ==
  /\ Is("runCommand") /\ objs[me].pending = << >>
  /\ IF ~objs[me].interactive /\ Len(cmdstack) = 1 THEN Go(me, << processEnded >>) ELSE Skip
  /\ UNCHANGED << session, link, stack, timers, password_input, store, past >>

RunOrPrompt ==
  /\ Is("runOrPrompt")
  /\ Go(me, IF objs[me].pending = << >> THEN << >> ELSE << << "runCommand" >> >>)
  /\ UNCHANGED << session, link, stack, timers, password_input, store, past >>

\* The command called is that of the first stage, which is None: a TypeError.
CallNone ==
  /\ Is("call None")
  /\ pp' = op[2]
  /\ Raise
  /\ UNCHANGED << session, cmdstack, objs, pps, timers, password_input, store >>

-----------------------------------------------------------------------------
(* protocol.call_command and the constructor of a command *)

\* The host's name for what is redirected: it says the second, so that of an
\* earlier redirection to the same file may come again.
RedirNames(path) ==
  {<< "redir", Len(objs) + 1 >>} \cup
  {objs[o].safe : o \in {o \in DOMAIN objs : objs[o].sink = "file" /\ objs[o].dst = path
                                            /\ objs[o].safe[1] = "redir"}}

\* What ">" and ">>" do to the tree and the host.  The message that there is no
\* such directory is text, which the terminal does not take.
Redirect(stage) ==
  LET path == resolve_path(stage.to, cwd)
      p == getfile(tree, path, TRUE)
      append == /\ stage.redir = ">>" /\ p \in DOMAIN tree.node
                /\ p # Missing => tree.node[p].real \notin {NoFile, << "honeyfs" >>}
      made == mkfile(tree, path)
      plain == [sink |-> "pp", safe |-> NoFile, path |-> << >>, tree |-> tree, disk |-> disk, err |-> ""]
      to(real, t, d) == [plain EXCEPT !.sink = "file", !.safe = real, !.path = path,
                                      !.tree = t, !.disk = d]
      fresh(real) ==
        LET onDisk == IF real \in DOMAIN disk THEN disk ELSE Stored(real, << >>, disk)
            linked == update_realfile(made.tree, getfile(made.tree, path, TRUE), real, DOMAIN onDisk)
        IN [to(real, linked.tree, onDisk) EXCEPT !.err = linked.err]
  IN CASE stage.redir = "" -> {plain}
       [] stage.redir = "nowhere" -> {[plain EXCEPT !.err = "IndexError"]}
       [] OTHER ->
            IF append THEN {to(tree.node[p].real, tree, disk)}
            ELSE IF made.err = "FileNotFound" THEN {[plain EXCEPT !.sink = "failed"]}
            ELSE IF made.err # "" THEN {[plain EXCEPT !.err = made.err]}
            ELSE {fresh(real) : real \in RedirNames(path)}

\* call_command: protocol.pp is set first, whatever happens then.
Launch ==
  /\ Is("launch")
  /\ pp' = op[2]
  /\ IF cmdstack = << >> THEN Raise /\ UNCHANGED << store, pps >>
     ELSE \E r \in Redirect(pps[op[2]].stage) :
            LET next == pps[op[2]].next
            IN /\ tree' = r.tree /\ disk' = r.disk
               /\ UNCHANGED << cwd, redirFiles >>
               /\ IF r.err # "" \/ (r.sink = "failed" /\ next = 0) THEN Raise /\ UNCHANGED pps
                  ELSE /\ Go(me, (IF r.sink = "failed" THEN << << "launch", next >> >> ELSE << >>)
                                 \o << << "construct", op[2], r.sink, r.safe, r.path >> >>)
                       /\ pps' = IF r.sink = "failed" THEN [pps EXCEPT ![next].fed = TRUE] ELSE pps
                       /\ UNCHANGED << link, past >>
  /\ UNCHANGED << session, cmdstack, objs, timers, password_input >>

\* Mutant: the command is started without having been pushed.
Bug_NotPushed ==
  /\ Is("construct")
  /\ LET p == op[2]
         new == Len(objs) + 1
     IN /\ objs' = Append(objs, [Shell(FALSE) EXCEPT !.cls = pps[p].stage.cmd, !.pp = p,
                                   !.stage = pps[p].stage, !.sink = op[3], !.safe = op[4]])
        /\ pps' = [pps EXCEPT ![p].ran = TRUE]
        /\ Go(new, << do("start"), << "callend" >> >>)
  /\ UNCHANGED << session, link, cmdstack, pp, timers, password_input, store, past >>

\* The command is made, pushed and started.
Construct ==
  /\ Is("construct")
  /\ LET p == op[2]
         new == Len(objs) + 1
         stage == pps[p].stage
     IN /\ objs' = Append(objs, [Shell(FALSE) EXCEPT !.cls = stage.cmd, !.pp = p, !.fed = pps[p].fed,
                                   !.stage = stage, !.sink = op[3], !.safe = op[4],
                                   !.dst = IF op[3] = "file" THEN op[5]
                                           ELSE resolve_path(stage.c.dst, cwd)])
        /\ cmdstack' = Append(cmdstack, new)
        /\ pps' = [pps EXCEPT ![p].ran = TRUE]
        /\ Go(new, << do("start"), << "callend" >> >>)
  /\ UNCHANGED << session, link, pp, timers, password_input, store, past >>

\* Mutant: a command that wrote nothing starts no other.
Bug_NextOnData ==
  /\ Is("callend") \/ Is("outConnectionLost")
  /\ LET next == IF pp = 0 THEN 0 ELSE pps[pp].next
     IN IF next = 0 \/ (pp # 0 /\ ~pps[pp].said) THEN Skip /\ UNCHANGED pps
        ELSE Go(me, << << "launch", next >> >>) /\ pps' = [pps EXCEPT ![next].fed = TRUE]
  /\ UNCHANGED << session, link, cmdstack, objs, pp, timers, password_input, store, past >>

\* The end of call_command, and outConnectionLost: the next command of protocol.pp,
\* which may be another by now, is started with what was written last.
CallEnd ==
  /\ Is("callend") \/ Is("outConnectionLost")
  /\ LET next == IF pp = 0 THEN 0 ELSE pps[pp].next
     IN IF next = 0 THEN Skip /\ UNCHANGED pps
        ELSE Go(me, << << "launch", next >> >>) /\ pps' = [pps EXCEPT ![next].fed = pps[pp].said]
  /\ UNCHANGED << session, link, cmdstack, objs, pp, timers, password_input, store, past >>

-----------------------------------------------------------------------------
(* shell/command.py: what a command does *)

Course ==
  /\ Is("do")
  /\ \E course \in Courses(objs[me].cls, op[2], objs[me].fed) : Go(me, course)
  /\ UNCHANGED << session, link, stack, timers, password_input, store, past >>

\* write, through a pipe: every call starts the next command once more.
WriteToPipe ==
  /\ Is("write") /\ objs[me].sink = "pp"
  /\ LET p == objs[me].pp
         next == pps[p].next
     IN /\ pps' = [q \in DOMAIN pps |->
                     IF q = p THEN [pps[q] EXCEPT !.said = TRUE]
                     ELSE IF q = next THEN [pps[q] EXCEPT !.fed = TRUE] ELSE pps[q]]
        /\ Go(me, IF next = 0 THEN << >> ELSE << << "launch", next >> >>)
  /\ UNCHANGED << session, link, cmdstack, objs, pp, timers, password_input, store, past >>

\* write_to_file and write_to_failed
WriteToFile ==
  /\ Is("write") /\ objs[me].sink # "pp"
  /\ LET f == objs[me].safe
     IN IF objs[me].sink = "failed" THEN UNCHANGED << disk, past >>
        ELSE /\ disk' = IF f \in DOMAIN disk THEN [disk EXCEPT ![f] = Append(@, objs[me].cls)]
                        ELSE Stored(f, << objs[me].cls >>, disk)
             /\ UNCHANGED past
  /\ Skip
  /\ UNCHANGED << session, link, stack, timers, password_input, tree, cwd, redirFiles >>

\* The first half of exit: the file goes to the terminal, if there still is one.
RegisterRedir ==
  /\ Is("redirFiles")
  /\ redirFiles' = IF link = "gone" \/ objs[me].safe = NoFile THEN redirFiles
                   ELSE redirFiles \cup {objs[me].safe}
  /\ past' = [past EXCEPT !.appended = @ \/ objs[me].safe \in {<< "sha", d >> : d \in Range(disk)}]
  /\ Skip
  /\ UNCHANGED << session, link, stack, timers, password_input, tree, cwd, disk >>

\* Mutant: the shell below is not told to go on.
Bug_NoResume ==
  /\ Is("leave")
  /\ cmdstack' = IF cmdstack = << >> THEN cmdstack ELSE Front(cmdstack)
  /\ link' = IF cmdstack = << >> /\ link = "up" THEN "ended" ELSE link
  /\ past' = IF cmdstack = << >> \/ (cmdstack # << >> /\ Last(cmdstack) = me) THEN past
             ELSE [past EXCEPT !.strays = @ \cup {objs[me].cls}]
  /\ Skip
  /\ objs' = [objs EXCEPT ![me].left = TRUE]
  /\ UNCHANGED << session, pps, pp, timers, password_input, store >>

\* The other: whoever is on top leaves the stack, and what is below goes on.
Leave ==
  /\ Is("leave")
  /\ IF cmdstack = << >>
     THEN /\ link' = IF link = "up" THEN "ended" ELSE link
          /\ Skip
          /\ UNCHANGED << cmdstack, past >>
     ELSE /\ cmdstack' = Front(cmdstack)
          /\ past' = IF Last(cmdstack) = me THEN past
                     ELSE [past EXCEPT !.strays = @ \cup {objs[me].cls}]
          /\ IF cmdstack' # << >> /\ IsShell(Last(cmdstack'))
             THEN todo' = Calls(Last(cmdstack'), << << "runCommand" >> >>) \o Tail(todo)
             ELSE Skip
          /\ UNCHANGED link
  /\ objs' = [objs EXCEPT ![me].left = TRUE]
  /\ UNCHANGED << session, pps, pp, timers, password_input, store >>

RaiseHere ==
  /\ Is("raise")
  /\ Raise
  /\ UNCHANGED << session, stack, timers, password_input, store >>

\* A guard that nothing was raised under
Guarded ==
  /\ Is("guard")
  /\ Skip
  /\ UNCHANGED << session, link, stack, timers, password_input, store, past >>

\* terminal is None once the connection is gone.
ProcessEnded ==
  /\ Is("processEnded")
  /\ IF link = "gone" THEN Raise
     ELSE /\ link' = IF link = "up" THEN "ended" ELSE link
          /\ Skip
          /\ UNCHANGED past
  /\ UNCHANGED << session, stack, timers, password_input, store >>

UseTerminal ==
  /\ Is("terminal")
  /\ IF link = "gone" THEN Raise ELSE Skip /\ UNCHANGED << link, past >>
  /\ UNCHANGED << session, stack, timers, password_input, store >>

CallLater ==
  /\ Is("callLater")
  /\ timers' = Append(timers, << me, op[2] >>)
  /\ Skip
  /\ UNCHANGED << session, link, stack, password_input, store, past >>

\* cancel of a call that has run, or was never made, is an exception.
Cancel ==
  /\ Is("cancel")
  /\ LET mine == {i \in DOMAIN timers : timers[i][1] = me}
     IN IF mine = {} THEN Raise /\ UNCHANGED timers
        ELSE /\ timers' = RemoveAt(timers, CHOOSE i \in mine : \A j \in mine : j <= i)
             /\ Skip
             /\ UNCHANGED << link, past >>
  /\ UNCHANGED << session, stack, password_input, store >>

\* The callbacks of a dialogue, and protocol.password_input
Await ==
  /\ Is("await")
  /\ objs' = [objs EXCEPT ![me].await = op[2]]
  /\ Skip
  /\ UNCHANGED << session, link, cmdstack, pps, pp, timers, password_input, store, past >>

Answer ==
  /\ Is("answer")
  /\ objs' = [objs EXCEPT ![me].await = ""]
  /\ IF objs[me].await = "" THEN Raise
     ELSE Go(me, << do(objs[me].await) >>) /\ UNCHANGED << link, past >>
  /\ UNCHANGED << session, cmdstack, pps, pp, timers, password_input, store >>

Echo ==
  /\ Is("password_input")
  /\ password_input' = op[2]
  /\ Skip
  /\ UNCHANGED << session, link, stack, timers, store, past >>

\* HoneyPotCommand.lineReceived: a line typed at a busy command is kept for the
\* shell as one item, its ";" being words like any other.
\* An item after the first brings the stages that follow its first one.
Queued(l) ==
  LET more(item) == IF item = << >> THEN << >> ELSE Tail(item)
      upto[n \in 0..Len(l.items)] ==
        CASE n = 0 -> << >>
          [] n = 1 -> l.items[1]
          [] n > 1 -> (IF upto[n - 1] = << >> THEN << Separator >> ELSE upto[n - 1]) \o more(l.items[n])
  IN upto[Len(l.items)]

Queue ==
  /\ Is("queue")
  /\ IF cmdstack = << >> \/ typed.unclosed \/ (cmdstack # << >> /\ ~IsShell(Head(cmdstack)))
     THEN Raise /\ UNCHANGED objs
     ELSE /\ objs' = [objs EXCEPT ![Head(cmdstack)].pending = Append(@, Queued(typed))]
          /\ Skip
          /\ UNCHANGED << link, past >>
  /\ UNCHANGED << session, cmdstack, pps, pp, timers, password_input, store >>

-----------------------------------------------------------------------------
(* Commands that run others *)

\* command_sh: a shell is pushed for the line after -c ...
PushShell ==
  /\ Is("shell")
  /\ objs' = Append(objs, Shell(FALSE))
  /\ cmdstack' = Append(cmdstack, Len(objs'))
  /\ todo' = Calls(Len(objs'), << << "line", [items |-> objs[me].stage.sub, unclosed |-> FALSE] >> >>)
             \o Tail(todo)
  /\ UNCHANGED << session, link, pps, pp, timers, password_input, store, past >>

\* ... and "remove the shell": whatever is on top.
Pop ==
  /\ Is("pop")
  /\ IF cmdstack = << >> THEN Raise /\ UNCHANGED cmdstack
     ELSE /\ cmdstack' = Front(cmdstack)
          /\ past' = IF IsShell(Last(cmdstack)) /\ Len(cmdstack) > 1 THEN past
                     ELSE [past EXCEPT !.strays = @ \cup {objs[me].cls}]
          /\ Skip
          /\ UNCHANGED link
  /\ UNCHANGED << session, objs, pps, pp, timers, password_input, store >>

\* StdOutStdErrEmulationProtocol.insert_command of protocol.pp, which must be there
InsertCommand ==
  /\ Is("insert")
  /\ LET s == objs[me].stage
         applet == [s EXCEPT !.cmd = s.app, !.redir = ""]
     IN IF pp = 0 THEN Raise /\ UNCHANGED pps
        ELSE /\ pps' = Append([pps EXCEPT ![pp].next = Len(pps) + 1], Pipe(applet, pps[pp].next, FALSE))
             /\ Skip
             /\ UNCHANGED << link, past >>
  /\ UNCHANGED << session, cmdstack, objs, pp, timers, password_input, store >>

-----------------------------------------------------------------------------
(* Commands and the file system *)

\* What became of the tree: an exception of the file system goes on.
Onto(r) ==
  /\ tree' = r.tree
  /\ IF r.err # "" THEN Raise ELSE Skip /\ UNCHANGED << link, past >>

OnTree ==
  /\ Is("file")
  /\ Onto(FileCommand(op[2], tree, cwd, objs[me].stage.c))
  /\ UNCHANGED << session, stack, timers, password_input, cwd, disk, redirFiles >>

ChangeDir ==
  /\ Is("cd")
  /\ cwd' = file_cd(tree, cwd, objs[me].stage.c)
  /\ Skip
  /\ UNCHANGED << session, link, stack, timers, password_input, tree, disk, redirFiles, past >>

Mkfile ==
  /\ Is("mkfile")
  /\ Onto(mkfile(tree, objs[me].dst))
  /\ UNCHANGED << session, stack, timers, password_input, cwd, disk, redirFiles >>

Link ==
  /\ Is("link")
  /\ Onto(update_realfile(tree, getfile(tree, objs[me].dst, TRUE), objs[me].got, DOMAIN disk))
  /\ UNCHANGED << session, stack, timers, password_input, cwd, disk, redirFiles >>

\* A name for what is fetched: curl's is its safeoutfile, which > has set before.
Temp ==
  /\ Is("temp")
  /\ LET name == IF objs[me].safe # NoFile THEN objs[me].safe ELSE << "tmp", me >>
     IN objs' = [objs EXCEPT ![me].got = name, ![me].safe = name]
  /\ Skip
  /\ UNCHANGED << session, link, cmdstack, pps, pp, timers, password_input, store, past >>

\* The page is opened, and so emptied, when its headers come and written when it
\* ends: here both at its end.
Fill ==
  /\ Is("fill")
  /\ \E x \in Payloads : disk' = Stored(objs[me].got, << x >>, disk)
  /\ past' = [past EXCEPT !.appended = @ \/ Head(objs[me].got) = "sha"]
  /\ Skip
  /\ UNCHANGED << session, link, stack, timers, password_input, tree, cwd, redirFiles >>

\* The log of what an exec session sends after its line
Stdin == << "stdin" >>

\* command_scp.handle_CTRL_D: the header scp sends before a file is cut off, if
\* something follows it.  What does not begin with one may not be text at all.
CutHeader ==
  /\ Is("cutHeader")
  /\ LET scp == Stdin \in DOMAIN disk /\ Head(disk[Stdin]) = "header"
     IN \/ /\ Stdin \in DOMAIN disk /\ ~scp
           /\ Raise
           /\ UNCHANGED disk
        \/ /\ disk' = IF scp /\ Tail(disk[Stdin]) # << >> THEN [disk EXCEPT ![Stdin] = Tail(@)] ELSE disk
           /\ Skip
           /\ UNCHANGED << link, past >>
  /\ UNCHANGED << session, stack, timers, password_input, tree, cwd, redirFiles >>


\* A file of the host goes under the hash of what is in it, or is removed if it is
\* empty or there already.
Filed(f, d) ==
  LET rest == [g \in DOMAIN d \ {f} |-> d[g]]
      sha == << "sha", d[f] >>
  IN IF d[f] = << >> \/ sha \in DOMAIN d THEN rest ELSE Stored(sha, d[f], rest)

\* Artifact.close: what came, in a file of a fresh name, goes under its hash
Keep ==
  /\ Is("keep")
  /\ \E x \in Payloads :
       LET sha == << "sha", << x >> >>
       IN /\ disk' = IF sha \in DOMAIN disk THEN disk ELSE Stored(sha, << x >>, disk)
          /\ objs' = [objs EXCEPT ![me].got = sha]
  /\ Skip
  /\ UNCHANGED << session, link, cmdstack, pps, pp, timers, password_input, tree, cwd, redirFiles, past >>

\* What curl does with the file it has filled, if it is still there
Move ==
  /\ Is("move")
  /\ LET f == objs[me].got
     IN IF f \notin DOMAIN disk THEN Raise /\ UNCHANGED << disk, objs >>
        ELSE /\ disk' = Filed(f, disk)
             /\ objs' = [objs EXCEPT ![me].got = << "sha", disk[f] >>]
             /\ Skip
             /\ UNCHANGED << link, past >>
  /\ UNCHANGED << session, cmdstack, pps, pp, timers, password_input, tree, cwd, redirFiles >>

-----------------------------------------------------------------------------
(* Events *)

Idle == todo = << >>
Top == Last(cmdstack)
Connected == link \in {"up", "ended"}

\* A key or a line for whoever is on top: the shell has its own way with each.
Deliver(course, method) ==
  IF cmdstack = << >> THEN UNCHANGED todo
  ELSE todo' = Calls(Top, IF IsShell(Top) THEN course ELSE << do(method) >>)

\* The client types a line.
TypeLine ==
  /\ Idle /\ Connected /\ ~script.exec /\ script.lines # << >>
  /\ typed' = Head(script.lines)
  /\ script' = [script EXCEPT !.lines = Tail(@)]
  /\ reading' = TRUE
  /\ Deliver(<< << "line", typed' >> >>, "lineReceived")
  /\ UNCHANGED << ticks, link, stack, timers, password_input, store, past >>

\* What comes in an exec session is kept in the log of its input, the header of a
\* file or anything else; a function key among it is no text to add.
TypeInput ==
  /\ Idle /\ Connected /\ script.exec /\ Len(script.lines) > 1
  /\ script' = [script EXCEPT !.lines = Tail(@)]
  /\ \E w \in {"header", "input"} :
       disk' = Stored(Stdin, IF Stdin \in DOMAIN disk THEN Append(disk[Stdin], w) ELSE << w >>, disk)
  /\ link' \in {link, "broken"}
  /\ reading' = TRUE
  /\ UNCHANGED << typed, ticks, todo, stack, timers, password_input, tree, cwd, redirFiles, past >>

InterruptKey ==
  /\ Idle /\ Connected /\ ~script.exec /\ script.signals > 0
  /\ script' = [script EXCEPT !.signals = @ - 1]
  /\ reading' = TRUE
  /\ Deliver(<< >>, "handle_CTRL_C")
  /\ UNCHANGED << typed, ticks, link, stack, timers, password_input, store, past >>

\* ^D, and the end of the input of an exec session: the shell calls exit.
EndKey ==
  /\ Idle /\ Connected /\ script.signals > 0
  /\ script' = [script EXCEPT !.signals = @ - 1]
  /\ reading' = TRUE
  /\ LET atShell == cmdstack # << >> /\ IsShell(Top)
     IN /\ pps' = IF atShell THEN Append(pps, Pipe(ExitStage, 0, FALSE)) ELSE pps
        /\ Deliver(<< << "launch", Len(pps) + 1 >> >>, "handle_CTRL_D")
  /\ UNCHANGED << typed, ticks, link, cmdstack, objs, pp, timers, password_input, store, past >>

\* The end of the input of an interactive session, more than the limit of what may
\* be uploaded, and the timeout of a session (180 s or 60 s, never set anew).
EndOfSession ==
  /\ Idle /\ link = "up"
  /\ link' = "ended"
  /\ reading' = FALSE
  /\ UNCHANGED << script, typed, ticks, todo, stack, timers, password_input, store, past >>

\* A delayed call, which does not ask whether the session is still there.
Tick ==
  /\ Idle /\ link # "broken" /\ ticks < MaxTicks /\ Len(objs) <= MaxObjs
  /\ \E i \in DOMAIN timers :
       /\ timers' = RemoveAt(timers, i)
       /\ todo' = Calls(timers[i][1], << do(timers[i][2]) >>)
  /\ ticks' = ticks + 1
  /\ reading' = FALSE
  /\ UNCHANGED << script, typed, link, stack, password_input, store, past >>

\* The files of a list, each filed in its turn if it is there
FiledAll(order) ==
  LET upto[n \in 0..Len(order)] ==
        IF n = 0 THEN disk
        ELSE IF order[n] \in DOMAIN upto[n - 1] THEN Filed(order[n], upto[n - 1]) ELSE upto[n - 1]
  IN upto[Len(order)]

\* connectionLost, of the logging terminal and then of the protocol: the log of the
\* input and then the files redirected to, in the order of a set, are filed, and
\* the stack is dropped.
ConnectionLost ==
  /\ Idle /\ link # "gone"
  /\ \E order \in SetToSeqs(redirFiles) : disk' = FiledAll(<< Stdin >> \o order)
  /\ redirFiles' = {}
  /\ link' = "gone"
  /\ cmdstack' = << >> /\ pp' = 0
  /\ reading' = FALSE
  /\ UNCHANGED << script, typed, ticks, todo, objs, pps, timers, password_input, tree, cwd, past >>

-----------------------------------------------------------------------------
(* connectionMade: a shell, and in an exec session its one line *)
Init ==
  /\ script \in Scripts
  /\ link = "up" /\ reading = FALSE /\ ticks = 0
  /\ typed = [items |-> << >>, unclosed |-> FALSE]
  /\ objs = << Shell(~script.exec) >> /\ cmdstack = << 1 >> /\ pps = << >> /\ pp = 0
  /\ todo = IF script.exec THEN Calls(1, << << "line", Head(script.lines) >> >>) ELSE << >>
  /\ timers = << >> /\ password_input = FALSE
  /\ tree = Tree /\ cwd = Home
  /\ disk = << >> /\ redirFiles = {}
  /\ past = [strays |-> {}, deaths |-> {}, appended |-> FALSE]

Step ==
  \/ LineReceived \/ RunItem \/ RunNothing \/ RunOrPrompt \/ CallNone
  \/ Launch \/ Construct \/ CallEnd
  \/ Course \/ WriteToPipe \/ WriteToFile \/ RegisterRedir \/ Leave \/ RaiseHere \/ Guarded
  \/ ProcessEnded \/ UseTerminal \/ CallLater \/ Cancel \/ Await \/ Answer \/ Echo \/ Queue
  \/ PushShell \/ Pop \/ InsertCommand
  \/ OnTree \/ ChangeDir \/ Mkfile \/ Link \/ Temp \/ Fill \/ Keep \/ Move \/ CutHeader

Event ==
  \/ TypeLine \/ TypeInput \/ InterruptKey \/ EndKey \/ EndOfSession \/ Tick \/ ConnectionLost

Next == Step \/ Event
Spec == Init /\ [][Next]_vars

-----------------------------------------------------------------------------
(* Properties *)

\* The shape of the state
TypeOK ==
  /\ link \in {"up", "ended", "broken", "gone"} /\ reading \in BOOLEAN
  /\ password_input \in BOOLEAN /\ ticks \in 0..MaxTicks
  /\ cmdstack \in Seq(DOMAIN objs) /\ pp \in 0..Len(pps)
  /\ \A i \in DOMAIN todo : todo[i].who \in DOMAIN objs
  /\ \A i \in DOMAIN timers : timers[i][1] \in DOMAIN objs
  /\ \A p \in DOMAIN pps : pps[p].next \in 0..Len(pps)
  /\ \A o \in DOMAIN objs : objs[o].pp \in 0..Len(pps)

\* HoneyPotCommand.exit pops whoever is on top.  Still, as long as no command has
\* popped another: a session that is connected has its shell at the bottom, when
\* the shell is on top no other shell is left on the stack and, if nothing died,
\* no item of any line is left over; and nothing is on the stack of a dead session.
PromptMeansDone ==
  Idle /\ past.strays = {} =>
    /\ Connected => cmdstack # << >> /\ Head(cmdstack) = 1
    /\ Connected /\ past.deaths = {} /\ IsShell(Top) => Top = 1 /\ objs[1].pending = << >>
    /\ link = "gone" => cmdstack = << >>

\* Of the last item of a line every stage that is a command is started, whatever
\* the commands before it do, unless an exception ended the line.  (Of an earlier
\* item it may not be, nor of a line with sh: protocol.pp is then another's when
\* call_command looks.)
LastItemRuns ==
  Idle /\ past.deaths = {} /\ (\A p \in DOMAIN pps : pps[p].stage.cmd # "sh") =>
    \A p \in DOMAIN pps : pps[p].last => pps[p].ran

\* As long as no command has popped another, an exit takes a command from the
\* stack whose calls are still in progress only if it is that command's own, or
\* comes from a command that has left before: in every other case what it pops
\* waits for a line or a timer.
ExitInTurn ==
  Is("leave") /\ past.strays = {} /\ cmdstack # << >> /\ Last(cmdstack) # me =>
    objs[me].left \/ \A i \in DOMAIN todo : todo[i].who # Last(cmdstack)

\* curl opens for writing the file its output is redirected to: what the file held
\* is gone.
Overwritten(f) == Is("fill") /\ objs[me].sink = "file" /\ objs[me].got = f


\* What is below an entry of the tree, itself included
Below(t, x) ==
  FoldLeft(LAMBDA s, i : s \cup UNION {Range(t.node[y].contents) : y \in s}, {x}, t.node)

\* A file command makes nothing unreachable but what it is told to: rm and cp
\* aside, only rmdir takes a directory away, an empty one, and mv an entry of the
\* name it moves to.  (mv of a directory into itself takes it out of the tree.)
NothingDetached ==
  [][Is("file") /\ op[2] \notin {"rm", "cp"} =>
       LET c == objs[me].stage.c
           source == getfile(tree, resolve_path(c.src, cwd), TRUE)
           target == getfile(tree, resolve_path(c.dst, cwd), TRUE)
           name(x) == tree.node[x].name
       IN \A x \in Below(tree, Root) \ Below(tree', Root) :
            \/ op[2] = "rmdir" /\ tree.node[x].contents = << >>
            \/ op[2] = "mv" /\ name(x) \in {basename(c.dst.pieces), basename(c.src.pieces)} /\ x # source
            \/ op[2] = "mv" /\ target \in Below(tree, source)]_vars
=============================================================================
