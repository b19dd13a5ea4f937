-------------------------- MODULE CowrieCommands --------------------------
(***************************************************************************)
(* The commands of cowrie's shell (commands/ *.py), each as the set of the  *)
(* courses its methods may take.  A course is the sequence of calls that   *)
(* matter to the session: what is written where, when the command leaves   *)
(* the stack, which timers it starts, which exception it lets escape.      *)
(* Arguments, files looked at and the network are the choice of a course;  *)
(* writing the rows of a table is `several', a write being one call of     *)
(* write; errorWrite goes past pipes and files and is left out.            *)
(*                                                                         *)
(* This is cowrie under Python 3: what is text there and what is bytes     *)
(* decides which call raises (write takes text, and what a pipe feeds a    *)
(* command is bytes).                                                      *)
(***************************************************************************)
EXTENDS Sequences

\* What f has, over what g has
Over(f, g) == [x \in DOMAIN f \cup DOMAIN g |-> IF x \in DOMAIN f THEN f[x] ELSE g[x]]

(* The steps of a course *)
write == << "write" >>            \* self.write and self.writeBytes
raise == << "raise" >>            \* an exception nothing in the command catches
processEnded == << "processEnded" >>   \* protocol.terminal.transport.processEnded
do(m) == << "do", m >>            \* self.m()
exit == do("exit")
pop == << "pop" >>                \* protocol.cmdstack.pop()
callLater(m) == << "callLater", m >>
cancel == << "cancel" >>          \* self.scheduled.cancel()
await(m) == << "await", m >>      \* the method that gets the next line
answer == << "answer" >>          \* ... is called; an exception if none is set
hide == << "password_input", TRUE >>
show == << "password_input", FALSE >>
guard(m) == << "guard", m >>      \* try: what precedes it, except: self.m()
terminal == << "terminal" >>      \* a use of protocol.terminal: it must be there
queue == << "queue" >>            \* HoneyPotCommand.lineReceived
file(m) == << "file", m >>        \* a command of commands/fs.py on the tree
cd == << "cd" >>
shell == << "shell" >>            \* a HoneyPotShell is pushed and given a line
insert == << "insert" >>          \* pp.insert_command with one of the applets
outConnectionLost == << "outConnectionLost" >>
makefile == << "mkfile" >>        \* self.fs.mkfile of the file asked for
temp == << "temp" >>              \* safeoutfile: a name under the download directory
fill == << "fill" >>              \* the file of that name is written
keep == << "keep" >>              \* what came is filed under its hash
cutHeader == << "cutHeader" >>    \* scp's header is cut off the log of the input
move == << "move" >>              \* the file of the session is filed under its hash
linkfile == << "link" >>          \* update_realfile of the file asked for

several == << write, write >>

\* A call that writes, may write, or neither.
Writes == [call |-> {<< write >>}]
MayWrite == [call |-> {<< >>, << write >>}]
Silent == [call |-> {<< >>}]

\* shell/command.py: the class all commands extend.  Its call formats bytes with text.
HoneyPotCommand ==
  [start |-> {<< do("call"), exit >>},
   call |-> {<< raise >>},
   exit |-> {<< << "redirFiles" >>, << "leave" >> >>},
   handle_CTRL_C |-> {<< write, exit >>},
   handle_CTRL_D |-> {<< >>},
   lineReceived |-> {<< queue >>}]

\* A program that ignores what is typed until ^D.
UntilEof == [lineReceived |-> {<< >>}, handle_CTRL_D |-> {<< exit >>}]

-----------------------------------------------------------------------------
(* commands/base.py *)

command_whoami == Writes
command_help == Writes
command_w == [call |-> {<< write >> \o several}]
command_who == Writes

\* What is escaped comes as bytes (-e), or not at all.
command_echo == [call |-> {<< >>, << write >>, << raise >>}]

command_printf == [call |-> {<< write >>, << raise >>, << >>}]
command_exit == [call |-> {<< processEnded >>}, exit |-> {<< >>}]
command_clear == [call |-> {<< terminal >>}]
command_hostname == MayWrite
command_ps == [call |-> {<< write >>, several}]
command_id == Writes

\* The password is asked for twice, without an echo.
command_passwd ==
  [start |-> {<< write, hide, await("ask_again") >>},
   ask_again |-> {<< write, await("finish") >>},
   finish |-> {<< show, write, exit >>},
   lineReceived |-> {<< answer >>}]

command_shutdown ==
  [start |-> {several \o << exit >>, several \o << callLater("finish") >>, << write, exit >>},
   finish |-> {<< processEnded >>}]

command_reboot ==
  [start |-> {several \o << callLater("finish") >>}, finish |-> {<< processEnded >>}]

command_history == [call |-> {<< >>, several}]
command_date == Writes

\* Without an end, and never asking whether the session is still there.
command_yes ==
  [start |-> {<< do("y") >>},
   y |-> {<< write, callLater("y") >>, << raise >>},
   handle_CTRL_C |-> {<< cancel, exit >>}]

\* sh -c runs a line in a shell of its own; what comes through a pipe is bytes,
\* which its lexer refuses.  sh -c without a line is an IndexError.
command_sh == [call |-> {<< >>, << shell, pop >>, << raise >>}]

command_chmod == [call |-> {<< >>, several}]

command_php ==
  Over(UntilEof, [start |-> {<< >>, several \o << exit >>, << exit >>}])

command_chattr == MayWrite
command_nop == Silent

-----------------------------------------------------------------------------
(* commands/fs.py, tar.py, nohup.py, cat.py *)

\* The errors of a file are caught, those of a pipe are not: no pattern, one that
\* is no regular expression, a line that is no text.
command_grep ==
  Over(UntilEof, [start |-> {<< write, exit >>, << exit >>, several \o << exit >>},
                  piped |-> {<< write, exit >>, << exit >>, several \o << exit >>, << raise >>}])

command_tail == Over(UntilEof, [start |-> {<< >>, << exit >>, several \o << exit >>}])
command_head == Over(UntilEof, [start |-> {<< >>, << exit >>, several \o << exit >>}])

command_cd == [call |-> {<< >>, << cd >>}]
command_rm == [call |-> {<< file("rm") >>}]
command_cp == [call |-> {<< >>, << file("cp") >>}]

\* An unknown option: out, and on to a name that is not bound.
command_mv == [call |-> {<< >>, << file("mv") >>, << exit, raise >>}]

command_mkdir == [call |-> {<< >>, << file("mkdir") >>}]
command_rmdir == [call |-> {<< >>, << file("rmdir") >>}]
command_pwd == Writes
command_touch == [call |-> {<< >>, << file("touch") >>}]
command_nohup == [call |-> {several, << file("nohup"), write >>, << >>}]
command_tar == [call |-> {several, << file("tar") >>, << write, file("tar") >>}]

\* A line that is typed is text, which cat would cut at bytes.
command_cat ==
  [start |-> {<< exit >>, << write, exit >>, several \o << exit >>},
   lineReceived |-> {<< raise >>},
   handle_CTRL_D |-> {<< exit >>}]

-----------------------------------------------------------------------------
(* Programs that run to their end at once, commands/ *.py of the same names *)

\* Neither text nor bytes can be encoded to base64; decoding fails and is caught.
command_base64 ==
  Over(UntilEof, [start |-> {<< write, exit >>, << exit >>, << raise >>},
                  lineReceived |-> {<< >>, << raise >>}])

\* An operand without "=" leaves the stack and goes on to fail; an unknown one
\* leaves it and goes on to copy.  Without "if=" it stays; bs and count are to be
\* numbers, and what a pipe brings is not text.
command_dd ==
  LET leave == << << "redirFiles" >>, << "leave" >> >>
      unknown == << write >> \o leave
  IN Over(UntilEof,
     [start |-> {<< >>, << write, exit >>, << exit >>, << raise >>, unknown \o << raise >>,
                 unknown, unknown \o << write, exit >>},
      piped |-> {<< >>, << raise >>, unknown \o << raise >>},
      exit |-> {several \o << write >> \o leave, leave}])

\* A program given on the command line ends once for every file named; the
\* getopt error of perl is followed by the use of its unbound result.
command_perl ==
  Over(UntilEof,
  [start |-> {<< >>, << write, exit >>, << exit >>, << exit, write, exit >>,
              << write, exit, raise >>}])
command_python ==
  Over(UntilEof, [start |-> {<< >>, << write, exit >>, << exit >>, << exit, write, exit >>}])

\* generate_file is called to give callLater its callable and fails: it writes
\* text to a file of bytes.  ^C then finds nothing to cancel.
command_gcc ==
  [start |-> {<< write, exit >>, << write, write, exit >>, << raise >>},
   handle_CTRL_C |-> {<< >>}]

\* A table is shown or flushed by root, of a chain that there is.
iptables_tables ==
  [is_valid_chain |-> {<< write, exit >>},
   no_permission |-> {<< write, exit >>},
   list |-> {<< write, exit >>, << do("is_valid_chain") >>, << do("no_permission") >>},
   list_rules |-> {<< write, exit >>, << do("is_valid_chain") >>, << do("no_permission") >>},
   flush |-> {<< exit >>, << do("is_valid_chain") >>, << do("no_permission") >>}]

\* The setup and the tables only write; each way through start ends once.
command_iptables ==
  Over(iptables_tables,
  [start |-> {<< do(m) >> : m \in {"no_command", "show_help", "show_version", "list",
                                   "list_rules", "flush", "unknown_option", "exit"}},
   no_command |-> {<< write, exit >>},
   show_help |-> {<< write, exit >>},
   show_version |-> {<< write, exit >>},
   unknown_option |-> {<< write, exit >>}])

command_service == [call |-> {<< >>, << write >>, several}]
command_ls == [call |-> {<< >>, << write >>, several}]
command_du == [call |-> {<< >>, << write >>, several}]
command_netstat == [call |-> {several}]
command_uname == MayWrite
command_ethtool == Writes
command_free == MayWrite
command_ifconfig == Writes
command_last == [call |-> {several}]
command_ulimit == MayWrite
command_uptime == Writes
command_which == [call |-> {<< >>, << write >>, several}]

\* bytes have no format: the environment is never shown.
command_env == [call |-> {<< raise >>}]

-----------------------------------------------------------------------------
(* Programs that run another *)

\* The inserted command is started by call_command once sudo has left the stack;
\* what a pipe brings is not text to write.
command_sudo ==
  [start |-> {<< exit >>, << insert, exit >>},
   piped |-> {<< exit >>, << insert, raise >>}]

\* "The command should never call self.exit()": HoneyPotCommand.start does.
command_busybox ==
  [call |-> {<< >>, << write >>, << insert, outConnectionLost >>},
   pipedcall |-> {<< >>, << write >>, << insert, outConnectionLost, raise >>}]

-----------------------------------------------------------------------------
(* Programs that take their time *)

command_sleep ==
  [start |-> {<< callLater("done") >>, << write, exit >>, << raise >>},
   done |-> {<< exit >>}]

command_ping ==
  [start |-> {<< write, exit >>, << write, exit, raise >>, << raise >>,
              << write, callLater("showreply") >>},
   showreply |-> {<< write, write, exit >>, << write, callLater("showreply") >>},
   handle_CTRL_C |-> {<< write, cancel, write, exit >>}]

\* The third and later lines of the dialogue find no callback and are dropped.
command_ssh ==
  [start |-> {<< write, exit >>, << write, exit, raise >>, << raise >>,
              several \o << await("yesno") >>},
   yesno |-> {several \o << hide, await("wait") >>},
   wait |-> {<< callLater("finish"), await("nothing") >>},
   nothing |-> {<< await("nothing") >>},
   finish |-> {<< show, write, exit >>},
   lineReceived |-> {<< answer >>}]

\* The dialogue's position is left out: an output goes on by itself, a question
\* waits for a line, and the last "no" ends it.
command_adduser ==
  [start |-> {<< write, exit >>, << do("do_output") >>},
   do_output |-> {<< write, hide >>, << write >>, << write, callLater("do_output") >>,
                  << callLater("do_output") >>},
   lineReceived |-> {<< exit >>, << callLater("do_output"), show >>,
                     << write, callLater("do_output"), show >>}]

\* A coroutine: what fails in it is kept by its Deferred.
command_aptget ==
  [start |-> {<< write, exit >>, several \o << exit >>, << exit >>,
              << do("do_install"), guard("nothing") >>},
   do_install |-> {<< write, exit >>, several \o << callLater("fetched") >>},
   fetched |-> {several \o << callLater("set_up") >>},
   set_up |-> {<< write, makefile, callLater("installed") >>},
   installed |-> {<< exit >>},
   nothing |-> {<< >>}]

\* What a coroutine of yum comes to: an unknown package says so and stays.
yum_do_install == {several \o << exit >>, several}
yum_run == {several \o << exit >>, several}

\* Each line that comes, of an install or not, starts one more coroutine, which
\* ends with an exit unless it fails.  The version, bytes with no format or a text
\* with too few values, always fails, and yum stays.
command_yum ==
  [start |-> {<< callLater("do_help") >>, << exit >>, << callLater("do_install") >>,
              << write, guard("nothing") >>},
   do_help |-> {<< write, exit >>},
   do_install |-> yum_do_install,
   lineReceived |-> {<< write, callLater("run"), guard("nothing") >>},
   run |-> yum_run,
   nothing |-> {<< >>}]

-----------------------------------------------------------------------------
(* Programs that fetch a file *)

\* A page that has ended is in the tree, unless it is for the screen or came in
\* part, and is an artifact, unless it is empty.
wget_HTTPProgressDownloader ==
  [pageEnd |-> {<< makefile, keep, do("success"), guard("error") >>,
                << keep, do("success"), guard("error") >>,
                << keep, do("to_screen"), guard("error") >>,
                << makefile, do("no_artifact"), guard("error") >>}]

\* An empty page leaves no artifact: success leaves the stack for it and goes on
\* to log, link and leave the stack again.  For the screen there are only bytes.
command_wget ==
  Over(wget_HTTPProgressDownloader,
  [start |-> {<< exit >>, << callLater("pageEnd") >>, << callLater("error") >>},
   success |-> {<< terminal, linkfile, exit >>},
   to_screen |-> {<< terminal, raise >>},
   no_artifact |-> {<< exit, terminal, exit >>},
   error |-> {<< terminal, guard("nothing"), exit >>},
   nothing |-> {<< >>},
   handle_CTRL_C |-> {<< cancel, callLater("error") >>}])

\* The page goes to a file of the session, which the tree is given before the
\* file is moved to its hash, unless the page came in part.
curl_HTTPProgressDownloader ==
  [gotHeaders |-> {several \o << callLater("pageEnd") >>, << callLater("pageEnd") >>},
   pageEnd |-> {<< write, fill, makefile, linkfile, do("success"), guard("error") >>,
                << fill, do("success"), guard("error") >>,
                << write, fill, move, terminal, raise, guard("error") >>}]

curl_help == << write, exit >>
curl_start == {curl_help, << exit >>, << temp, callLater("error") >>, << temp, callLater("gotHeaders") >>}

\* Without -o there is no file to look up.
command_curl ==
  Over(curl_HTTPProgressDownloader,
  [start |-> curl_start,
   success |-> {<< move, terminal, linkfile, exit >>, << exit, raise >>},
   error |-> {<< write, terminal, exit >>},
   handle_CTRL_C |-> {<< write, cancel, callLater("error") >>}])

\* Whatever goes wrong is caught, and the program leaves once.
command_tftp ==
  [start |-> {<< raise, guard("nothing"), exit >>, << exit >>,
              << write, keep, makefile, terminal, linkfile, guard("nothing"), exit >>},
   nothing |-> {<< >>}]

\* The size of an artifact that was empty, and so is gone, is an exception.
command_ftpget ==
  [start |-> {<< write, exit >>, several \o << exit >>,
              << write, keep, terminal, makefile, linkfile, exit >>,
              << write, terminal, raise >>, << write, raise >>}]

\* A missing target directory leaves the stack; the protocol starts all the same.
\* The terminal is given text for each line.
command_scp ==
  [start |-> {<< write, exit >>, << exit >> \o several, several, << raise >>},
   lineReceived |-> {<< raise >>},
   handle_CTRL_D |-> {<< terminal, cutHeader, exit >>}]

\* What the peer sends is bytes, added to a string.  ^C and ^D close the socket
\* and leave the program where it is.
command_nc ==
  [start |-> {<< write, exit >>, << exit >>, << raise >>},
   lineReceived |-> {<< >>, << raise >>},
   handle_CTRL_C |-> {<< write >>},
   handle_CTRL_D |-> {<< >>}]

-----------------------------------------------------------------------------
(* HoneyPotBaseProtocol.commands, by the names of the classes *)

commands ==
  [whoami |-> command_whoami, help |-> command_help, w |-> command_w,
   who |-> command_who, echo |-> command_echo, printf |-> command_printf,
   exit |-> command_exit, clear |-> command_clear, hostname |-> command_hostname,
   ps |-> command_ps, id |-> command_id, passwd |-> command_passwd,
   shutdown |-> command_shutdown, reboot |-> command_reboot,
   history |-> command_history, date |-> command_date, yes |-> command_yes,
   sh |-> command_sh, chmod |-> command_chmod, php |-> command_php,
   chattr |-> command_chattr, nop |-> command_nop, grep |-> command_grep,
   tail |-> command_tail, head |-> command_head, cd |-> command_cd,
   rm |-> command_rm, cp |-> command_cp, mv |-> command_mv,
   mkdir |-> command_mkdir, rmdir |-> command_rmdir, pwd |-> command_pwd,
   touch |-> command_touch, nohup |-> command_nohup, tar |-> command_tar,
   cat |-> command_cat, base64 |-> command_base64, dd |-> command_dd,
   perl |-> command_perl, python |-> command_python, gcc |-> command_gcc,
   iptables |-> command_iptables, service |-> command_service, ls |-> command_ls,
   du |-> command_du, netstat |-> command_netstat, uname |-> command_uname,
   ethtool |-> command_ethtool, free |-> command_free,
   ifconfig |-> command_ifconfig, last |-> command_last,
   ulimit |-> command_ulimit, uptime |-> command_uptime, which |-> command_which,
   env |-> command_env, sudo |-> command_sudo, busybox |-> command_busybox,
   sleep |-> command_sleep, ping |-> command_ping, ssh |-> command_ssh,
   adduser |-> command_adduser, aptget |-> command_aptget, yum |-> command_yum,
   wget |-> command_wget, curl |-> command_curl, tftp |-> command_tftp,
   ftpget |-> command_ftpget, scp |-> command_scp, nc |-> command_nc]

\* A class is its own methods over those it inherits.
Class == [c \in DOMAIN commands |-> Over(commands[c], HoneyPotCommand)]

\* The courses of method m, given data on the standard input or not: what comes
\* through a pipe leads some programs another way.  There may be no such method.
Courses(c, m, fed) ==
  CASE fed /\ m = "start" /\ "piped" \in DOMAIN Class[c] -> Class[c].piped
    [] fed /\ m = "call" /\ "pipedcall" \in DOMAIN Class[c] -> Class[c].pipedcall
    [] m \in DOMAIN Class[c] -> Class[c][m]
    [] OTHER -> {<< raise >>}
=============================================================================
