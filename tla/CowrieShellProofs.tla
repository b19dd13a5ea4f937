-------------------------- MODULE CowrieShellProofs --------------------------
(***************************************************************************)
(* For any stages of the lines, scripts and bounds, and every course that  *)
(* the commands of a session may take:                                     *)
(*   - each call in progress is one its shell or command can make, of a    *)
(*     pipe that is there, and the state keeps its type;                   *)
(*   - the calls in progress are nested as the stack is, and as long as no *)
(*     command has popped another, each shell above the first is about to  *)
(*     be popped by the sh below it;                                       *)
(*   - so the session's shell is at the bottom of the stack, its prompt    *)
(*     means that nothing of any line is left over, and an exit takes only *)
(*     its own command, or one that waits;                                 *)
(*   - each command of a last item that has not been started is about to   *)
(*     be, or another such command will start it: so all are, at rest.     *)
(***************************************************************************)
EXTENDS CowrieShell, TLAPS, FiniteSetTheorems, WellFoundedInduction, SequenceTheorems

-----------------------------------------------------------------------------
(* What the courses of the commands are made of *)

\* The methods a course goes on with: never the three that are only called from
\* outside, by call_command, by HoneyPotCommand.start and for a line typed.
Methods ==
  {"ask_again", "do_help", "do_install", "do_output", "done", "error", "exit",
   "fetched", "finish", "flush", "gotHeaders", "handle_CTRL_C",
   "handle_CTRL_D", "installed", "is_valid_chain", "list", "list_rules", "no_artifact",
   "no_command", "no_permission", "nothing", "pageEnd", "run", "set_up", "show_help",
   "show_version", "showreply", "success", "to_screen", "unknown_option", "wait", "y", "yesno"}
FileCommands == {"rm", "cp", "mv", "mkdir", "rmdir", "touch", "nohup", "tar"}

\* The steps of every command but those that run others (sh, sudo, busybox) and
\* the one with a file of its own (curl).
Steps ==
  {write, raise, processEnded, cancel, answer, hide, show, terminal, cd, makefile, keep,
   linkfile, cutHeader, << "redirFiles" >>, << "leave" >>}
  \cup {do(m) : m \in Methods} \cup {callLater(m) : m \in Methods} \cup {await(m) : m \in Methods}
  \cup {guard(m) : m \in Methods} \cup {file(m) : m \in FileCommands}

\* A class all of whose methods take such courses
Plainly(f) == \A m \in DOMAIN f : f[m] \subseteq Seq(Steps)

LEMMA StepsHave ==
  /\ write \in Steps /\ raise \in Steps /\ processEnded \in Steps /\ cancel \in Steps
  /\ answer \in Steps /\ hide \in Steps /\ show \in Steps /\ terminal \in Steps
  /\ cd \in Steps /\ makefile \in Steps /\ keep \in Steps /\ linkfile \in Steps
  /\ cutHeader \in Steps /\ << "redirFiles" >> \in Steps /\ << "leave" >> \in Steps /\ exit \in Steps
  /\ do("do_install") \in Steps /\ do("do_output") \in Steps /\ do("exit") \in Steps
  /\ do("flush") \in Steps /\ do("is_valid_chain") \in Steps
  /\ do("list") \in Steps /\ do("list_rules") \in Steps /\ do("no_artifact") \in Steps
  /\ do("no_command") \in Steps /\ do("no_permission") \in Steps /\ do("show_help") \in Steps
  /\ do("show_version") \in Steps /\ do("success") \in Steps /\ do("to_screen") \in Steps
  /\ do("unknown_option") \in Steps /\ do("y") \in Steps /\ callLater("do_help") \in Steps
  /\ callLater("do_install") \in Steps /\ callLater("do_output") \in Steps
  /\ callLater("done") \in Steps
  /\ callLater("error") \in Steps /\ callLater("fetched") \in Steps
  /\ callLater("finish") \in Steps /\ callLater("gotHeaders") \in Steps
  /\ callLater("installed") \in Steps /\ callLater("pageEnd") \in Steps
  /\ callLater("run") \in Steps /\ callLater("set_up") \in Steps
  /\ callLater("showreply") \in Steps /\ callLater("y") \in Steps
  /\ await("ask_again") \in Steps /\ await("finish") \in Steps /\ await("nothing") \in Steps
  /\ await("wait") \in Steps /\ await("yesno") \in Steps /\ guard("error") \in Steps
  /\ guard("nothing") \in Steps /\ file("cp") \in Steps /\ file("mkdir") \in Steps
  /\ file("mv") \in Steps /\ file("nohup") \in Steps /\ file("rm") \in Steps
  /\ file("rmdir") \in Steps /\ file("tar") \in Steps /\ file("touch") \in Steps
  /\ several \in Seq(Steps)
  /\ \A s, t \in Seq(Steps) : s \o t \in Seq(Steps)
  <1>1. /\ \A m \in Methods : {do(m), callLater(m), await(m), guard(m)} \subseteq Steps
        /\ \A m \in FileCommands : file(m) \in Steps
    BY DEF Steps
  <1>2. {write, raise, processEnded, cancel, answer, hide, show, terminal, cd, makefile, keep,
         linkfile, cutHeader, << "redirFiles" >>, << "leave" >>} \subseteq Steps
    BY DEF Steps
  <1>3. several \in Seq(Steps)
    BY <1>2 DEF several
  <1>4. exit \in Steps
    BY <1>1 DEF exit, Methods
  <1>5. \A s, t \in Seq(Steps) : s \o t \in Seq(Steps)
    OBVIOUS
  <1>6. do("do_install") \in Steps /\ do("do_output") \in Steps /\ do("exit") \in Steps /\ do("flush") \in Steps /\ do("is_valid_chain") \in Steps /\ do("list") \in Steps /\ do("list_rules") \in Steps
    BY <1>1 DEF Methods, FileCommands
  <1>7. do("no_artifact") \in Steps /\ do("no_command") \in Steps /\ do("no_permission") \in Steps /\ do("show_help") \in Steps /\ do("show_version") \in Steps /\ do("success") \in Steps /\ do("to_screen") \in Steps /\ do("unknown_option") \in Steps
    BY <1>1 DEF Methods, FileCommands
  <1>8. do("y") \in Steps
    BY <1>1 DEF Methods, FileCommands
  <1>9. callLater("do_help") \in Steps /\ callLater("do_install") \in Steps /\ callLater("do_output") \in Steps /\ callLater("done") \in Steps /\ callLater("error") \in Steps /\ callLater("fetched") \in Steps /\ callLater("finish") \in Steps
    BY <1>1 DEF Methods, FileCommands
  <1>10. callLater("gotHeaders") \in Steps /\ callLater("installed") \in Steps /\ callLater("pageEnd") \in Steps /\ callLater("run") \in Steps /\ callLater("set_up") \in Steps /\ callLater("showreply") \in Steps /\ callLater("y") \in Steps
    BY <1>1 DEF Methods, FileCommands
  <1>11. await("ask_again") \in Steps /\ await("finish") \in Steps /\ await("nothing") \in Steps /\ await("wait") \in Steps /\ await("yesno") \in Steps
    BY <1>1 DEF Methods, FileCommands
  <1>12. guard("error") \in Steps /\ guard("nothing") \in Steps
    BY <1>1 DEF Methods, FileCommands
  <1>13. file("cp") \in Steps /\ file("mkdir") \in Steps /\ file("mv") \in Steps /\ file("nohup") \in Steps /\ file("rm") \in Steps /\ file("rmdir") \in Steps /\ file("tar") \in Steps /\ file("touch") \in Steps
    BY <1>1 DEF Methods, FileCommands
  <1>14. QED
    BY <1>2, <1>3, <1>4, <1>5, <1>6, <1>7, <1>8, <1>9, <1>10, <1>11, <1>12, <1>13

\* Every command but four takes only such steps.
LEMMA PlainClasses ==
  /\ Plainly(command_whoami)
  /\ Plainly(command_help)
  /\ Plainly(command_w)
  /\ Plainly(command_who)
  /\ Plainly(command_echo)
  /\ Plainly(command_printf)
  /\ Plainly(command_exit)
  /\ Plainly(command_clear)
  /\ Plainly(command_hostname)
  /\ Plainly(command_ps)
  /\ Plainly(command_id)
  /\ Plainly(command_passwd)
  /\ Plainly(command_shutdown)
  /\ Plainly(command_reboot)
  /\ Plainly(command_history)
  /\ Plainly(command_date)
  /\ Plainly(command_yes)
  /\ Plainly(command_chmod)
  /\ Plainly(command_php)
  /\ Plainly(command_chattr)
  /\ Plainly(command_nop)
  /\ Plainly(command_grep)
  /\ Plainly(command_tail)
  /\ Plainly(command_head)
  /\ Plainly(command_cd)
  /\ Plainly(command_rm)
  /\ Plainly(command_cp)
  /\ Plainly(command_mv)
  /\ Plainly(command_mkdir)
  /\ Plainly(command_rmdir)
  /\ Plainly(command_pwd)
  /\ Plainly(command_touch)
  /\ Plainly(command_nohup)
  /\ Plainly(command_tar)
  /\ Plainly(command_cat)
  /\ Plainly(command_base64)
  /\ Plainly(command_dd)
  /\ Plainly(command_perl)
  /\ Plainly(command_python)
  /\ Plainly(command_gcc)
  /\ Plainly(command_iptables)
  /\ Plainly(command_service)
  /\ Plainly(command_ls)
  /\ Plainly(command_du)
  /\ Plainly(command_netstat)
  /\ Plainly(command_uname)
  /\ Plainly(command_ethtool)
  /\ Plainly(command_free)
  /\ Plainly(command_ifconfig)
  /\ Plainly(command_last)
  /\ Plainly(command_ulimit)
  /\ Plainly(command_uptime)
  /\ Plainly(command_which)
  /\ Plainly(command_env)
  /\ Plainly(command_sleep)
  /\ Plainly(command_ping)
  /\ Plainly(command_ssh)
  /\ Plainly(command_adduser)
  /\ Plainly(command_aptget)
  /\ Plainly(command_yum)
  /\ Plainly(command_wget)
  /\ Plainly(command_tftp)
  /\ Plainly(command_ftpget)
  /\ Plainly(command_scp)
  /\ Plainly(command_nc)
  <1> DEFINE C == SUBSET Seq(Steps)
  <1>1. \A f \in [lineReceived : C, handle_CTRL_D : C] : Plainly(f)
    BY DEF Plainly
  <1>2. \A f \in
          [is_valid_chain : C, no_permission : C, list : C, list_rules : C, flush : C] :
          Plainly(f)
    BY DEF Plainly
  <1>3. \A f \in [pageEnd : C] : Plainly(f)
    BY DEF Plainly
  <1>4. \A f \in [call : C] : Plainly(f)
    BY DEF Plainly
  <1>5. \A f \in [call : C, exit : C] : Plainly(f)
    BY DEF Plainly
  <1>6. \A f \in [start : C, ask_again : C, finish : C, lineReceived : C] : Plainly(f)
    BY DEF Plainly
  <1>7. \A f \in [start : C, finish : C] : Plainly(f)
    BY DEF Plainly
  <1>8. \A f \in [start : C, y : C, handle_CTRL_C : C] : Plainly(f)
    BY DEF Plainly
  <1>9. \A f \in [start : C] : Plainly(f)
    BY DEF Plainly
  <1>10. \A f \in [start : C, lineReceived : C, handle_CTRL_D : C] : Plainly(f)
    BY DEF Plainly
  <1>11. \A f \in [start : C, exit : C] : Plainly(f)
    BY DEF Plainly
  <1>12. \A f \in
          [start : C, no_command : C, show_help : C, show_version : C, unknown_option : C] :
          Plainly(f)
    BY DEF Plainly
  <1>13. \A f \in [start : C, done : C] : Plainly(f)
    BY DEF Plainly
  <1>14. \A f \in [start : C, showreply : C, handle_CTRL_C : C] : Plainly(f)
    BY DEF Plainly
  <1>15. \A f \in
          [start : C, yesno : C, wait : C, nothing : C, finish : C, lineReceived : C] :
          Plainly(f)
    BY DEF Plainly
  <1>16. \A f \in [start : C, do_output : C, lineReceived : C] : Plainly(f)
    BY DEF Plainly
  <1>17. \A f \in
          [start : C, do_install : C, fetched : C, set_up : C, installed : C, nothing : C] :
          Plainly(f)
    BY DEF Plainly
  <1>18. \A f \in
          [start : C, do_help : C, do_install : C, lineReceived : C, run : C,
               nothing : C] :
          Plainly(f)
    BY DEF Plainly
  <1>19. \A f \in
          [start : C, success : C, to_screen : C, no_artifact : C, error : C, nothing : C,
               handle_CTRL_C : C] :
          Plainly(f)
    BY DEF Plainly
  <1>20. \A f \in [start : C, nothing : C] : Plainly(f)
    BY DEF Plainly
  <1>21. \A f \in [start : C, lineReceived : C, handle_CTRL_C : C, handle_CTRL_D : C] : Plainly(f)
    BY DEF Plainly
  <1>114. \A f \in [start : C, piped : C] : Plainly(f)
    BY DEF Plainly
  <1>115. \A f \in [start : C, lineReceived : C] : Plainly(f)
    BY DEF Plainly
  <1>116. \A f \in [start : C, piped : C, exit : C] : Plainly(f)
    BY DEF Plainly
  <1>117. \A f \in [start : C, handle_CTRL_C : C] : Plainly(f)
    BY DEF Plainly
  <1>22. \A f, g : Plainly(f) /\ Plainly(g) => Plainly(Over(f, g))
    BY DEF Plainly, Over
  <1>23. UntilEof \in [lineReceived : C, handle_CTRL_D : C]
    BY StepsHave DEF UntilEof
  <1>24. Plainly(UntilEof)
    BY <1>1, <1>23
  <1>25. iptables_tables \in
         [is_valid_chain : C, no_permission : C, list : C, list_rules : C, flush : C]
    BY StepsHave DEF iptables_tables
  <1>26. Plainly(iptables_tables)
    BY <1>2, <1>25
  <1>27. wget_HTTPProgressDownloader \in [pageEnd : C]
    BY StepsHave DEF wget_HTTPProgressDownloader
  <1>28. Plainly(wget_HTTPProgressDownloader)
    BY <1>3, <1>27
  <1>29. Writes \in [call : C]
    BY StepsHave DEF Writes
  <1>30. MayWrite \in [call : C]
    BY StepsHave DEF MayWrite
  <1>31. Silent \in [call : C]
    BY StepsHave DEF Silent
  <1>32. command_w \in [call : C]
    BY StepsHave DEF command_w
  <1>33. command_printf \in [call : C]
    BY StepsHave DEF command_printf
  <1>34. command_clear \in [call : C]
    BY StepsHave DEF command_clear
  <1>35. command_ps \in [call : C]
    BY StepsHave DEF command_ps
  <1>36. command_history \in [call : C]
    BY StepsHave DEF command_history
  <1>37. command_chmod \in [call : C]
    BY StepsHave DEF command_chmod
  <1>38. command_cd \in [call : C]
    BY StepsHave DEF command_cd
  <1>39. command_rm \in [call : C]
    BY StepsHave DEF command_rm
  <1>40. command_cp \in [call : C]
    BY StepsHave DEF command_cp
  <1>41. command_mv \in [call : C]
    BY StepsHave DEF command_mv
  <1>42. command_mkdir \in [call : C]
    BY StepsHave DEF command_mkdir
  <1>43. command_rmdir \in [call : C]
    BY StepsHave DEF command_rmdir
  <1>44. command_touch \in [call : C]
    BY StepsHave DEF command_touch
  <1>45. command_nohup \in [call : C]
    BY StepsHave DEF command_nohup
  <1>46. command_tar \in [call : C]
    BY StepsHave DEF command_tar
  <1>47. command_service \in [call : C]
    BY StepsHave DEF command_service
  <1>48. command_ls \in [call : C]
    BY StepsHave DEF command_ls
  <1>49. command_du \in [call : C]
    BY StepsHave DEF command_du
  <1>50. command_netstat \in [call : C]
    BY StepsHave DEF command_netstat
  <1>51. command_last \in [call : C]
    BY StepsHave DEF command_last
  <1>52. command_which \in [call : C]
    BY StepsHave DEF command_which
  <1>53. command_env \in [call : C]
    BY StepsHave DEF command_env
  <1>54. Plainly(Writes) /\ Plainly(MayWrite) /\ Plainly(Silent) /\ Plainly(command_w) /\
        Plainly(command_printf) /\ Plainly(command_clear) /\ Plainly(command_ps) /\
        Plainly(command_history) /\ Plainly(command_chmod) /\ Plainly(command_cd) /\
        Plainly(command_rm) /\ Plainly(command_cp) /\ Plainly(command_mv) /\
        Plainly(command_mkdir) /\ Plainly(command_rmdir) /\ Plainly(command_touch) /\
        Plainly(command_nohup) /\ Plainly(command_tar) /\ Plainly(command_service) /\
        Plainly(command_ls) /\ Plainly(command_du) /\ Plainly(command_netstat) /\
        Plainly(command_last) /\ Plainly(command_which) /\ Plainly(command_env)
    BY <1>4, <1>29, <1>30, <1>31, <1>32, <1>33, <1>34, <1>35, <1>36, <1>37, <1>38, <1>39,
       <1>40, <1>41, <1>42, <1>43, <1>44, <1>45, <1>46, <1>47, <1>48, <1>49, <1>50, <1>51,
       <1>52, <1>53
  <1>55. command_exit \in [call : C, exit : C]
    BY StepsHave DEF command_exit
  <1>56. Plainly(command_exit)
    BY <1>5, <1>55
  <1>57. command_passwd \in [start : C, ask_again : C, finish : C, lineReceived : C]
    BY StepsHave DEF command_passwd
  <1>58. Plainly(command_passwd)
    BY <1>6, <1>57
  <1>59. command_shutdown \in [start : C, finish : C]
    BY StepsHave DEF command_shutdown
  <1>60. command_reboot \in [start : C, finish : C]
    BY StepsHave DEF command_reboot
  <1>61. Plainly(command_shutdown) /\ Plainly(command_reboot)
    BY <1>7, <1>59, <1>60
  <1>62. command_yes \in [start : C, y : C, handle_CTRL_C : C]
    BY StepsHave DEF command_yes
  <1>63. Plainly(command_yes)
    BY <1>8, <1>62
  <1> DEFINE own_php ==
            [start |-> {<< >>, several \o << exit >>, << exit >>}]
  <1>64. own_php \in [start : C]
    BY StepsHave
  <1> DEFINE own_grep ==
            [start |-> {<< write, exit >>, << exit >>, several \o << exit >>},
             piped |-> {<< write, exit >>, << exit >>, several \o << exit >>, << raise >>}]
  <1>65. own_grep \in [start : C, piped : C]
    BY StepsHave
  <1> DEFINE own_tail ==
            [start |-> {<< >>, << exit >>, several \o << exit >>}]
  <1>66. own_tail \in [start : C]
    BY StepsHave
  <1> DEFINE own_head ==
            [start |-> {<< >>, << exit >>, several \o << exit >>}]
  <1>67. own_head \in [start : C]
    BY StepsHave
  <1> DEFINE own_base64 ==
            [start |-> {<< write, exit >>, << exit >>, << raise >>},
             lineReceived |-> {<< >>, << raise >>}]
  <1>68. own_base64 \in [start : C, lineReceived : C]
    BY StepsHave
  <1> DEFINE own_perl ==
            [start |-> {<< >>, << write, exit >>, << exit >>, << exit, write, exit >>,
            << write, exit, raise >>}]
  <1>69. own_perl \in [start : C]
    BY StepsHave
  <1> DEFINE own_python ==
            [start |-> {<< >>, << write, exit >>, << exit >>, << exit, write, exit >>}]
  <1>70. own_python \in [start : C]
    BY StepsHave
  <1>71. command_ftpget \in [start : C]
    BY StepsHave DEF command_ftpget
  <1>72. Plainly(own_php) /\ Plainly(own_grep) /\ Plainly(own_tail) /\ Plainly(own_head) /\
        Plainly(own_base64) /\ Plainly(own_perl) /\ Plainly(own_python) /\
        Plainly(command_ftpget)
    BY <1>9, <1>64, <1>65, <1>66, <1>67, <1>68, <1>69, <1>70, <1>71, <1>114, <1>115
  <1>118. command_gcc \in [start : C, handle_CTRL_C : C]
    BY StepsHave DEF command_gcc
  <1>119. Plainly(command_gcc)
    BY <1>117, <1>118
  <1>73. command_cat \in [start : C, lineReceived : C, handle_CTRL_D : C]
    BY StepsHave DEF command_cat
  <1>74. command_scp \in [start : C, lineReceived : C, handle_CTRL_D : C]
    BY StepsHave DEF command_scp
  <1>75. Plainly(command_cat) /\ Plainly(command_scp)
    BY <1>10, <1>73, <1>74
  <1> DEFINE own_dd ==
            LET leave == << << "redirFiles" >>, << "leave" >> >>
            unknown == << write >> \o leave
            IN [start |-> {<< >>, << write, exit >>, << exit >>, << raise >>, unknown \o << raise >>,
                           unknown, unknown \o << write, exit >>},
                piped |-> {<< >>, << raise >>, unknown \o << raise >>},
                exit |-> {several \o << write >> \o leave, leave}]
  <1>76. own_dd \in [start : C, piped : C, exit : C]
    BY StepsHave
  <1>77. Plainly(own_dd)
    BY <1>116, <1>76
  <1> DEFINE own_iptables ==
            [start |-> {<< do(m) >> : m \in {"no_command", "show_help", "show_version", "list",
            "list_rules", "flush", "unknown_option", "exit"}},
            no_command |-> {<< write, exit >>},
            show_help |-> {<< write, exit >>},
            show_version |-> {<< write, exit >>},
            unknown_option |-> {<< write, exit >>}]
  <1>78. \A m \in {"no_command", "show_help", "show_version", "list", "list_rules", "flush", "unknown_option",
             "exit"} :
           << do(m) >> \in Seq(Steps)
    BY StepsHave
  <1>79. own_iptables.start \subseteq Seq(Steps)
    BY <1>78
  <1>80. own_iptables \in
         [start : C, no_command : C, show_help : C, show_version : C, unknown_option : C]
    BY <1>79, StepsHave
  <1>81. Plainly(own_iptables)
    BY <1>12, <1>80
  <1>82. command_sleep \in [start : C, done : C]
    BY StepsHave DEF command_sleep
  <1>83. Plainly(command_sleep)
    BY <1>13, <1>82
  <1>84. command_ping \in [start : C, showreply : C, handle_CTRL_C : C]
    BY StepsHave DEF command_ping
  <1>85. Plainly(command_ping)
    BY <1>14, <1>84
  <1>86. command_ssh \in
         [start : C, yesno : C, wait : C, nothing : C, finish : C, lineReceived : C]
    BY StepsHave DEF command_ssh
  <1>87. Plainly(command_ssh)
    BY <1>15, <1>86
  <1>88. command_adduser \in [start : C, do_output : C, lineReceived : C]
    BY StepsHave DEF command_adduser
  <1>89. Plainly(command_adduser)
    BY <1>16, <1>88
  <1>90. command_aptget \in
         [start : C, do_install : C, fetched : C, set_up : C, installed : C, nothing : C]
    BY StepsHave DEF command_aptget
  <1>91. Plainly(command_aptget)
    BY <1>17, <1>90
  <1>92. command_yum \in
         [start : C, do_help : C, do_install : C, lineReceived : C, run : C,
          nothing : C]
    BY StepsHave DEF command_yum, yum_do_install, yum_run
  <1>93. Plainly(command_yum)
    BY <1>18, <1>92
  <1> DEFINE own_wget ==
            [start |-> {<< exit >>, << callLater("pageEnd") >>, << callLater("error") >>},
            success |-> {<< terminal, linkfile, exit >>},
            to_screen |-> {<< terminal, raise >>},
            no_artifact |-> {<< exit, terminal, exit >>},
            error |-> {<< terminal, guard("nothing"), exit >>},
            nothing |-> {<< >>},
            handle_CTRL_C |-> {<< cancel, callLater("error") >>}]
  <1>94. own_wget \in
         [start : C, success : C, to_screen : C, no_artifact : C, error : C, nothing : C,
          handle_CTRL_C : C]
    BY StepsHave
  <1>95. Plainly(own_wget)
    BY <1>19, <1>94
  <1>96. command_tftp \in [start : C, nothing : C]
    BY StepsHave DEF command_tftp
  <1>97. Plainly(command_tftp)
    BY <1>20, <1>96
  <1>98. command_nc \in [start : C, lineReceived : C, handle_CTRL_C : C, handle_CTRL_D : C]
    BY StepsHave DEF command_nc
  <1>99. Plainly(command_nc)
    BY <1>21, <1>98
  <1>100. Plainly(command_php)
    BY <1>22, <1>24, <1>72 DEF command_php
  <1>101. Plainly(command_grep)
    BY <1>22, <1>24, <1>72 DEF command_grep
  <1>102. Plainly(command_tail)
    BY <1>22, <1>24, <1>72 DEF command_tail
  <1>103. Plainly(command_head)
    BY <1>22, <1>24, <1>72 DEF command_head
  <1>104. Plainly(command_base64)
    BY <1>22, <1>24, <1>72 DEF command_base64
  <1>105. Plainly(command_dd)
    BY <1>22, <1>24, <1>77 DEF command_dd
  <1>106. Plainly(command_perl)
    BY <1>22, <1>24, <1>72 DEF command_perl
  <1>107. Plainly(command_python)
    BY <1>22, <1>24, <1>72 DEF command_python
  <1>108. Plainly(command_iptables)
    BY <1>22, <1>26, <1>81 DEF command_iptables
  <1>109. Plainly(command_wget)
    BY <1>22, <1>28, <1>95 DEF command_wget
  <1>110. Plainly(command_whoami) /\ Plainly(command_help) /\ Plainly(command_who) /\
        Plainly(command_id) /\ Plainly(command_date) /\ Plainly(command_pwd) /\
        Plainly(command_ethtool) /\ Plainly(command_ifconfig) /\ Plainly(command_uptime)
    BY <1>54
       DEF command_whoami, command_help, command_who, command_id, command_date, command_pwd,
          command_ethtool, command_ifconfig, command_uptime
  <1>120. command_echo \in [call : C]
    BY StepsHave DEF command_echo
  <1>121. Plainly(command_echo)
    BY <1>4, <1>120
  <1>111. Plainly(command_hostname) /\ Plainly(command_chattr) /\
        Plainly(command_uname) /\ Plainly(command_free) /\ Plainly(command_ulimit)
    BY <1>54
       DEF command_hostname, command_chattr, command_uname, command_free,
          command_ulimit
  <1>112. Plainly(command_nop)
    BY <1>54
       DEF command_nop
  <1>113. QED
    BY <1>54, <1>56, <1>58, <1>61, <1>63, <1>72, <1>75, <1>83, <1>85, <1>87, <1>89, <1>91,
       <1>93, <1>97, <1>99, <1>100, <1>101, <1>102, <1>103, <1>104, <1>105, <1>106, <1>107,
       <1>108, <1>109, <1>110, <1>111, <1>112, <1>119, <1>121

\* The steps of the class all commands extend, and of sh
BaseSteps == {write, exit, raise, << "redirFiles" >>, << "leave" >>}

LEMMA BaseInSteps == Seq(BaseSteps) \subseteq Seq(Steps)
  <1>1. BaseSteps \subseteq Steps
    BY StepsHave DEF BaseSteps
  <1>2. QED
    BY <1>1, SeqMonotonic

\* The methods of HoneyPotCommand, as a class has them that redefines none
LEMMA BaseCourses ==
  /\ DOMAIN HoneyPotCommand =
       {"start", "call", "exit", "handle_CTRL_C", "handle_CTRL_D", "lineReceived"}
  /\ HoneyPotCommand.start = {<< do("call"), exit >>}
  /\ HoneyPotCommand.lineReceived = {<< queue >>}
  /\ \A m \in {"call", "exit", "handle_CTRL_C", "handle_CTRL_D"} :
       HoneyPotCommand[m] \subseteq Seq(BaseSteps)
  <1>1. /\ HoneyPotCommand.call \subseteq Seq(BaseSteps)
        /\ HoneyPotCommand.exit \subseteq Seq(BaseSteps)
        /\ HoneyPotCommand.handle_CTRL_C \subseteq Seq(BaseSteps)
        /\ HoneyPotCommand.handle_CTRL_D \subseteq Seq(BaseSteps)
    BY DEF HoneyPotCommand, BaseSteps
  <1>2. /\ DOMAIN HoneyPotCommand =
             {"start", "call", "exit", "handle_CTRL_C", "handle_CTRL_D", "lineReceived"}
        /\ HoneyPotCommand.start = {<< do("call"), exit >>}
        /\ HoneyPotCommand.lineReceived = {<< queue >>}
    BY DEF HoneyPotCommand
  <1>3. QED
    BY <1>1, <1>2

\* Where a course is not made of the plain steps
Special(c, m, course) ==
  \/ m = "start" /\ course = << do("call"), exit >>
  \/ m = "lineReceived" /\ course = << queue >>
  \/ c = "sh" /\ m = "call" /\ course = << shell, pop >>
  \/ c = "sudo" /\ m = "start" /\ course \in {<< insert, exit >>, << insert, raise >>}
  \/ c = "busybox" /\ m = "call"
     /\ course \in {<< insert, outConnectionLost >>, << insert, outConnectionLost, raise >>}
  \/ c = "curl" /\ m = "start"
     /\ course \in {<< temp, callLater("error") >>, << temp, callLater("gotHeaders") >>}
  \/ c = "curl" /\ m = "success" /\ course = << move, terminal, linkfile, exit >>
  \/ c = "curl" /\ m = "pageEnd"
     /\ course \in {<< write, fill, makefile, linkfile, do("success"), guard("error") >>,
                    << fill, do("success"), guard("error") >>,
                    << write, fill, move, terminal, raise, guard("error") >>}

\* What a course of the class c may be
Allowed(c, m, course) ==
  \/ course \in Seq(Steps) /\ c # "sh"
  \/ course \in Seq(BaseSteps)
  \/ Special(c, m, course)

\* A class that takes only such courses, its own methods over those it inherits
LEMMA AllowedOver ==
  ASSUME NEW c, NEW f, NEW m \in DOMAIN Over(f, HoneyPotCommand),
         \A n \in DOMAIN f : \A course \in f[n] : Allowed(c, n, course),
         NEW course \in Over(f, HoneyPotCommand)[m]
  PROVE  Allowed(c, m, course)
  <1>1. CASE m \in DOMAIN f
    BY <1>1 DEF Over
  <1>2. CASE m \notin DOMAIN f
    <2>1. m \in DOMAIN HoneyPotCommand /\ course \in HoneyPotCommand[m]
      BY <1>2 DEF Over
    <2>2. QED
      BY <2>1, BaseCourses DEF Allowed, Special
  <1>3. QED
    BY <1>1, <1>2


\* The four commands that PlainClasses leaves out
LEMMA OddClasses ==
  /\ \A n \in DOMAIN command_sh : \A course \in command_sh[n] : Allowed("sh", n, course)
  /\ \A n \in DOMAIN command_curl : \A course \in command_curl[n] : Allowed("curl", n, course)
  /\ \A n \in DOMAIN command_sudo :
       /\ n \in {"start", "piped"}
       /\ \A course \in command_sudo[n] : Allowed("sudo", "start", course)
  /\ \A n \in DOMAIN command_busybox :
       /\ n \in {"call", "pipedcall"}
       /\ \A course \in command_busybox[n] : Allowed("busybox", "call", course)
  <1>1. \A n \in DOMAIN command_sh : \A course \in command_sh[n] : Allowed("sh", n, course)
    <2>1. DOMAIN command_sh = {"call"} /\ command_sh.call = {<< >>, << shell, pop >>, << raise >>}
      BY DEF command_sh
    <2>2. << >> \in Seq(BaseSteps) /\ << raise >> \in Seq(BaseSteps)
      BY DEF BaseSteps
    <2>3. QED
      BY <2>1, <2>2 DEF Allowed, Special
  <1>3. \A n \in DOMAIN command_curl : \A course \in command_curl[n] : Allowed("curl", n, course)
    <2> DEFINE own ==
          [start |-> curl_start,
           success |-> {<< move, terminal, linkfile, exit >>, << exit, raise >>},
           error |-> {<< write, terminal, exit >>},
           handle_CTRL_C |-> {<< write, cancel, callLater("error") >>}]
    <2>1. /\ DOMAIN own = {"start", "success", "error", "handle_CTRL_C"}
          /\ own.start = curl_start
          /\ own.success = {<< move, terminal, linkfile, exit >>, << exit, raise >>}
          /\ own.error = {<< write, terminal, exit >>}
          /\ own.handle_CTRL_C = {<< write, cancel, callLater("error") >>}
      OBVIOUS
    <2>2. /\ DOMAIN curl_HTTPProgressDownloader = {"gotHeaders", "pageEnd"}
          /\ curl_HTTPProgressDownloader.gotHeaders =
               {several \o << callLater("pageEnd") >>, << callLater("pageEnd") >>}
          /\ curl_HTTPProgressDownloader.pageEnd =
               {<< write, fill, makefile, linkfile, do("success"), guard("error") >>,
                << fill, do("success"), guard("error") >>,
                << write, fill, move, terminal, raise, guard("error") >>}
      BY DEF curl_HTTPProgressDownloader
    <2>3. /\ curl_help \in Seq(Steps) /\ << exit >> \in Seq(Steps) /\ << exit, raise >> \in Seq(Steps)
          /\ << write, terminal, exit >> \in Seq(Steps)
          /\ << write, cancel, callLater("error") >> \in Seq(Steps)
          /\ << callLater("pageEnd") >> \in Seq(Steps)
          /\ several \o << callLater("pageEnd") >> \in Seq(Steps)
      BY StepsHave DEF curl_help
    <2> HIDE DEF own
    <2>4. \A n \in DOMAIN own : \A course \in own[n] : Allowed("curl", n, course)
      BY <2>1, <2>3 DEF Allowed, Special, curl_start
    <2>5. \A n \in DOMAIN curl_HTTPProgressDownloader :
            \A course \in curl_HTTPProgressDownloader[n] : Allowed("curl", n, course)
      BY <2>2, <2>3 DEF Allowed, Special
    <2>6. command_curl = Over(curl_HTTPProgressDownloader, own)
      BY DEF command_curl, own
    <2>7. QED
      BY <2>4, <2>5, <2>6 DEF Over
  <1>4. \A n \in DOMAIN command_sudo :
          /\ n \in {"start", "piped"}
          /\ \A course \in command_sudo[n] : Allowed("sudo", "start", course)
    <2>1. /\ DOMAIN command_sudo = {"start", "piped"}
          /\ command_sudo.start = {<< exit >>, << insert, exit >>}
          /\ command_sudo.piped = {<< exit >>, << insert, raise >>}
      BY DEF command_sudo
    <2>2. << exit >> \in Seq(Steps)
      BY StepsHave
    <2>3. QED
      BY <2>1, <2>2 DEF Allowed, Special
  <1>5. \A n \in DOMAIN command_busybox :
          /\ n \in {"call", "pipedcall"}
          /\ \A course \in command_busybox[n] : Allowed("busybox", "call", course)
    <2>1. /\ DOMAIN command_busybox = {"call", "pipedcall"}
          /\ command_busybox.call = {<< >>, << write >>, << insert, outConnectionLost >>}
          /\ command_busybox.pipedcall = {<< >>, << write >>, << insert, outConnectionLost, raise >>}
      BY DEF command_busybox
    <2>2. << >> \in Seq(Steps) /\ << write >> \in Seq(Steps)
      BY StepsHave
    <2>3. QED
      BY <2>1, <2>2 DEF Allowed, Special
  <1>6. QED
    BY <1>1, <1>3, <1>4, <1>5

\* Every command of the table
LEMMA AllClasses ==
  ASSUME NEW c \in DOMAIN commands
  PROVE  \/ Plainly(commands[c]) /\ c \notin {"sh", "curl", "sudo", "busybox"}
         \/ c = "sh" /\ commands[c] = command_sh
         \/ c = "curl" /\ commands[c] = command_curl
         \/ c = "sudo" /\ commands[c] = command_sudo
         \/ c = "busybox" /\ commands[c] = command_busybox
  <1>1. c \in {"whoami", "help", "w", "who", "echo", "printf", "exit", "clear", "hostname", "ps", "id",
               "passwd", "shutdown", "reboot", "history", "date", "yes", "sh", "chmod", "php",
               "chattr", "nop", "grep", "tail", "head", "cd", "rm", "cp", "mv", "mkdir",
               "rmdir", "pwd", "touch", "nohup", "tar", "cat", "base64", "dd", "perl",
               "python", "gcc", "iptables", "service", "ls", "du", "netstat", "uname",
               "ethtool", "free", "ifconfig", "last", "ulimit", "uptime", "which", "env",
               "sudo", "busybox", "sleep", "ping", "ssh", "adduser", "aptget", "yum", "wget",
               "curl", "tftp", "ftpget", "scp", "nc"}
    BY DEF commands
  <1>2. /\ commands["whoami"] = command_whoami
        /\ commands["help"] = command_help
        /\ commands["w"] = command_w
        /\ commands["who"] = command_who
        /\ commands["echo"] = command_echo
        /\ commands["printf"] = command_printf
        /\ commands["exit"] = command_exit
        /\ commands["clear"] = command_clear
    BY DEF commands
  <1>3. /\ commands["hostname"] = command_hostname
        /\ commands["ps"] = command_ps
        /\ commands["id"] = command_id
        /\ commands["passwd"] = command_passwd
        /\ commands["shutdown"] = command_shutdown
        /\ commands["reboot"] = command_reboot
        /\ commands["history"] = command_history
        /\ commands["date"] = command_date
    BY DEF commands
  <1>4. /\ commands["yes"] = command_yes
        /\ commands["chmod"] = command_chmod
        /\ commands["php"] = command_php
        /\ commands["chattr"] = command_chattr
        /\ commands["nop"] = command_nop
        /\ commands["grep"] = command_grep
        /\ commands["tail"] = command_tail
        /\ commands["head"] = command_head
    BY DEF commands
  <1>5. /\ commands["cd"] = command_cd
        /\ commands["rm"] = command_rm
        /\ commands["cp"] = command_cp
        /\ commands["mv"] = command_mv
        /\ commands["mkdir"] = command_mkdir
        /\ commands["rmdir"] = command_rmdir
        /\ commands["pwd"] = command_pwd
        /\ commands["touch"] = command_touch
    BY DEF commands
  <1>6. /\ commands["nohup"] = command_nohup
        /\ commands["tar"] = command_tar
        /\ commands["cat"] = command_cat
        /\ commands["base64"] = command_base64
        /\ commands["dd"] = command_dd
        /\ commands["perl"] = command_perl
        /\ commands["python"] = command_python
        /\ commands["iptables"] = command_iptables
    BY DEF commands
  <1>7. /\ commands["service"] = command_service
        /\ commands["ls"] = command_ls
        /\ commands["du"] = command_du
        /\ commands["netstat"] = command_netstat
        /\ commands["uname"] = command_uname
        /\ commands["ethtool"] = command_ethtool
        /\ commands["free"] = command_free
        /\ commands["ifconfig"] = command_ifconfig
    BY DEF commands
  <1>8. /\ commands["last"] = command_last
        /\ commands["ulimit"] = command_ulimit
        /\ commands["uptime"] = command_uptime
        /\ commands["which"] = command_which
        /\ commands["env"] = command_env
        /\ commands["sleep"] = command_sleep
        /\ commands["ping"] = command_ping
        /\ commands["ssh"] = command_ssh
    BY DEF commands
  <1>9. /\ commands["adduser"] = command_adduser
        /\ commands["aptget"] = command_aptget
        /\ commands["yum"] = command_yum
        /\ commands["wget"] = command_wget
        /\ commands["tftp"] = command_tftp
        /\ commands["ftpget"] = command_ftpget
        /\ commands["scp"] = command_scp
        /\ commands["nc"] = command_nc
    BY DEF commands
  <1>10. /\ commands["sh"] = command_sh
        /\ commands["sudo"] = command_sudo
        /\ commands["busybox"] = command_busybox
        /\ commands["gcc"] = command_gcc
        /\ commands["curl"] = command_curl
    BY DEF commands
  <1>11. QED
    BY <1>1, <1>2, <1>3, <1>4, <1>5, <1>6, <1>7, <1>8, <1>9, <1>10, PlainClasses

\* What a method does is one of the courses allowed to it.  (A piped start and a
\* piped call stand for those without a pipe, and are not called by their names.)
LEMMA CourseFacts ==
  ASSUME NEW c \in DOMAIN commands, NEW m, m \notin {"piped", "pipedcall"}, NEW fed,
         NEW course \in Courses(c, m, fed)
  PROVE  Allowed(c, m, course)
  <1> DEFINE f == commands[c]
  <1>1. Class[c] = Over(f, HoneyPotCommand)
    BY DEF Class
  <1>2. << raise >> \in Seq(BaseSteps)
    BY DEF BaseSteps
  <1>3. "piped" \notin DOMAIN HoneyPotCommand /\ "pipedcall" \notin DOMAIN HoneyPotCommand
    BY BaseCourses
  <1>4. \/ "piped" \in DOMAIN Class[c] /\ m = "start" /\ course \in Class[c].piped
        \/ "pipedcall" \in DOMAIN Class[c] /\ m = "call" /\ course \in Class[c].pipedcall
        \/ m \in DOMAIN Class[c] /\ course \in Class[c][m]
        \/ course = << raise >>
    <2> HIDE DEF f
    <2> QED BY DEF Courses
  <1>5. DOMAIN Class[c] = DOMAIN f \cup DOMAIN HoneyPotCommand
    BY <1>1 DEF Over
  <1>6. CASE c \notin {"sudo", "busybox"}
    <2>1. \A n \in DOMAIN f : \A x \in f[n] : Allowed(c, n, x)
      <3>1. \/ Plainly(f) /\ c # "sh"
            \/ c = "sh" /\ f = command_sh
            \/ c = "curl" /\ f = command_curl
        BY <1>6, AllClasses
      <3>2. Plainly(f) /\ c # "sh" => \A n \in DOMAIN f : \A x \in f[n] : Allowed(c, n, x)
        <4> HIDE DEF f
        <4> QED BY DEF Plainly, Allowed
      <3> HIDE DEF f
      <3>3. QED
        BY <3>1, <3>2, OddClasses
    <2>2. \A n \in DOMAIN Class[c] : \A x \in Class[c][n] : Allowed(c, n, x)
      <3> HIDE DEF f
      <3> QED BY <1>1, <2>1, AllowedOver
    <2>3. \A n \in {"piped", "pipedcall"} : ~Special(c, n, course)
      BY DEF Special
    <2>4. \A n \in {"piped", "pipedcall"} : Allowed(c, n, course) => Allowed(c, m, course)
      BY <2>3 DEF Allowed
    <2>5. Allowed(c, m, << raise >>)
      BY <1>2 DEF Allowed
    <2> HIDE DEF f
    <2>6. QED
      BY <1>4, <2>2, <2>4, <2>5
  <1>7. CASE c \in {"sudo", "busybox"}
    <2> DEFINE own == IF c = "sudo" THEN "start" ELSE "call"
    <2>1. \A n \in DOMAIN f : n \in {own, "piped", "pipedcall"} /\ \A x \in f[n] : Allowed(c, own, x)
      <3>1. (c = "sudo" /\ f = command_sudo) \/ (c = "busybox" /\ f = command_busybox)
        BY <1>7, AllClasses
      <3> HIDE DEF f
      <3>2. QED
        BY <3>1, OddClasses
    <2>2. \A n \in DOMAIN f : n = "piped" => own = "start"
      <3>1. (c = "sudo" /\ f = command_sudo) \/ (c = "busybox" /\ f = command_busybox)
        BY <1>7, AllClasses
      <3> HIDE DEF f
      <3>2. QED
        BY <3>1, OddClasses
    <2>3. \A n \in DOMAIN f : n = "pipedcall" => own = "call"
      <3>1. (c = "sudo" /\ f = command_sudo) \/ (c = "busybox" /\ f = command_busybox)
        BY <1>7, AllClasses
      <3> HIDE DEF f
      <3>2. QED
        BY <3>1, OddClasses
    <2>4. Allowed(c, m, << raise >>)
      BY <1>2 DEF Allowed
    <2>5. CASE m \in DOMAIN Class[c] /\ course \in Class[c][m]
      <3>1. CASE m \in DOMAIN f
        <4>1. course \in f[m]
          <5> HIDE DEF f
          <5> QED BY <1>1, <2>5, <3>1 DEF Over
        <4>2. m = own
          BY <2>1, <3>1
        <4> HIDE DEF f, own
        <4> QED BY <2>1, <3>1, <4>1, <4>2
      <3>2. CASE m \notin DOMAIN f
        <4>1. m \in DOMAIN HoneyPotCommand /\ course \in HoneyPotCommand[m]
          <5> HIDE DEF f
          <5> QED BY <1>1, <2>5, <3>2 DEF Over
        <4> HIDE DEF f, own
        <4> QED BY <4>1, BaseCourses DEF Allowed, Special
      <3> QED BY <3>1, <3>2
    <2>6. CASE "piped" \in DOMAIN Class[c] /\ m = "start" /\ course \in Class[c].piped
      <3>1. "piped" \in DOMAIN f /\ course \in f["piped"]
        <4> HIDE DEF f
        <4> QED BY <1>1, <1>3, <1>5, <2>6 DEF Over
      <3> HIDE DEF f, own
      <3>2. QED
        BY <2>1, <2>2, <2>6, <3>1
    <2>7. CASE "pipedcall" \in DOMAIN Class[c] /\ m = "call" /\ course \in Class[c].pipedcall
      <3>1. "pipedcall" \in DOMAIN f /\ course \in f["pipedcall"]
        <4> HIDE DEF f
        <4> QED BY <1>1, <1>3, <1>5, <2>7 DEF Over
      <3> HIDE DEF f, own
      <3>2. QED
        BY <2>1, <2>3, <2>7, <3>1
    <2>8. QED
      BY <1>4, <2>4, <2>5, <2>6, <2>7
  <1>8. QED
    BY <1>6, <1>7

\* Induction, with the set of the numbers something is true of
LEMMA Induct ==
  ASSUME NEW S, 0 \in S, \A n \in Nat : n \in S => n + 1 \in S
  PROVE  Nat \subseteq S
<1> DEFINE T == Nat \ S
           R == {ss \in Nat \X Nat : ss[1] < ss[2]}
<1> SUFFICES ASSUME T # {} PROVE FALSE
  OBVIOUS
<1>1. IsWellFoundedOn(R, Nat)
  BY NatLessThanWellFounded DEF OpToRel
<1>2. PICK x \in T : \A y \in T : <<y, x>> \notin R
  <2> HIDE DEF R
  <2> QED BY <1>1, WFMin
<1>3. x # 0 /\ x - 1 \in Nat
  OBVIOUS
<1>4. x - 1 \in T
  OBVIOUS
<1>5. <<x - 1, x>> \in R
  BY <1>3
<1> QED
  BY <1>2, <1>4, <1>5

\* ... and as far as a number m
LEMMA InductTo ==
  ASSUME NEW m \in Nat, NEW S, 0 \in S, \A n \in 1 .. m : n - 1 \in S => n \in S
  PROVE  0 .. m \subseteq S
<1> DEFINE T == {n \in Nat : n <= m => n \in S}
<1>1. 0 \in T
  OBVIOUS
<1>2. \A n \in Nat : n \in T => n + 1 \in T
  <2> SUFFICES ASSUME NEW n \in Nat, n \in T, n + 1 <= m PROVE n + 1 \in S
    OBVIOUS
  <2>1. n + 1 \in 1 .. m /\ (n + 1) - 1 \in S
    OBVIOUS
  <2> QED
    BY <2>1
<1>3. Nat \subseteq T
  <2> HIDE DEF T
  <2> QED
    BY <1>1, <1>2, Induct
<1> QED
  BY <1>3

\* A finite list
Listed(s) == \E S : s \in Seq(S)

\* The domain of a list
LEMMA ListedShape ==
  ASSUME NEW s, Listed(s)
  PROVE  Len(s) \in Nat /\ DOMAIN s = 1 .. Len(s)
  BY DEF Listed

\* The list with nothing on it
LEMMA ListedEmpty == Listed(<< >>) /\ Len(<< >>) = 0 /\ DOMAIN << >> = {}
<1>1. << >> \in Seq({})
  OBVIOUS
<1> QED
  BY <1>1 DEF Listed

\* A list put after another
LEMMA ListedConcat ==
  ASSUME NEW s, NEW t, Listed(s), Listed(t)
  PROVE  /\ Listed(s \o t)
         /\ Len(s \o t) = Len(s) + Len(t)
         /\ \A i \in 1 .. Len(s) : (s \o t)[i] = s[i]
         /\ \A i \in 1 .. Len(t) : (s \o t)[Len(s) + i] = t[i]
<1>1. PICK S, T : s \in Seq(S) /\ t \in Seq(T)
  BY DEF Listed
<1>2. s \in Seq(S \union T) /\ t \in Seq(S \union T)
  BY <1>1, SeqMonotonic
<1>3. s \o t \in Seq(S \union T) /\ Len(s \o t) = Len(s) + Len(t)
      /\ \A i \in 1 .. Len(s) + Len(t) : (s \o t)[i] = IF i <= Len(s) THEN s[i] ELSE t[i - Len(s)]
  BY <1>2, ConcatProperties
<1>4. Len(s) \in Nat /\ Len(t) \in Nat
  BY ListedShape
<1> QED
  BY <1>3, <1>4 DEF Listed

\* A list with one more
LEMMA ListedAppend ==
  ASSUME NEW s, NEW e, Listed(s)
  PROVE  /\ Listed(Append(s, e))
         /\ Len(Append(s, e)) = Len(s) + 1
         /\ \A i \in 1 .. Len(s) : Append(s, e)[i] = s[i]
         /\ Append(s, e)[Len(s) + 1] = e
<1>1. PICK S : s \in Seq(S)
  BY DEF Listed
<1>2. s \in Seq(S \union {e}) /\ e \in S \union {e}
  BY <1>1, SeqMonotonic
<1> QED
  BY <1>2, AppendProperties DEF Listed

\* A list of one
LEMMA ListedSingle ==
  ASSUME NEW e
  PROVE  Listed(<< e >>) /\ Len(<< e >>) = 1 /\ << e >>[1] = e
<1>1. << e >> \in Seq({e})
  OBVIOUS
<1> QED
  BY <1>1 DEF Listed

\* A list with, perhaps, an entry replaced
LEMMA ListedExcept ==
  ASSUME NEW s, NEW i, NEW e, Listed(s)
  PROVE  /\ Listed([s EXCEPT ![i] = e])
         /\ Len([s EXCEPT ![i] = e]) = Len(s)
<1>1. PICK S : s \in Seq(S)
  BY DEF Listed
<1>2. s \in Seq(S \union {e})
  BY <1>1, SeqMonotonic
<1>3. [s EXCEPT ![i] = e] \in Seq(S \union {e}) /\ Len([s EXCEPT ![i] = e]) = Len(s)
  <2>1. CASE i \in 1 .. Len(s)
    BY <1>2, <2>1, ExceptSeq
  <2>2. CASE i \notin 1 .. Len(s)
    <3>1. DOMAIN s = 1 .. Len(s) /\ s = [j \in DOMAIN s |-> s[j]]
      BY <1>2
    <3>2. [s EXCEPT ![i] = e] = s
      BY <2>2, <3>1
    <3> QED
      BY <1>2, <3>2
  <2> QED
    BY <2>1, <2>2
<1> QED
  BY <1>3 DEF Listed

\* A function of the first n numbers is a list.
LEMMA ListedFunction ==
  ASSUME NEW n \in Nat, NEW f, f = [i \in DOMAIN f |-> f[i]], DOMAIN f = 1 .. n
  PROVE  Listed(f) /\ Len(f) = n
<1> DEFINE S == {f[i] : i \in 1 .. n}
<1>1. \A i \in 1 .. n : f[i] \in S
  OBVIOUS
<1>2. f \in [1 .. n -> S]
  <2> HIDE DEF S
  <2> QED
    BY <1>1, Zenon
<1>3. f \in Seq(S) /\ Len(f) = n
  BY <1>2
<1> QED
  BY <1>3 DEF Listed

\* The only list without entries
LEMMA ListedNone ==
  ASSUME NEW s, Listed(s)
  PROVE  s = << >> <=> Len(s) = 0
<1>1. PICK S : s \in Seq(S)
  BY DEF Listed
<1> QED
  BY <1>1

\* An entry replaced: where it is, and that the others stay
LEMMA ListedReplaced ==
  ASSUME NEW s, Listed(s), NEW i \in 1 .. Len(s), NEW e
  PROVE  /\ Listed([s EXCEPT ![i] = e])
         /\ Len([s EXCEPT ![i] = e]) = Len(s)
         /\ [s EXCEPT ![i] = e][i] = e
         /\ \A j \in 1 .. Len(s) : j # i => [s EXCEPT ![i] = e][j] = s[j]
<1>1. Len(s) \in Nat /\ DOMAIN s = 1 .. Len(s)
  BY ListedShape
<1> QED
  BY <1>1, ListedExcept


\* A list without its first
LEMMA ListedTail ==
  ASSUME NEW s, Listed(s), s # << >>
  PROVE  /\ Listed(Tail(s)) /\ Len(s) >= 1 /\ Len(Tail(s)) = Len(s) - 1
         /\ \A i \in 1 .. Len(s) - 1 : Tail(s)[i] = s[i + 1]
         /\ Head(s) = s[1]
<1>1. PICK S : s \in Seq(S)
  BY DEF Listed
<1>2. Len(s) \in Nat /\ Len(s) # 0
  BY ListedShape, ListedNone
<1> QED
  BY <1>1, <1>2, HeadTailProperties DEF Listed

\* Part of a list
LEMMA ListedPart ==
  ASSUME NEW s, Listed(s), NEW m \in 1 .. Len(s) + 1, NEW n \in m - 1 .. Len(s)
  PROVE  /\ Listed(SubSeq(s, m, n)) /\ Len(SubSeq(s, m, n)) = n - m + 1
         /\ \A i \in 1 .. n - m + 1 : SubSeq(s, m, n)[i] = s[m + i - 1]
<1>1. Len(s) \in Nat /\ DOMAIN s = 1 .. Len(s)
  BY ListedShape
<1>2. PICK S : s \in Seq(S)
  BY DEF Listed
<1>3. \A i \in m .. n : s[i] \in S
  BY <1>1, <1>2, ElementOfSeq
<1>4. /\ SubSeq(s, m, n) \in Seq(S)
      /\ Len(SubSeq(s, m, n)) = IF m <= n THEN n - m + 1 ELSE 0
      /\ \A i \in 1 .. n - m + 1 : SubSeq(s, m, n)[i] = s[m + i - 1]
  BY <1>1, <1>3, SubSeqProperties
<1> QED
  BY <1>1, <1>4 DEF Listed

\* A list without its last
LEMMA ListedFront ==
  ASSUME NEW s, Listed(s), s # << >>
  PROVE  /\ Listed(Front(s)) /\ Len(s) >= 1 /\ Len(Front(s)) = Len(s) - 1
         /\ \A i \in 1 .. Len(s) - 1 : Front(s)[i] = s[i]
         /\ Last(s) = s[Len(s)]
<1>1. Len(s) \in Nat /\ Len(s) # 0
  BY ListedShape, ListedNone
<1>2. 1 \in 1 .. Len(s) + 1 /\ Len(s) - 1 \in 1 - 1 .. Len(s)
  BY <1>1
<1>3. /\ Listed(SubSeq(s, 1, Len(s) - 1)) /\ Len(SubSeq(s, 1, Len(s) - 1)) = Len(s) - 1
      /\ \A i \in 1 .. Len(s) - 1 : SubSeq(s, 1, Len(s) - 1)[i] = s[i]
  <2>1. /\ Listed(SubSeq(s, 1, Len(s) - 1)) /\ Len(SubSeq(s, 1, Len(s) - 1)) = Len(s) - 1 - 1 + 1
        /\ \A i \in 1 .. Len(s) - 1 - 1 + 1 : SubSeq(s, 1, Len(s) - 1)[i] = s[1 + i - 1]
    BY <1>2, ListedPart
  <2>2. Len(s) - 1 - 1 + 1 = Len(s) - 1 /\ \A i \in 1 .. Len(s) - 1 : 1 + i - 1 = i
    BY <1>1
  <2> QED
    BY <2>1, <2>2
<1> QED
  BY <1>1, <1>3 DEF Front, Last

\* A list without its entry i: each of the others is one of the list's
LEMMA ListedRemoved ==
  ASSUME NEW s, Listed(s), NEW i \in 1 .. Len(s)
  PROVE  /\ Listed(RemoveAt(s, i)) /\ Len(RemoveAt(s, i)) = Len(s) - 1
         /\ \A j \in 1 .. Len(s) - 1 : \E k \in 1 .. Len(s) : RemoveAt(s, i)[j] = s[k]
<1>1. Len(s) \in Nat
  BY ListedShape
<1> DEFINE a == SubSeq(s, 1, i - 1)
           b == SubSeq(s, i + 1, Len(s))
<1>2. Listed(a) /\ Len(a) = i - 1 /\ \A j \in 1 .. i - 1 : a[j] = s[j]
  <2>1. 1 \in 1 .. Len(s) + 1 /\ i - 1 \in 1 - 1 .. Len(s)
    BY <1>1
  <2>2. Listed(a) /\ Len(a) = i - 1 - 1 + 1 /\ \A j \in 1 .. i - 1 - 1 + 1 : a[j] = s[1 + j - 1]
    BY <2>1, ListedPart
  <2>3. i - 1 - 1 + 1 = i - 1 /\ \A j \in 1 .. i - 1 : 1 + j - 1 = j
    BY <1>1
  <2> HIDE DEF a
  <2> QED BY <2>2, <2>3
<1>3. Listed(b) /\ Len(b) = Len(s) - i /\ \A j \in 1 .. Len(s) - i : b[j] = s[i + j]
  <2>1. i + 1 \in 1 .. Len(s) + 1 /\ Len(s) \in (i + 1) - 1 .. Len(s)
    BY <1>1
  <2>2. /\ Listed(b) /\ Len(b) = Len(s) - (i + 1) + 1
        /\ \A j \in 1 .. Len(s) - (i + 1) + 1 : b[j] = s[(i + 1) + j - 1]
    BY <2>1, ListedPart
  <2>3. Len(s) - (i + 1) + 1 = Len(s) - i /\ \A j \in 1 .. Len(s) - i : (i + 1) + j - 1 = i + j
    BY <1>1
  <2> HIDE DEF b
  <2> QED BY <2>2, <2>3
<1>4. RemoveAt(s, i) = a \o b
  BY DEF RemoveAt
<1> HIDE DEF a, b
<1>5. /\ Listed(a \o b) /\ Len(a \o b) = Len(a) + Len(b)
      /\ \A j \in 1 .. Len(a) : (a \o b)[j] = a[j]
      /\ \A j \in 1 .. Len(b) : (a \o b)[Len(a) + j] = b[j]
  <2>1. Listed(a) /\ Listed(b)
    BY <1>2, <1>3
  <2> QED BY <2>1, ListedConcat
<1>6. ASSUME NEW j \in 1 .. Len(s) - 1 PROVE \E k \in 1 .. Len(s) : (a \o b)[j] = s[k]
  <2>1. CASE j <= i - 1
    <3>1. j \in 1 .. Len(a) /\ j \in 1 .. Len(s)
      BY <1>1, <1>2, <2>1
    <3> QED BY <1>2, <1>5, <3>1
  <2>2. CASE j > i - 1
    <3>1. j - (i - 1) \in 1 .. Len(b) /\ j = Len(a) + (j - (i - 1)) /\ i + (j - (i - 1)) \in 1 .. Len(s)
      BY <1>1, <1>2, <1>3, <2>2
    <3> QED BY <1>2, <1>3, <1>5, <3>1
  <2>3. j <= i - 1 \/ j > i - 1
    BY <1>1
  <2> QED BY <2>1, <2>2, <2>3
<1> QED
  BY <1>1, <1>2, <1>3, <1>4, <1>5, <1>6

-----------------------------------------------------------------------------
(* The calls in progress                                                   *)

\* What todo is after a step that calls course: first the calls of that course,
\* then the calls there were behind the first one.
LEMMA WentOn ==
  ASSUME NEW t, Listed(t), t # << >>, NEW w, NEW course, Listed(course)
  PROVE  LET u == Calls(w, course) \o Tail(t)
         IN /\ Listed(u) /\ Len(u) = Len(course) + Len(t) - 1
            /\ \A j \in 1 .. Len(course) : u[j] = [who |-> w, op |-> course[j]]
            /\ \A i \in 2 .. Len(t) : u[Len(course) + i - 1] = t[i]
            /\ \A j \in 1 .. Len(u) : j > Len(course) =>
                 j - Len(course) + 1 \in 2 .. Len(t) /\ u[j] = t[j - Len(course) + 1]
<1> DEFINE c == Calls(w, course)
           u == c \o Tail(t)
<1>1. Len(course) \in Nat /\ DOMAIN course = 1 .. Len(course) /\ Len(t) \in Nat
  BY ListedShape
<1>2. c = [i \in 1 .. Len(course) |-> [who |-> w, op |-> course[i]]]
  BY <1>1 DEF Calls
<1>3. Listed(c) /\ Len(c) = Len(course)
  BY <1>1, <1>2, ListedFunction
<1>4. /\ Listed(Tail(t)) /\ Len(t) >= 1 /\ Len(Tail(t)) = Len(t) - 1
      /\ \A i \in 1 .. Len(t) - 1 : Tail(t)[i] = t[i + 1]
  BY ListedTail
<1>5. \A j \in 1 .. Len(course) : c[j] = [who |-> w, op |-> course[j]]
  BY <1>2
<1> HIDE DEF c
<1>6. /\ Listed(u) /\ Len(u) = Len(c) + Len(Tail(t))
      /\ \A i \in 1 .. Len(c) : u[i] = c[i]
      /\ \A i \in 1 .. Len(Tail(t)) : u[Len(c) + i] = Tail(t)[i]
  BY <1>3, <1>4, ListedConcat
<1> HIDE DEF u
<1>7. Listed(u) /\ Len(u) = Len(course) + Len(t) - 1
  BY <1>1, <1>3, <1>4, <1>6
<1>8. \A j \in 1 .. Len(course) : u[j] = [who |-> w, op |-> course[j]]
  BY <1>3, <1>5, <1>6
<1>9. ASSUME NEW i \in 2 .. Len(t) PROVE u[Len(course) + i - 1] = t[i]
  <2>1. i - 1 \in 1 .. Len(Tail(t)) /\ i - 1 \in 1 .. Len(t) - 1 /\ (i - 1) + 1 = i
    BY <1>1, <1>4
  <2>2. Len(course) + i - 1 = Len(c) + (i - 1)
    BY <1>1, <1>3
  <2> QED BY <1>4, <1>6, <2>1, <2>2
<1>10. ASSUME NEW j \in 1 .. Len(u), j > Len(course)
       PROVE  j - Len(course) + 1 \in 2 .. Len(t) /\ u[j] = t[j - Len(course) + 1]
  <2>1. j - Len(course) + 1 \in 2 .. Len(t) /\ Len(course) + (j - Len(course) + 1) - 1 = j
    BY <1>1, <1>7, <1>10
  <2> QED BY <1>9, <2>1
<1> QED
  BY <1>7, <1>8, <1>9, <1>10 DEF u, c

\* ... and after an event
LEMMA Began ==
  ASSUME NEW w, NEW course, Listed(course)
  PROVE  LET u == Calls(w, course)
         IN /\ Listed(u) /\ Len(u) = Len(course)
            /\ \A j \in 1 .. Len(course) : u[j] = [who |-> w, op |-> course[j]]
<1>1. Len(course) \in Nat /\ DOMAIN course = 1 .. Len(course)
  BY ListedShape
<1>2. Calls(w, course) = [i \in 1 .. Len(course) |-> [who |-> w, op |-> course[i]]]
  BY <1>1 DEF Calls
<1> QED
  BY <1>1, <1>2, ListedFunction

-----------------------------------------------------------------------------
(* The shape of the state                                                  *)

\* A stage: with the command it may have for an argument, and the line it may give to sh
Staged(x) ==
  {"cmd", "redir", "app", "sub"} \subseteq DOMAIN x /\ x.app \in DOMAIN commands /\ x.sub \in Items

\* The items of a line, and what is pending of several
ItemOK(item) == Listed(item) /\ \A k \in DOMAIN item : Staged(item[k])
PendingOK(items) == Listed(items) /\ \A i \in DOMAIN items : ItemOK(items[i])

ObjFields == {"cls", "interactive", "pending", "pp", "fed", "left", "await", "stage", "sink", "safe", "got", "dst"}
PipeFields == {"stage", "next", "said", "fed", "ran", "last"}

\* A pipe of a command
KnownPipe(q, ps) == q \in DOMAIN ps /\ ps[q].stage.cmd \in DOMAIN commands

\* A shell or a command
ObjOK(x, ps) ==
  /\ DOMAIN x = ObjFields /\ PendingOK(x.pending) /\ x.pp \in 0 .. Len(ps) /\ x.left \in BOOLEAN
  /\ x.cls # "shell" => /\ x.cls \in DOMAIN commands /\ x.pp # 0 /\ Staged(x.stage)
                        /\ x.await \in Methods \cup {""}

PipeOK(x, ps) ==
  DOMAIN x = PipeFields /\ Staged(x.stage) /\ (x.next = 0 \/ KnownPipe(x.next, ps))

\* What starts a command
Starts(op_, ps) ==
  \/ op_[1] \in {"launch", "construct"} /\ KnownPipe(op_[2], ps)
  \/ op_[1] = "call None" /\ op_[2] \in DOMAIN ps

\* The steps that have no argument that matters, and those with a method
PlainSteps ==
  {"write", "raise", "processEnded", "cancel", "answer", "terminal", "cd", "mkfile", "keep", "link", "file",
   "redirFiles", "leave", "callend", "queue", "insert", "outConnectionLost", "temp", "fill", "move",
   "cutHeader"}
CommandOp(c, op_) ==
  \/ op_[1] \in PlainSteps
  \/ op_[1] \in {"callLater", "await", "guard"} /\ op_[2] \in Methods
  \/ op_[1] = "do" /\ op_[2] \in Methods \cup {"start", "call", "lineReceived"}
  \/ op_[1] = "password_input" /\ op_[2] \in BOOLEAN
  \/ op_[1] \in {"shell", "pop"} /\ c = "sh"
ShellOp(op_) ==
  \/ op_[1] \in {"runCommand", "runOrPrompt", "processEnded"}
  \/ op_[1] = "line" /\ op_[2] \in Lines

FrameOK(fr, ob, ps) ==
  /\ fr.who \in DOMAIN ob
  /\ \/ Starts(fr.op, ps)
     \/ ob[fr.who].cls = "shell" /\ ShellOp(fr.op)
     \/ ob[fr.who].cls # "shell" /\ CommandOp(ob[fr.who].cls, fr.op)

TypedObjs(ob, ps) == Listed(ob) /\ \A o \in DOMAIN ob : ObjOK(ob[o], ps)
TypedPipes(ps) == Listed(ps) /\ \A p \in DOMAIN ps : PipeOK(ps[p], ps)
TypedTodo(t, ob, ps) == Listed(t) /\ \A i \in DOMAIN t : FrameOK(t[i], ob, ps)
TypedTimers(tm, ob) ==
  Listed(tm) /\ \A i \in DOMAIN tm :
                   tm[i][1] \in DOMAIN ob /\ ob[tm[i][1]].cls # "shell" /\ tm[i][2] \in Methods
TypedStack(cs, ob) == Listed(cs) /\ \A i \in DOMAIN cs : cs[i] \in DOMAIN ob
Flags ==
  /\ link \in {"up", "ended", "broken", "gone"} /\ reading \in BOOLEAN
  /\ password_input \in BOOLEAN /\ ticks \in 0 .. MaxTicks
  /\ typed \in Lines /\ script \in ScriptType
  /\ DOMAIN past = {"strays", "deaths", "appended"}

\* The shape of the state: TypeOK does not say what a call in progress may be.
Typed ==
  /\ TypedObjs(objs, pps) /\ TypedPipes(pps) /\ TypedTodo(todo, objs, pps)
  /\ TypedTimers(timers, objs) /\ TypedStack(cmdstack, objs)
  /\ pp \in 0 .. Len(pps) /\ Flags

-----------------------------------------------------------------------------
(* Lines and stages *)

LEMMA ItemsTyped ==
  /\ \A x \in Items : PendingOK(x)
  /\ << >> \in Items
<1>1. \A s \in Stages : Staged(s)
  <2>1. \A s \in StageType : {"cmd", "redir", "app", "sub"} \subseteq DOMAIN s /\ s.app \in DOMAIN commands /\ s.sub \in Items
    BY DEF StageType
  <2> QED BY <2>1, ScriptsAssumption DEF Staged
<1>2. \A item \in Seq(Stages) : ItemOK(item)
  BY <1>1 DEF ItemOK, Listed
<1>3. \A x \in Items : PendingOK(x)
  BY <1>2 DEF Items, PendingOK, Listed
<1> QED BY <1>3 DEF Items

\* A list of two lists of items
LEMMA PendingConcat ==
  ASSUME NEW s, NEW t, PendingOK(s), PendingOK(t)
  PROVE  PendingOK(s \o t)
<1>1. /\ Listed(s \o t) /\ Len(s \o t) = Len(s) + Len(t)
      /\ \A i \in 1 .. Len(s) : (s \o t)[i] = s[i]
      /\ \A i \in 1 .. Len(t) : (s \o t)[Len(s) + i] = t[i]
  BY ListedConcat DEF PendingOK
<1>2. /\ DOMAIN s = 1 .. Len(s) /\ DOMAIN t = 1 .. Len(t) /\ DOMAIN (s \o t) = 1 .. Len(s \o t)
      /\ Len(s) \in Nat /\ Len(t) \in Nat
  BY <1>1, ListedShape DEF PendingOK
<1>3. ASSUME NEW i \in 1 .. Len(s) + Len(t) PROVE ItemOK((s \o t)[i])
  <2>1. CASE i \in 1 .. Len(s)
    BY <1>1, <1>2, <2>1 DEF PendingOK
  <2>2. CASE i \notin 1 .. Len(s)
    <3>1. i - Len(s) \in 1 .. Len(t) /\ Len(s) + (i - Len(s)) = i
      BY <1>2, <2>2
    <3> QED BY <1>1, <1>2, <3>1 DEF PendingOK
  <2> QED BY <2>1, <2>2
<1> QED BY <1>1, <1>2, <1>3 DEF PendingOK

LEMMA ItemConcat ==
  ASSUME NEW s, NEW t, ItemOK(s), ItemOK(t)
  PROVE  ItemOK(s \o t)
<1>1. /\ Listed(s \o t) /\ Len(s \o t) = Len(s) + Len(t)
      /\ \A i \in 1 .. Len(s) : (s \o t)[i] = s[i]
      /\ \A i \in 1 .. Len(t) : (s \o t)[Len(s) + i] = t[i]
  BY ListedConcat DEF ItemOK
<1>2. /\ DOMAIN s = 1 .. Len(s) /\ DOMAIN t = 1 .. Len(t) /\ DOMAIN (s \o t) = 1 .. Len(s \o t)
      /\ Len(s) \in Nat /\ Len(t) \in Nat
  BY <1>1, ListedShape DEF ItemOK
<1>3. ASSUME NEW i \in 1 .. Len(s) + Len(t) PROVE Staged((s \o t)[i])
  <2>1. CASE i \in 1 .. Len(s)
    BY <1>1, <1>2, <2>1 DEF ItemOK
  <2>2. CASE i \notin 1 .. Len(s)
    <3>1. i - Len(s) \in 1 .. Len(t) /\ Len(s) + (i - Len(s)) = i
      BY <1>2, <2>2
    <3> QED BY <1>1, <1>2, <3>1 DEF ItemOK
  <2> QED BY <2>1, <2>2
<1> QED BY <1>1, <1>2, <1>3 DEF ItemOK

LEMMA ItemTail ==
  ASSUME NEW s, ItemOK(s), s # << >>
  PROVE  ItemOK(Tail(s)) /\ Staged(Head(s))
<1>1. Listed(s) /\ DOMAIN s = 1 .. Len(s) /\ Len(s) \in Nat
  BY ListedShape DEF ItemOK
<1>2. /\ Listed(Tail(s)) /\ Len(s) >= 1 /\ Len(Tail(s)) = Len(s) - 1
      /\ \A i \in 1 .. Len(s) - 1 : Tail(s)[i] = s[i + 1]
      /\ Head(s) = s[1]
  BY <1>1, ListedTail
<1>3. DOMAIN Tail(s) = 1 .. Len(s) - 1
  BY <1>2, ListedShape
<1>4. \A i \in 1 .. Len(s) - 1 : i + 1 \in 1 .. Len(s)
  BY <1>1
<1> QED BY <1>1, <1>2, <1>3, <1>4 DEF ItemOK

LEMMA PendingTail ==
  ASSUME NEW s, PendingOK(s), s # << >>
  PROVE  PendingOK(Tail(s)) /\ ItemOK(Head(s))
<1>1. Listed(s) /\ DOMAIN s = 1 .. Len(s) /\ Len(s) \in Nat
  BY ListedShape DEF PendingOK
<1>2. /\ Listed(Tail(s)) /\ Len(s) >= 1 /\ Len(Tail(s)) = Len(s) - 1
      /\ \A i \in 1 .. Len(s) - 1 : Tail(s)[i] = s[i + 1]
      /\ Head(s) = s[1]
  BY <1>1, ListedTail
<1>3. DOMAIN Tail(s) = 1 .. Len(s) - 1
  BY <1>2, ListedShape
<1>4. \A i \in 1 .. Len(s) - 1 : i + 1 \in 1 .. Len(s)
  BY <1>1
<1> QED BY <1>1, <1>2, <1>3, <1>4 DEF PendingOK

LEMMA PendingAppend ==
  ASSUME NEW s, NEW item, PendingOK(s), ItemOK(item)
  PROVE  PendingOK(Append(s, item)) /\ Append(s, item) # << >>
<1>1. Listed(s) /\ DOMAIN s = 1 .. Len(s) /\ Len(s) \in Nat
  BY ListedShape DEF PendingOK
<1>2. /\ Listed(Append(s, item)) /\ Len(Append(s, item)) = Len(s) + 1
      /\ \A i \in 1 .. Len(s) : Append(s, item)[i] = s[i]
      /\ Append(s, item)[Len(s) + 1] = item
  BY <1>1, ListedAppend
<1>3. DOMAIN Append(s, item) = 1 .. Len(s) + 1
  BY <1>2, ListedShape
<1>4. \A i \in 1 .. Len(s) + 1 : i \in 1 .. Len(s) \/ i = Len(s) + 1
  BY <1>1
<1>5. Append(s, item) # << >>
  <2>1. Len(Append(s, item)) # 0
    BY <1>1, <1>2
  <2> QED BY <1>2, <2>1, ListedNone
<1> QED BY <1>1, <1>2, <1>3, <1>4, <1>5 DEF PendingOK

LEMMA PlainStages ==
  /\ Staged(ExitStage) /\ ExitStage.cmd = "exit" /\ "exit" \in DOMAIN commands
  /\ Staged(Separator) /\ "shell" \notin DOMAIN commands
<1>1. "exit" \in DOMAIN commands /\ "shell" \notin DOMAIN commands
  BY DEF commands
<1>2. /\ {"cmd", "redir", "app", "sub"} \subseteq DOMAIN ExitStage
      /\ ExitStage.app = "exit" /\ ExitStage.sub = << >> /\ ExitStage.cmd = "exit"
  BY DEF ExitStage
<1>3. Staged(ExitStage)
  BY <1>1, <1>2, ItemsTyped DEF Staged
<1>4. /\ DOMAIN Separator = DOMAIN ExitStage /\ Separator.app = ExitStage.app /\ Separator.sub = ExitStage.sub
  BY <1>2 DEF Separator
<1>5. Staged(Separator)
  BY <1>3, <1>4 DEF Staged
<1> QED BY <1>1, <1>2, <1>3, <1>5

\* The least and the greatest of some numbers up to n
LEMMA FirstIs ==
  ASSUME NEW S, S \subseteq Nat, S # {}
  PROVE  First(S) \in S /\ \A j \in S : First(S) <= j
<1> DEFINE R == {ss \in Nat \X Nat : ss[1] < ss[2]}
<1>1. IsWellFoundedOn(R, Nat)
  BY NatLessThanWellFounded DEF OpToRel
<1>2. PICK x \in S : \A y \in S : <<y, x>> \notin R
  <2> HIDE DEF R
  <2> QED BY <1>1, WFMin
<1>3. \A y \in S : x <= y
  <2> SUFFICES ASSUME NEW y \in S, y < x PROVE FALSE
    OBVIOUS
  <2>1. << y, x >> \in R
    OBVIOUS
  <2> QED BY <1>2, <2>1
<1> QED BY <1>3 DEF First

LEMMA LatestIs ==
  ASSUME NEW n \in Nat, NEW S, S \subseteq 1 .. n, S # {}
  PROVE  \E i \in S : \A j \in S : j <= i
<1> DEFINE T == {n - i : i \in S}
<1>1. T \subseteq Nat /\ T # {}
  <2>1. \A i \in S : n - i \in Nat /\ n - i \in T
    OBVIOUS
  <2> QED BY <2>1
<1>2. First(T) \in T /\ \A j \in T : First(T) <= j
  <2> HIDE DEF T
  <2> QED BY <1>1, FirstIs
<1>3. PICK i \in S : First(T) = n - i
  BY <1>2
<1>4. \A j \in S : n - i <= n - j
  BY <1>2, <1>3
<1> QED BY <1>4

-----------------------------------------------------------------------------
(* What a step does to the calls in progress                               *)

\* Shells, commands and pipes are only added, and keep their classes.
Grown ==
  /\ Listed(objs') /\ Listed(pps') /\ Len(objs) <= Len(objs') /\ Len(pps) <= Len(pps')
  /\ \A o \in DOMAIN objs : objs'[o].cls = objs[o].cls
  /\ \A p \in DOMAIN pps : pps'[p].stage = pps[p].stage

LEMMA GrownKeeps ==
  ASSUME Typed, Grown
  PROVE  /\ \A o \in DOMAIN objs : o \in DOMAIN objs'
         /\ \A p \in DOMAIN pps : p \in DOMAIN pps'
         /\ \A x : ObjOK(x, pps) => ObjOK(x, pps')
         /\ \A x : PipeOK(x, pps) => PipeOK(x, pps')
         /\ \A fr : FrameOK(fr, objs, pps) => FrameOK(fr, objs', pps')
         /\ TypedTodo(todo, objs', pps') /\ TypedTimers(timers, objs') /\ TypedStack(cmdstack, objs')
         /\ pp \in 0 .. Len(pps')
<1>1. /\ DOMAIN objs = 1 .. Len(objs) /\ DOMAIN pps = 1 .. Len(pps) /\ Len(objs) \in Nat /\ Len(pps) \in Nat
      /\ DOMAIN objs' = 1 .. Len(objs') /\ DOMAIN pps' = 1 .. Len(pps')
      /\ Len(objs') \in Nat /\ Len(pps') \in Nat
  BY ListedShape DEF Typed, TypedObjs, TypedPipes, Grown
<1>2. /\ \A o \in DOMAIN objs : o \in DOMAIN objs'
      /\ \A p \in DOMAIN pps : p \in DOMAIN pps'
      /\ 0 .. Len(pps) \subseteq 0 .. Len(pps')
  BY <1>1 DEF Grown
<1>3. \A q : KnownPipe(q, pps) => KnownPipe(q, pps')
  BY <1>2 DEF KnownPipe, Grown
<1>4. \A x : ObjOK(x, pps) => ObjOK(x, pps')
  BY <1>2 DEF ObjOK
<1>5. \A x : PipeOK(x, pps) => PipeOK(x, pps')
  BY <1>3 DEF PipeOK
<1>6. \A o_ : Starts(o_, pps) => Starts(o_, pps')
  BY <1>2, <1>3 DEF Starts
<1>7. \A fr : FrameOK(fr, objs, pps) => FrameOK(fr, objs', pps')
  BY <1>2, <1>6 DEF FrameOK, Grown
<1>8. TypedTodo(todo, objs', pps')
  BY <1>7 DEF Typed, TypedTodo
<1>9. TypedTimers(timers, objs')
  BY <1>2 DEF Typed, TypedTimers, Grown
<1>10. TypedStack(cmdstack, objs')
  BY <1>2 DEF Typed, TypedStack
<1> QED BY <1>2, <1>4, <1>5, <1>7, <1>8, <1>9, <1>10 DEF Typed

\* The step goes on with the calls of a course.
LEMMA TodoOn ==
  ASSUME Typed, Grown, todo # << >>, NEW w, NEW course, Listed(course),
         todo' = Calls(w, course) \o Tail(todo),
         \A j \in 1 .. Len(course) : FrameOK([who |-> w, op |-> course[j]], objs', pps')
  PROVE  TypedTodo(todo', objs', pps')
<1>1. /\ Listed(todo') /\ Len(todo') = Len(course) + Len(todo) - 1
      /\ \A j \in 1 .. Len(course) : todo'[j] = [who |-> w, op |-> course[j]]
      /\ \A j \in 1 .. Len(todo') : j > Len(course) =>
           j - Len(course) + 1 \in 2 .. Len(todo) /\ todo'[j] = todo[j - Len(course) + 1]
  BY WentOn DEF Typed, TypedTodo
<1>2. /\ DOMAIN todo' = 1 .. Len(todo') /\ DOMAIN todo = 1 .. Len(todo)
      /\ Len(course) \in Nat /\ Len(todo) \in Nat
  BY <1>1, ListedShape DEF Typed, TypedTodo
<1>3. \A i \in 1 .. Len(todo) : FrameOK(todo[i], objs', pps')
  BY <1>2, GrownKeeps DEF TypedTodo
<1>4. ASSUME NEW j \in 1 .. Len(todo') PROVE FrameOK(todo'[j], objs', pps')
  <2>1. CASE j > Len(course)
    <3>1. j - Len(course) + 1 \in 1 .. Len(todo) /\ todo'[j] = todo[j - Len(course) + 1]
      BY <1>1, <1>2, <2>1
    <3> QED BY <1>3, <3>1
  <2>2. CASE j \in 1 .. Len(course)
    BY <1>1, <2>2
  <2> QED BY <1>2, <2>1, <2>2
<1> QED BY <1>1, <1>2, <1>4 DEF TypedTodo

\* Nothing is called.
LEMMA SkipIsGo ==
  ASSUME Listed(todo), todo # << >>, NEW w
  PROVE  Tail(todo) = Calls(w, << >>) \o Tail(todo)
<1>1. Calls(w, << >>) = << >>
  BY DEF Calls
<1>2. Listed(Tail(todo))
  BY ListedTail
<1>3. PICK S : Tail(todo) \in Seq(S)
  BY <1>2 DEF Listed
<1> QED BY <1>1, <1>3, ConcatEmptySeq

\* An exception is caught, or ends all calls.
Caught(i) ==
  /\ i \in 2 .. Len(todo) /\ todo[i].op[1] = "guard"
  /\ todo' = Calls(todo[i].who, << do(todo[i].op[2]) >>) \o SubSeq(todo, i + 1, Len(todo))
  /\ \/ past' = past /\ \A j \in 1 .. i : todo[j].who = todo[i].who /\ ~Starting(todo[j].op)
     \/ past' = [past EXCEPT !.deaths = @ \cup {Blame}]
  /\ link' = link
Uncaught ==
  /\ todo' = << >>
  /\ link' \in {link, "broken"} /\ (link = "gone" => link' = link)
  /\ past' = [past EXCEPT !.deaths = @ \cup {Blame}]

LEMMA RaiseEnds ==
  ASSUME Typed, todo # << >>, Raise
  PROVE  Uncaught \/ \E i \in 2 .. Len(todo) : Caught(i)
<1> DEFINE handlers == {i \in 2 .. Len(todo) : todo[i].op[1] = "guard"}
<1>1. CASE handlers = {}
  BY <1>1 DEF Raise, Uncaught
<1>2. CASE handlers # {}
  <2> DEFINE i == CHOOSE i \in handlers : \A j \in handlers : i <= j
  <2>1. i \in handlers
    <3>1. handlers \subseteq Nat
      OBVIOUS
    <3>2. i = First(handlers)
      BY DEF First
    <3> HIDE DEF handlers, i
    <3> QED BY <1>2, <3>1, <3>2, FirstIs
  <2>2. /\ todo' = Calls(todo[i].who, << do(todo[i].op[2]) >>) \o SubSeq(todo, i + 1, Len(todo))
        /\ past' = IF \A j \in 1..i : todo[j].who = todo[i].who /\ ~Starting(todo[j].op) THEN past
                   ELSE [past EXCEPT !.deaths = @ \cup {Blame}]
        /\ link' = link
    BY <1>2 DEF Raise
  <2> HIDE DEF i
  <2>3. i \in 2 .. Len(todo) /\ todo[i].op[1] = "guard"
    BY <2>1
  <2>4. Caught(i)
    BY <2>2, <2>3 DEF Caught
  <2> QED BY <2>3, <2>4
<1> QED BY <1>1, <1>2

\* What todo is after an exception was caught
LEMMA CaughtTodo ==
  ASSUME Listed(todo), NEW i \in 2 .. Len(todo), Caught(i)
  PROVE  /\ Listed(todo') /\ Len(todo') = Len(todo) - i + 1
         /\ todo'[1] = [who |-> todo[i].who, op |-> do(todo[i].op[2])]
         /\ \A k \in i + 1 .. Len(todo) : todo'[k - i + 1] = todo[k]
         /\ \A j \in 2 .. Len(todo') : i + j - 1 \in i + 1 .. Len(todo) /\ todo'[j] = todo[i + j - 1]
<1> DEFINE course == << do(todo[i].op[2]) >>
           c == Calls(todo[i].who, course)
           b == SubSeq(todo, i + 1, Len(todo))
<1>1. Len(todo) \in Nat
  BY ListedShape
<1>2. Listed(course) /\ Len(course) = 1 /\ course[1] = do(todo[i].op[2])
  BY ListedSingle
<1> HIDE DEF course
<1>3. Listed(c) /\ Len(c) = 1 /\ c[1] = [who |-> todo[i].who, op |-> do(todo[i].op[2])]
  BY <1>2, Began
<1>4. Listed(b) /\ Len(b) = Len(todo) - i /\ \A k \in 1 .. Len(todo) - i : b[k] = todo[i + k]
  <2>1. i + 1 \in 1 .. Len(todo) + 1 /\ Len(todo) \in (i + 1) - 1 .. Len(todo)
    BY <1>1
  <2>2. /\ Listed(b) /\ Len(b) = Len(todo) - (i + 1) + 1
        /\ \A k \in 1 .. Len(todo) - (i + 1) + 1 : b[k] = todo[(i + 1) + k - 1]
    BY <2>1, ListedPart
  <2>3. Len(todo) - (i + 1) + 1 = Len(todo) - i /\ \A k \in 1 .. Len(todo) - i : (i + 1) + k - 1 = i + k
    BY <1>1
  <2> HIDE DEF b
  <2> QED BY <2>2, <2>3
<1>5. todo' = c \o b
  BY DEF Caught, course
<1> HIDE DEF c, b
<1>6. /\ Listed(c \o b) /\ Len(c \o b) = Len(c) + Len(b)
      /\ \A j \in 1 .. Len(c) : (c \o b)[j] = c[j]
      /\ \A j \in 1 .. Len(b) : (c \o b)[Len(c) + j] = b[j]
  <2>1. Listed(c) /\ Listed(b)
    BY <1>3, <1>4
  <2> QED BY <2>1, ListedConcat
<1>7. Len(todo') = Len(todo) - i + 1
  BY <1>1, <1>3, <1>4, <1>5, <1>6
<1>8. todo'[1] = [who |-> todo[i].who, op |-> do(todo[i].op[2])]
  BY <1>3, <1>5, <1>6
<1>9. ASSUME NEW k \in i + 1 .. Len(todo) PROVE todo'[k - i + 1] = todo[k]
  <2>1. k - i \in 1 .. Len(todo) - i /\ i + (k - i) = k /\ Len(c) + (k - i) = k - i + 1 /\ k - i \in 1 .. Len(b)
    BY <1>1, <1>3, <1>4
  <2>2. (c \o b)[Len(c) + (k - i)] = b[k - i]
    BY <1>6, <2>1
  <2>3. b[k - i] = todo[i + (k - i)]
    BY <1>4, <2>1
  <2> QED BY <1>5, <2>1, <2>2, <2>3
<1>10. ASSUME NEW j \in 2 .. Len(todo')
       PROVE  i + j - 1 \in i + 1 .. Len(todo) /\ todo'[j] = todo[i + j - 1]
  <2>1. i + j - 1 \in i + 1 .. Len(todo) /\ (i + j - 1) - i + 1 = j
    BY <1>1, <1>7
  <2> QED BY <1>9, <2>1
<1> QED BY <1>5, <1>6, <1>7, <1>8, <1>9, <1>10

\* After an exception
LEMMA RaiseTyped ==
  ASSUME Typed, todo # << >>, Raise, Grown
  PROVE  TypedTodo(todo', objs', pps')
<1>1. /\ DOMAIN todo = 1 .. Len(todo) /\ Len(todo) \in Nat /\ Listed(todo)
      /\ \A i \in DOMAIN todo : FrameOK(todo[i], objs, pps)
  BY ListedShape DEF Typed, TypedTodo
<1>2. CASE Uncaught
  BY <1>2, ListedEmpty DEF Uncaught, TypedTodo
<1>3. ASSUME NEW i \in 2 .. Len(todo), Caught(i) PROVE TypedTodo(todo', objs', pps')
  <2>1. /\ Listed(todo') /\ Len(todo') = Len(todo) - i + 1
        /\ todo'[1] = [who |-> todo[i].who, op |-> do(todo[i].op[2])]
        /\ \A j \in 2 .. Len(todo') : i + j - 1 \in i + 1 .. Len(todo) /\ todo'[j] = todo[i + j - 1]
    BY <1>1, <1>3, CaughtTodo
  <2>2. DOMAIN todo' = 1 .. Len(todo')
    BY <2>1, ListedShape
  <2>3. FrameOK([who |-> todo[i].who, op |-> do(todo[i].op[2])], objs', pps')
    <3>1. FrameOK(todo[i], objs, pps) /\ todo[i].op[1] = "guard"
      BY <1>1, <1>3 DEF Caught
    <3>2. /\ todo[i].who \in DOMAIN objs /\ objs[todo[i].who].cls # "shell"
          /\ todo[i].op[2] \in Methods
      BY <3>1 DEF FrameOK, Starts, ShellOp, CommandOp, PlainSteps
    <3>3. FrameOK([who |-> todo[i].who, op |-> do(todo[i].op[2])], objs, pps)
      BY <3>2 DEF FrameOK, CommandOp, do
    <3> QED BY <3>3, GrownKeeps
  <2>4. \A j \in 2 .. Len(todo') : FrameOK(todo'[j], objs', pps')
    <3>1. \A j \in 2 .. Len(todo') : i + j - 1 \in DOMAIN todo
      BY <1>1, <2>1
    <3> QED BY <1>1, <2>1, <3>1, GrownKeeps
  <2>5. \A j \in 1 .. Len(todo') : j = 1 \/ j \in 2 .. Len(todo')
    BY <1>1, <2>1
  <2> QED BY <2>1, <2>2, <2>3, <2>4, <2>5 DEF TypedTodo
<1> QED BY <1>2, <1>3, RaiseEnds

-----------------------------------------------------------------------------
(* Kinds of steps                                                          *)

\* What is under way to go on with a line
Working == {"line", "runCommand", "runOrPrompt", "launch", "call None", "construct"}

\* A call that neither starts a command, nor opens or closes a shell, nor queues a line
Quiet(op_) ==
  op_[1] \notin {"shell", "pop", "queue"} /\ (op_[1] = "do" => op_[2] \notin {"start", "call", "lineReceived"})

\* Shells and commands are those that were there, and none has left.
Alike ==
  /\ Listed(objs') /\ DOMAIN objs' = DOMAIN objs
  /\ \A o \in DOMAIN objs : objs'[o].cls = objs[o].cls /\ objs'[o].left = objs[o].left
PendingSame == \A o \in DOMAIN objs : objs'[o].pending = objs[o].pending

\* The step goes on with a course, and the stack stays as it is.
Advances(course) ==
  /\ todo # << >> /\ Listed(course) /\ todo' = Calls(me, course) \o Tail(todo)
  /\ cmdstack' = cmdstack /\ (link' = "gone" <=> link = "gone")
  /\ past'.strays = past.strays /\ past'.deaths = past.deaths
  /\ Alike

\* ... with quiet calls; a shell with items pending does not stop there, and a line
\* typed at a command is one item more.
Proceeds ==
  \E course :
    /\ Advances(course) /\ op[1] \notin {"shell", "pop", "leave"}
    /\ \A j \in 1 .. Len(course) : Quiet(course[j]) /\ (course[j][1] = "construct" => cmdstack # << >>)
    /\ \A o \in DOMAIN objs :
         (o = me /\ op[1] \in Working) \/ op[1] = "queue" \/ objs'[o].pending = objs[o].pending
    /\ IsShell(me) /\ op[1] \in Working /\ objs'[me].pending # << >> =>
         \E j \in 1 .. Len(course) : course[j][1] \in Working

\* A command is called by start, sh opens a shell, a line typed at a command is queued.
Opens ==
  \E course :
    /\ Advances(course) /\ PendingSame /\ op[1] = "do" /\ ~IsShell(me)
    /\ \/ op[2] = "start" /\ course = << do("call"), exit >>
       \/ op[2] = "call" /\ course = << shell, pop >> /\ objs[me].cls = "sh"
       \/ op[2] = "lineReceived" /\ course = << queue >>

\* An exception
Thrown ==
  /\ todo # << >> /\ op[1] # "shell" /\ (op[1] = "pop" => cmdstack = << >>)
  /\ Uncaught \/ \E i \in 2 .. Len(todo) : Caught(i)
  /\ cmdstack' = cmdstack /\ Alike
  /\ \A o \in DOMAIN objs : objs'[o].pending = objs[o].pending \/ (IsShell(me) /\ o = me)

\* The first of the calls in progress
LEMMA HeadCall ==
  ASSUME Typed, todo # << >>
  PROVE  /\ Listed(todo) /\ Len(todo) \in Nat /\ 1 \in DOMAIN todo /\ Head(todo) = todo[1]
         /\ DOMAIN todo = 1 .. Len(todo) /\ DOMAIN objs = 1 .. Len(objs) /\ Len(objs) \in Nat
         /\ DOMAIN pps = 1 .. Len(pps) /\ Len(pps) \in Nat
         /\ me \in DOMAIN objs /\ ObjOK(objs[me], pps)
         /\ op[1] \in {"launch", "construct"} => KnownPipe(op[2], pps)
         /\ op[1] = "call None" => op[2] \in DOMAIN pps
         /\ op[1] = "line" => op[2] \in Lines
         /\ op[1] \in {"line", "runCommand", "runOrPrompt"} => IsShell(me)
         /\ op[1] \in {"write", "raise", "cancel", "answer", "terminal", "cd", "mkfile", "keep", "link",
                       "file", "redirFiles", "leave", "callend", "queue", "insert", "outConnectionLost",
                       "temp", "fill", "move", "cutHeader", "callLater", "await", "guard", "do",
                       "password_input", "shell", "pop"} => ~IsShell(me)
         /\ op[1] \in {"callLater", "await", "guard"} => op[2] \in Methods
         /\ op[1] = "do" => op[2] \in Methods \cup {"start", "call", "lineReceived"}
         /\ op[1] = "password_input" => op[2] \in BOOLEAN
         /\ op[1] \in {"shell", "pop"} => objs[me].cls = "sh"
<1>1. /\ Listed(todo) /\ Len(todo) \in Nat /\ DOMAIN todo = 1 .. Len(todo) /\ Head(todo) = todo[1]
      /\ 1 \in DOMAIN todo
  <2>1. Listed(todo)
    BY DEF Typed, TypedTodo
  <2> QED BY <2>1, ListedShape, ListedTail
<1>2. /\ DOMAIN objs = 1 .. Len(objs) /\ Len(objs) \in Nat
      /\ DOMAIN pps = 1 .. Len(pps) /\ Len(pps) \in Nat
  BY ListedShape DEF Typed, TypedObjs, TypedPipes
<1>3. FrameOK(Head(todo), objs, pps)
  BY <1>1 DEF Typed, TypedTodo
<1>4. me \in DOMAIN objs /\ ObjOK(objs[me], pps)
  BY <1>3 DEF FrameOK, me, Typed, TypedObjs
<1>5. \/ Starts(op, pps)
      \/ IsShell(me) /\ ShellOp(op)
      \/ ~IsShell(me) /\ CommandOp(objs[me].cls, op)
  BY <1>3 DEF FrameOK, me, op, IsShell
<1> HIDE DEF me, op
<1>6. /\ op[1] \in {"launch", "construct"} => KnownPipe(op[2], pps)
      /\ op[1] = "call None" => op[2] \in DOMAIN pps
      /\ op[1] = "line" => op[2] \in Lines
      /\ op[1] \in {"line", "runCommand", "runOrPrompt"} => IsShell(me)
  BY <1>5 DEF Starts, ShellOp, CommandOp, PlainSteps
<1>7. op[1] \in {"write", "raise", "cancel", "answer", "terminal", "cd", "mkfile", "keep", "link",
                 "file", "redirFiles", "leave", "callend", "queue", "insert", "outConnectionLost",
                 "temp", "fill", "move", "cutHeader", "callLater", "await", "guard", "do",
                 "password_input", "shell", "pop"} => ~IsShell(me)
  BY <1>5 DEF Starts, ShellOp, CommandOp, PlainSteps
<1>8. /\ op[1] \in {"callLater", "await", "guard"} => op[2] \in Methods
      /\ op[1] = "do" => op[2] \in Methods \cup {"start", "call", "lineReceived"}
      /\ op[1] = "password_input" => op[2] \in BOOLEAN
      /\ op[1] \in {"shell", "pop"} => objs[me].cls = "sh"
  BY <1>5 DEF Starts, ShellOp, CommandOp, PlainSteps
<1> QED BY <1>1, <1>2, <1>4, <1>6, <1>7, <1>8

\* Nothing but the calls has changed.
LEMMA StillKeeps ==
  ASSUME Typed, UNCHANGED << stack, timers >>
  PROVE  /\ Grown /\ Alike /\ PendingSame /\ cmdstack' = cmdstack
         /\ TypedObjs(objs', pps') /\ TypedPipes(pps')
         /\ TypedTimers(timers', objs') /\ TypedStack(cmdstack', objs') /\ pp' \in 0 .. Len(pps')
<1>1. cmdstack' = cmdstack /\ objs' = objs /\ pps' = pps /\ pp' = pp /\ timers' = timers
  BY DEF stack
<1>2. Len(objs) \in Nat /\ Len(pps) \in Nat /\ Listed(objs) /\ Listed(pps)
  BY ListedShape DEF Typed, TypedObjs, TypedPipes
<1>3. Grown
  BY <1>1, <1>2 DEF Grown
<1>4. Alike /\ PendingSame
  BY <1>1, <1>2 DEF Alike, PendingSame
<1> QED BY <1>1, <1>3, <1>4 DEF Typed

LEMMA StillGoes ==
  ASSUME Typed, todo # << >>, UNCHANGED << stack, timers >>, Flags',
         link' = "gone" <=> link = "gone", past'.strays = past.strays, past'.deaths = past.deaths,
         NEW course, Listed(course), Go(me, course), op[1] \notin {"shell", "pop", "leave"},
         \A j \in 1 .. Len(course) :
           /\ FrameOK([who |-> me, op |-> course[j]], objs, pps) /\ Quiet(course[j])
           /\ course[j][1] # "construct",
         IsShell(me) /\ op[1] \in Working /\ objs'[me].pending # << >> =>
           \E j \in 1 .. Len(course) : course[j][1] \in Working
  PROVE  Typed' /\ Proceeds
<1>1. /\ Grown /\ Alike /\ PendingSame /\ cmdstack' = cmdstack
      /\ TypedObjs(objs', pps') /\ TypedPipes(pps')
      /\ TypedTimers(timers', objs') /\ TypedStack(cmdstack', objs') /\ pp' \in 0 .. Len(pps')
  BY StillKeeps
<1>2. todo' = Calls(me, course) \o Tail(todo)
  BY DEF Go
<1>3. \A j \in 1 .. Len(course) : FrameOK([who |-> me, op |-> course[j]], objs', pps')
  BY <1>1, GrownKeeps
<1>4. TypedTodo(todo', objs', pps')
  BY <1>1, <1>2, <1>3, TodoOn
<1>5. Typed'
  BY <1>1, <1>4 DEF Typed
<1>6. Advances(course)
  BY <1>1, <1>2 DEF Advances
<1>7. Proceeds
  BY <1>1, <1>6 DEF Proceeds, PendingSame
<1> QED BY <1>5, <1>7

LEMMA StillSkips ==
  ASSUME Typed, todo # << >>, UNCHANGED << stack, timers >>, Flags',
         link' = "gone" <=> link = "gone", past'.strays = past.strays, past'.deaths = past.deaths,
         Skip, op[1] \notin {"shell", "pop", "leave"} \cup Working
  PROVE  Typed' /\ Proceeds
<1>1. Go(me, << >>)
  BY SkipIsGo DEF Typed, TypedTodo, Skip, Go
<1>2. Listed(<< >>) /\ 1 .. Len(<< >>) = {}
  BY ListedEmpty
<1>3. \A j \in 1 .. Len(<< >>) : FALSE
  BY <1>2
<1> QED BY <1>1, <1>2, <1>3, StillGoes

LEMMA StillRaises ==
  ASSUME Typed, todo # << >>, UNCHANGED << stack, timers, session, password_input >>, Raise,
         op[1] # "shell", op[1] = "pop" => cmdstack = << >>
  PROVE  Typed' /\ Thrown
<1>1. /\ Grown /\ Alike /\ PendingSame /\ cmdstack' = cmdstack
      /\ TypedObjs(objs', pps') /\ TypedPipes(pps')
      /\ TypedTimers(timers', objs') /\ TypedStack(cmdstack', objs') /\ pp' \in 0 .. Len(pps')
  BY StillKeeps
<1>2. Uncaught \/ \E i \in 2 .. Len(todo) : Caught(i)
  BY RaiseEnds
<1>3. TypedTodo(todo', objs', pps')
  BY <1>1, RaiseTyped
<1>4. Flags'
  <2>1. link' \in {link, "broken"} /\ DOMAIN past' = DOMAIN past
    BY <1>2 DEF Uncaught, Caught
  <2> QED BY <2>1 DEF Flags, Typed, session
<1>5. Typed'
  BY <1>1, <1>3, <1>4 DEF Typed
<1>6. Thrown
  BY <1>1, <1>2 DEF Thrown, PendingSame
<1> QED BY <1>5, <1>6

-----------------------------------------------------------------------------
(* The steps that leave the stack alone                                    *)

LEMMA FlagsStay ==
  ASSUME Typed, UNCHANGED << session, link, password_input, past >>
  PROVE  /\ Flags' /\ (link' = "gone" <=> link = "gone")
         /\ past'.strays = past.strays /\ past'.deaths = past.deaths
  BY DEF Typed, Flags, session

\* Steps that at most change the file system, the terminal or a flag
LEMMA StillSteps ==
  ASSUME Typed,
         \/ WriteToFile \/ RegisterRedir \/ Guarded \/ Echo \/ ChangeDir \/ Fill
         \/ ProcessEnded \/ UseTerminal \/ RaiseHere \/ OnTree \/ Mkfile \/ Link \/ CutHeader
  PROVE  Typed' /\ (Proceeds \/ Thrown)
<1>1. CASE WriteToFile
  <2>1. /\ todo # << >> /\ op[1] = "write" /\ Skip
        /\ UNCHANGED << stack, timers >> /\ UNCHANGED << session, link, password_input, past >>
    BY <1>1 DEF WriteToFile, Is
  <2> QED BY <2>1, FlagsStay, StillSkips DEF Working
<1>2. CASE RegisterRedir
  <2>1. /\ todo # << >> /\ op[1] = "redirFiles" /\ Skip
        /\ UNCHANGED << stack, timers >> /\ UNCHANGED << session, link, password_input >>
        /\ past' = [past EXCEPT !.appended = @ \/ objs[me].safe \in {<< "sha", d >> : d \in Range(disk)}]
    BY <1>2 DEF RegisterRedir, Is
  <2>2. /\ Flags' /\ (link' = "gone" <=> link = "gone")
        /\ past'.strays = past.strays /\ past'.deaths = past.deaths
    BY <2>1 DEF Typed, Flags, session
  <2> QED BY <2>1, <2>2, StillSkips DEF Working
<1>3. CASE Guarded
  <2>1. /\ todo # << >> /\ op[1] = "guard" /\ Skip
        /\ UNCHANGED << stack, timers >> /\ UNCHANGED << session, link, password_input, past >>
    BY <1>3 DEF Guarded, Is
  <2> QED BY <2>1, FlagsStay, StillSkips DEF Working
<1>4. CASE Echo
  <2>1. /\ todo # << >> /\ op[1] = "password_input" /\ Skip /\ password_input' = op[2]
        /\ UNCHANGED << stack, timers >> /\ UNCHANGED << session, link, past >>
    BY <1>4 DEF Echo, Is
  <2>2. op[2] \in BOOLEAN
    BY <2>1, HeadCall
  <2>3. /\ Flags' /\ (link' = "gone" <=> link = "gone")
        /\ past'.strays = past.strays /\ past'.deaths = past.deaths
    BY <2>1, <2>2 DEF Typed, Flags, session
  <2> QED BY <2>1, <2>3, StillSkips DEF Working
<1>5. CASE ChangeDir
  <2>1. /\ todo # << >> /\ op[1] = "cd" /\ Skip
        /\ UNCHANGED << stack, timers >> /\ UNCHANGED << session, link, password_input, past >>
    BY <1>5 DEF ChangeDir, Is
  <2> QED BY <2>1, FlagsStay, StillSkips DEF Working
<1>6. CASE Fill
  <2>1. /\ todo # << >> /\ op[1] = "fill" /\ Skip
        /\ UNCHANGED << stack, timers >> /\ UNCHANGED << session, link, password_input >>
        /\ past' = [past EXCEPT !.appended = @ \/ Head(objs[me].got) = "sha"]
    BY <1>6 DEF Fill, Is
  <2>2. /\ Flags' /\ (link' = "gone" <=> link = "gone")
        /\ past'.strays = past.strays /\ past'.deaths = past.deaths
    BY <2>1 DEF Typed, Flags, session
  <2> QED BY <2>1, <2>2, StillSkips DEF Working
<1>7. CASE ProcessEnded
  <2>1. todo # << >> /\ op[1] = "processEnded" /\ UNCHANGED << stack, timers, session, password_input >>
    BY <1>7 DEF ProcessEnded, Is
  <2>2. CASE link = "gone"
    BY <1>7, <2>1, <2>2, StillRaises DEF ProcessEnded
  <2>3. CASE link # "gone"
    <3>1. Skip /\ past' = past /\ link' = IF link = "up" THEN "ended" ELSE link
      BY <1>7, <2>3 DEF ProcessEnded
    <3>2. /\ Flags' /\ (link' = "gone" <=> link = "gone")
          /\ past'.strays = past.strays /\ past'.deaths = past.deaths
      BY <2>1, <2>3, <3>1 DEF Typed, Flags, session
    <3> QED BY <2>1, <3>1, <3>2, StillSkips DEF Working
  <2> QED BY <2>2, <2>3
<1>8. CASE UseTerminal
  <2>1. todo # << >> /\ op[1] = "terminal" /\ UNCHANGED << stack, timers, session, password_input >>
    BY <1>8 DEF UseTerminal, Is
  <2>2. CASE link = "gone"
    BY <1>8, <2>1, <2>2, StillRaises DEF UseTerminal
  <2>3. CASE link # "gone"
    <3>1. Skip /\ UNCHANGED << session, link, password_input, past >>
      BY <1>8, <2>1, <2>3 DEF UseTerminal
    <3> QED BY <2>1, <3>1, FlagsStay, StillSkips DEF Working
  <2> QED BY <2>2, <2>3
<1>9. CASE RaiseHere
  <2>1. todo # << >> /\ op[1] = "raise" /\ UNCHANGED << stack, timers, session, password_input >> /\ Raise
    BY <1>9 DEF RaiseHere, Is
  <2> QED BY <2>1, StillRaises
<1>10. ASSUME todo # << >>, op[1] \in {"file", "mkfile", "link"}, NEW r, Onto(r),
              UNCHANGED << stack, timers, session, password_input >>
       PROVE  Typed' /\ (Proceeds \/ Thrown)
  <2>1. CASE r.err # ""
    BY <1>10, <2>1, StillRaises DEF Onto
  <2>2. CASE r.err = ""
    <3>1. Skip /\ UNCHANGED << session, link, password_input, past >>
      BY <1>10, <2>2 DEF Onto
    <3> QED BY <1>10, <3>1, FlagsStay, StillSkips DEF Working
  <2> QED BY <2>1, <2>2
<1>11. CASE OnTree
  <2>1. /\ todo # << >> /\ op[1] = "file" /\ UNCHANGED << stack, timers, session, password_input >>
        /\ Onto(FileCommand(op[2], tree, cwd, objs[me].stage.c))
    BY <1>11 DEF OnTree, Is
  <2> QED BY <1>10, <2>1
<1>12. CASE Mkfile
  <2>1. /\ todo # << >> /\ op[1] = "mkfile" /\ UNCHANGED << stack, timers, session, password_input >>
        /\ Onto(mkfile(tree, objs[me].dst))
    BY <1>12 DEF Mkfile, Is
  <2> QED BY <1>10, <2>1
<1>13. CASE Link
  <2>1. /\ todo # << >> /\ op[1] = "link" /\ UNCHANGED << stack, timers, session, password_input >>
        /\ Onto(update_realfile(tree, getfile(tree, objs[me].dst, TRUE), objs[me].got, DOMAIN disk))
    BY <1>13 DEF Link, Is
  <2> QED BY <1>10, <2>1
<1>14. CASE CutHeader
  <2>1. todo # << >> /\ op[1] = "cutHeader" /\ UNCHANGED << stack, timers, session, password_input >>
    BY <1>14 DEF CutHeader, Is
  <2>2. CASE Raise
    BY <2>1, <2>2, StillRaises
  <2>3. CASE Skip /\ UNCHANGED << link, past >>
    <3>1. UNCHANGED << session, link, password_input, past >>
      BY <2>1, <2>3
    <3> QED BY <2>1, <2>3, <3>1, FlagsStay, StillSkips DEF Working
  <2>4. Raise \/ (Skip /\ UNCHANGED << link, past >>)
    BY <1>14 DEF CutHeader
  <2> QED BY <2>2, <2>3, <2>4
<1> QED BY <1>1, <1>2, <1>3, <1>4, <1>5, <1>6, <1>7, <1>8, <1>9, <1>11, <1>12, <1>13, <1>14

\* The shell's own steps that leave what is pending
LEMMA ShellSteps ==
  ASSUME Typed, RunNothing \/ RunOrPrompt
  PROVE  Typed' /\ Proceeds
<1>1. /\ todo # << >> /\ op[1] \in {"runCommand", "runOrPrompt"}
      /\ UNCHANGED << stack, timers >> /\ UNCHANGED << session, link, password_input, past >>
  BY DEF RunNothing, RunOrPrompt, Is
<1>2. IsShell(me) /\ objs' = objs
  BY <1>1, HeadCall DEF stack
<1>3. ASSUME NEW c, c \in {<< "processEnded" >>, << "runCommand" >>}
      PROVE  FrameOK([who |-> me, op |-> c], objs, pps) /\ Quiet(c) /\ c[1] # "construct"
  <2>1. me \in DOMAIN objs /\ objs[me].cls = "shell"
    BY <1>1, <1>2, HeadCall DEF IsShell
  <2>2. c[1] \in {"processEnded", "runCommand"}
    BY <1>3
  <2> QED BY <2>1, <2>2 DEF FrameOK, ShellOp, Quiet
<1>4. CASE RunNothing
  <2>1. objs[me].pending = << >>
    BY <1>4 DEF RunNothing
  <2>2. CASE ~objs[me].interactive /\ Len(cmdstack) = 1
    <3> DEFINE course == << processEnded >>
    <3>1. Go(me, course)
      BY <1>4, <2>2 DEF RunNothing
    <3>2. Listed(course) /\ Len(course) = 1 /\ course[1] = << "processEnded" >>
      BY ListedSingle DEF processEnded
    <3> HIDE DEF course
    <3>3. \A j \in 1 .. Len(course) : course[j] = << "processEnded" >>
      BY <3>2
    <3> QED BY <1>1, <1>2, <1>3, <2>1, <3>1, <3>2, <3>3, FlagsStay, StillGoes
  <2>3. CASE ~(~objs[me].interactive /\ Len(cmdstack) = 1)
    <3>1. Go(me, << >>)
      <4>1. Skip
        BY <1>4, <2>3 DEF RunNothing
      <4> QED BY <1>1, <4>1, SkipIsGo DEF Typed, TypedTodo, Skip, Go
    <3>2. Listed(<< >>) /\ \A j \in 1 .. Len(<< >>) : FALSE
      BY ListedEmpty
    <3> QED BY <1>1, <1>2, <2>1, <3>1, <3>2, FlagsStay, StillGoes
  <2> QED BY <2>2, <2>3
<1>5. CASE RunOrPrompt
  <2>1. CASE objs[me].pending = << >>
    <3>1. Go(me, << >>)
      BY <1>5, <2>1 DEF RunOrPrompt
    <3>2. Listed(<< >>) /\ \A j \in 1 .. Len(<< >>) : FALSE
      BY ListedEmpty
    <3> QED BY <1>1, <1>2, <2>1, <3>1, <3>2, FlagsStay, StillGoes
  <2>2. CASE objs[me].pending # << >>
    <3> DEFINE course == << << "runCommand" >> >>
    <3>1. Go(me, course)
      BY <1>5, <2>2 DEF RunOrPrompt
    <3>2. Listed(course) /\ Len(course) = 1 /\ course[1] = << "runCommand" >>
      BY ListedSingle
    <3> HIDE DEF course
    <3>3. course[1][1] \in Working /\ 1 \in 1 .. Len(course)
      BY <3>2 DEF Working
    <3>4. \A j \in 1 .. Len(course) : course[j] = << "runCommand" >>
      BY <3>2
    <3> QED BY <1>1, <1>2, <1>3, <3>1, <3>2, <3>3, <3>4, FlagsStay, StillGoes
  <2> QED BY <2>1, <2>2
<1> QED BY <1>4, <1>5

-----------------------------------------------------------------------------
(* The steps that change a shell or a command                              *)

LEMMA Goes ==
  ASSUME Typed, todo # << >>, Grown, Alike, TypedObjs(objs', pps'), TypedPipes(pps'),
         TypedTimers(timers', objs'), cmdstack' = cmdstack, pp' \in 0 .. Len(pps'), Flags',
         link' = "gone" <=> link = "gone", past'.strays = past.strays, past'.deaths = past.deaths,
         NEW course, Listed(course), Go(me, course), op[1] \notin {"shell", "pop", "leave"},
         \A j \in 1 .. Len(course) :
           /\ FrameOK([who |-> me, op |-> course[j]], objs', pps') /\ Quiet(course[j])
           /\ course[j][1] = "construct" => cmdstack # << >>,
         \A o \in DOMAIN objs :
           (o = me /\ op[1] \in Working) \/ op[1] = "queue" \/ objs'[o].pending = objs[o].pending,
         IsShell(me) /\ op[1] \in Working /\ objs'[me].pending # << >> =>
           \E j \in 1 .. Len(course) : course[j][1] \in Working
  PROVE  Typed' /\ Proceeds
<1>1. todo' = Calls(me, course) \o Tail(todo)
  BY DEF Go
<1>2. TypedTodo(todo', objs', pps')
  BY <1>1, TodoOn
<1>3. TypedStack(cmdstack', objs')
  BY GrownKeeps
<1>4. Typed'
  BY <1>2, <1>3 DEF Typed
<1>5. Advances(course)
  BY <1>1 DEF Advances
<1>6. Proceeds
  BY <1>5 DEF Proceeds
<1> QED BY <1>4, <1>6

LEMMA GoesNowhere ==
  ASSUME Typed, todo # << >>, Grown, Alike, TypedObjs(objs', pps'), TypedPipes(pps'),
         TypedTimers(timers', objs'), cmdstack' = cmdstack, pp' \in 0 .. Len(pps'), Flags',
         link' = "gone" <=> link = "gone", past'.strays = past.strays, past'.deaths = past.deaths,
         Skip, op[1] \notin {"shell", "pop", "leave"} \cup Working, PendingSame
  PROVE  Typed' /\ Proceeds
<1>1. Go(me, << >>)
  BY SkipIsGo DEF Typed, TypedTodo, Skip, Go
<1>2. Listed(<< >>) /\ \A j \in 1 .. Len(<< >>) : FALSE
  BY ListedEmpty
<1> QED BY <1>1, <1>2, Goes DEF PendingSame

LEMMA Raises ==
  ASSUME Typed, todo # << >>, Grown, Alike, TypedObjs(objs', pps'), TypedPipes(pps'),
         TypedTimers(timers', objs'), cmdstack' = cmdstack, pp' \in 0 .. Len(pps'),
         UNCHANGED << session, password_input >>, Raise,
         op[1] \notin {"shell", "pop"},
         \A o \in DOMAIN objs : objs'[o].pending = objs[o].pending \/ (IsShell(me) /\ o = me)
  PROVE  Typed' /\ Thrown
<1>1. Uncaught \/ \E i \in 2 .. Len(todo) : Caught(i)
  BY RaiseEnds
<1>2. TypedTodo(todo', objs', pps')
  BY RaiseTyped
<1>3. Flags'
  <2>1. link' \in {link, "broken"} /\ DOMAIN past' = DOMAIN past
    BY <1>1 DEF Uncaught, Caught
  <2> QED BY <2>1 DEF Flags, Typed, session
<1>4. TypedStack(cmdstack', objs')
  BY GrownKeeps
<1>5. Typed'
  BY <1>2, <1>3, <1>4 DEF Typed
<1>6. Thrown
  BY <1>1 DEF Thrown
<1> QED BY <1>5, <1>6

\* Fields of one object are changed, but not its class and not left.
LEMMA OneChanged ==
  ASSUME Typed, NEW o \in DOMAIN objs, NEW e, ObjOK(e, pps), e.cls = objs[o].cls, e.left = objs[o].left,
         objs' = [objs EXCEPT ![o] = e], pps' = pps
  PROVE  /\ Grown /\ Alike /\ TypedObjs(objs', pps') /\ TypedPipes(pps')
         /\ objs'[o] = e /\ \A x \in DOMAIN objs : x # o => objs'[x] = objs[x]
<1>1. /\ DOMAIN objs = 1 .. Len(objs) /\ Len(objs) \in Nat /\ Listed(objs)
      /\ Len(pps) \in Nat /\ Listed(pps)
  BY ListedShape DEF Typed, TypedObjs, TypedPipes
<1>2. Listed(objs') /\ Len(objs') = Len(objs)
  BY <1>1, ListedExcept
<1>3. DOMAIN objs' = DOMAIN objs /\ objs'[o] = e /\ \A x \in DOMAIN objs : x # o => objs'[x] = objs[x]
  OBVIOUS
<1>4. \A x \in DOMAIN objs : objs'[x].cls = objs[x].cls /\ objs'[x].left = objs[x].left
  BY <1>3
<1>5. Grown
  BY <1>1, <1>2, <1>3, <1>4 DEF Grown
<1>6. Alike
  BY <1>2, <1>3, <1>4 DEF Alike
<1>7. TypedObjs(objs', pps')
  BY <1>2, <1>3 DEF TypedObjs, Typed
<1> QED BY <1>3, <1>5, <1>6, <1>7 DEF Typed

LEMMA AwaitSteps ==
  ASSUME Typed, Await \/ Answer
  PROVE  Typed' /\ (Proceeds \/ Thrown)
<1> DEFINE set(m) == [objs[me] EXCEPT !.await = m]
<1>1. todo # << >> /\ op[1] \in {"await", "answer"}
  BY DEF Await, Answer, Is
<1>2. me \in DOMAIN objs /\ ObjOK(objs[me], pps) /\ ~IsShell(me) /\ op[1] = "await" => op[2] \in Methods
  BY <1>1, HeadCall
<1>3. ASSUME NEW m, m \in Methods \cup {""}, objs' = [objs EXCEPT ![me].await = m], pps' = pps,
             timers' = timers, pp' = pp
      PROVE  /\ Grown /\ Alike /\ TypedObjs(objs', pps') /\ TypedPipes(pps')
             /\ PendingSame /\ TypedTimers(timers', objs') /\ pp' \in 0 .. Len(pps')
  <2>0. me \in DOMAIN objs /\ ObjOK(objs[me], pps)
    BY <1>1, HeadCall
  <2>1. objs' = [objs EXCEPT ![me] = set(m)]
    BY <1>3
  <2>2. /\ DOMAIN set(m) = ObjFields /\ set(m).pending = objs[me].pending /\ set(m).pp = objs[me].pp
        /\ set(m).left = objs[me].left /\ set(m).cls = objs[me].cls /\ set(m).stage = objs[me].stage
        /\ set(m).await = m
    BY <2>0 DEF ObjOK, ObjFields
  <2>3. ObjOK(set(m), pps)
    BY <1>3, <2>0, <2>2 DEF ObjOK
  <2> HIDE DEF set
  <2>4. /\ Grown /\ Alike /\ TypedObjs(objs', pps') /\ TypedPipes(pps')
        /\ objs'[me] = set(m) /\ \A x \in DOMAIN objs : x # me => objs'[x] = objs[x]
    BY <1>3, <2>0, <2>1, <2>2, <2>3, OneChanged
  <2>5. PendingSame
    BY <2>2, <2>4 DEF PendingSame
  <2> QED BY <1>3, <2>4, <2>5, GrownKeeps DEF Typed
<1>4. CASE Await
  <2>1. /\ objs' = [objs EXCEPT ![me].await = op[2]] /\ Skip /\ op[1] = "await"
        /\ cmdstack' = cmdstack /\ pps' = pps /\ pp' = pp /\ timers' = timers
        /\ UNCHANGED << session, link, password_input, past >>
    BY <1>4 DEF Await, Is
  <2>2. op[2] \in Methods
    BY <1>1, <2>1, HeadCall
  <2>3. /\ Grown /\ Alike /\ TypedObjs(objs', pps') /\ TypedPipes(pps')
        /\ PendingSame /\ TypedTimers(timers', objs') /\ pp' \in 0 .. Len(pps')
    BY <1>3, <2>1, <2>2
  <2> QED BY <1>1, <2>1, <2>3, FlagsStay, GoesNowhere DEF Working
<1>5. CASE Answer
  <2>1. /\ objs' = [objs EXCEPT ![me].await = ""] /\ op[1] = "answer"
        /\ cmdstack' = cmdstack /\ pps' = pps /\ pp' = pp /\ timers' = timers
        /\ UNCHANGED << session, password_input >>
    BY <1>5 DEF Answer, Is
  <2>2. /\ Grown /\ Alike /\ TypedObjs(objs', pps') /\ TypedPipes(pps')
        /\ PendingSame /\ TypedTimers(timers', objs') /\ pp' \in 0 .. Len(pps')
    BY <1>3, <2>1
  <2>3. CASE objs[me].await = ""
    <3>1. Raise
      BY <1>5, <2>3 DEF Answer
    <3> QED BY <1>1, <2>1, <2>2, <3>1, Raises DEF PendingSame
  <2>4. CASE objs[me].await # ""
    <3> DEFINE course == << do(objs[me].await) >>
    <3>1. Go(me, course) /\ UNCHANGED << link, past >>
      BY <1>5, <2>4 DEF Answer
    <3>2. Listed(course) /\ Len(course) = 1 /\ course[1] = do(objs[me].await)
      BY ListedSingle
    <3>3. objs[me].await \in Methods /\ me \in DOMAIN objs /\ ~IsShell(me)
      <4>1. me \in DOMAIN objs /\ ObjOK(objs[me], pps) /\ ~IsShell(me)
        BY <1>1, HeadCall
      <4> QED BY <2>4, <4>1 DEF ObjOK, IsShell
    <3>4. /\ FrameOK([who |-> me, op |-> do(objs[me].await)], objs, pps) /\ Quiet(do(objs[me].await))
          /\ do(objs[me].await)[1] = "do"
      <4>1. Methods \cap {"start", "call", "lineReceived"} = {}
        BY DEF Methods
      <4> QED BY <3>3, <4>1 DEF FrameOK, CommandOp, IsShell, do, Quiet
    <3> HIDE DEF course
    <3>5. \A j \in 1 .. Len(course) :
            /\ FrameOK([who |-> me, op |-> course[j]], objs', pps') /\ Quiet(course[j])
            /\ course[j][1] = "construct" => cmdstack # << >>
      BY <2>2, <3>2, <3>4, GrownKeeps
    <3>6. UNCHANGED << session, link, password_input, past >>
      BY <2>1, <3>1
    <3> QED BY <1>1, <2>1, <2>2, <3>1, <3>2, <3>3, <3>5, <3>6, FlagsStay, Goes DEF PendingSame
  <2> QED BY <2>3, <2>4
<1> QED BY <1>4, <1>5

\* The file of a download is named.
LEMMA FileSteps ==
  ASSUME Typed, Temp \/ Keep \/ Move
  PROVE  Typed' /\ (Proceeds \/ Thrown)
<1>1. /\ todo # << >> /\ op[1] \in {"temp", "keep", "move"}
      /\ cmdstack' = cmdstack /\ pps' = pps /\ pp' = pp /\ timers' = timers
      /\ UNCHANGED << session, password_input >>
  BY DEF Temp, Keep, Move, Is
<1>2. me \in DOMAIN objs /\ ObjOK(objs[me], pps)
  BY <1>1, HeadCall
<1>3. ASSUME NEW e, objs' = [objs EXCEPT ![me] = e], DOMAIN e = ObjFields,
             \A f \in ObjFields \ {"got", "safe"} : e[f] = objs[me][f]
      PROVE  /\ Grown /\ Alike /\ TypedObjs(objs', pps') /\ TypedPipes(pps')
             /\ PendingSame /\ TypedTimers(timers', objs') /\ pp' \in 0 .. Len(pps')
  <2>1. /\ e.pending = objs[me].pending /\ e.pp = objs[me].pp
        /\ e.left = objs[me].left /\ e.cls = objs[me].cls /\ e.stage = objs[me].stage
        /\ e.await = objs[me].await
    BY <1>3 DEF ObjFields
  <2>2. ObjOK(e, pps)
    BY <1>2, <1>3, <2>1 DEF ObjOK
  <2>3. /\ Grown /\ Alike /\ TypedObjs(objs', pps') /\ TypedPipes(pps')
        /\ objs'[me] = e /\ \A x \in DOMAIN objs : x # me => objs'[x] = objs[x]
    BY <1>1, <1>2, <1>3, <2>1, <2>2, OneChanged
  <2>4. PendingSame
    BY <2>1, <2>3 DEF PendingSame
  <2> QED BY <1>1, <2>3, <2>4, GrownKeeps DEF Typed
<1>4. DOMAIN objs[me] = ObjFields
  BY <1>2 DEF ObjOK
<1>5. CASE Temp
  <2> DEFINE name == IF objs[me].safe # NoFile THEN objs[me].safe ELSE << "tmp", me >>
             e == [objs[me] EXCEPT !.got = name, !.safe = name]
  <2>1. /\ objs' = [objs EXCEPT ![me].got = name, ![me].safe = name]
        /\ Skip /\ UNCHANGED << session, link, password_input, past >>
    BY <1>5 DEF Temp
  <2> HIDE DEF name
  <2>2. objs' = [objs EXCEPT ![me] = e]
    BY <1>2, <2>1
  <2>3. DOMAIN e = ObjFields /\ \A f \in ObjFields \ {"got", "safe"} : e[f] = objs[me][f]
    BY <1>4
  <2> HIDE DEF e
  <2>4. /\ Grown /\ Alike /\ TypedObjs(objs', pps') /\ TypedPipes(pps')
        /\ PendingSame /\ TypedTimers(timers', objs') /\ pp' \in 0 .. Len(pps')
    BY <1>3, <2>2, <2>3
  <2> QED BY <1>1, <2>1, <2>4, FlagsStay, GoesNowhere DEF Working
<1>6. ASSUME NEW n, objs' = [objs EXCEPT ![me].got = n], Skip, UNCHANGED << link, past >>
      PROVE  Typed' /\ Proceeds
  <2> DEFINE e == [objs[me] EXCEPT !.got = n]
  <2>1. objs' = [objs EXCEPT ![me] = e]
    BY <1>2, <1>6
  <2>2. DOMAIN e = ObjFields /\ \A f \in ObjFields \ {"got", "safe"} : e[f] = objs[me][f]
    BY <1>4
  <2> HIDE DEF e
  <2>3. /\ Grown /\ Alike /\ TypedObjs(objs', pps') /\ TypedPipes(pps')
        /\ PendingSame /\ TypedTimers(timers', objs') /\ pp' \in 0 .. Len(pps')
    BY <1>3, <2>1, <2>2
  <2>4. UNCHANGED << session, link, password_input, past >>
    BY <1>1, <1>6
  <2> QED BY <1>1, <1>6, <2>3, <2>4, FlagsStay, GoesNowhere DEF Working
<1>7. CASE Keep
  <2>1. \E n : objs' = [objs EXCEPT ![me].got = n]
    BY <1>7 DEF Keep
  <2>2. Skip /\ UNCHANGED << link, past >>
    BY <1>7 DEF Keep
  <2> QED BY <1>6, <2>1, <2>2
<1>8. CASE Move
  <2>1. CASE objs[me].got \notin DOMAIN disk
    <3>1. Raise /\ UNCHANGED << stack, timers, session, password_input >>
      BY <1>1, <1>8, <2>1 DEF Move, stack
    <3> QED BY <1>1, <3>1, StillRaises
  <2>2. CASE objs[me].got \in DOMAIN disk
    <3>1. \E n : objs' = [objs EXCEPT ![me].got = n]
      BY <1>8, <2>2 DEF Move
    <3>2. Skip /\ UNCHANGED << link, past >>
      BY <1>8, <2>2 DEF Move
    <3> QED BY <1>6, <3>1, <3>2
  <2> QED BY <2>1, <2>2
<1> QED BY <1>5, <1>7, <1>8 DEF Temp, Keep, Move

-----------------------------------------------------------------------------
(* The steps that change a pipe, a timer or what is pending                *)

\* Pipes are changed or added, and keep their stages.
LEMMA PipesGrown ==
  ASSUME Typed, objs' = objs, timers' = timers, TypedPipes(pps'), Len(pps) <= Len(pps'),
         \A p \in DOMAIN pps : pps'[p].stage = pps[p].stage
  PROVE  /\ Grown /\ Alike /\ PendingSame /\ TypedObjs(objs', pps') /\ TypedTimers(timers', objs')
         /\ pp \in 0 .. Len(pps')
<1>1. Len(objs) \in Nat /\ Listed(objs) /\ Listed(pps')
  BY ListedShape DEF Typed, TypedObjs, TypedPipes
<1>2. Grown
  BY <1>1 DEF Grown
<1>3. Alike /\ PendingSame
  BY <1>1 DEF Alike, PendingSame
<1> QED BY <1>2, <1>3, GrownKeeps DEF Typed, TypedObjs

\* One pipe is changed.
LEMMA PipeSet ==
  ASSUME Typed, NEW q \in DOMAIN pps, NEW e, DOMAIN e = PipeFields, e.stage = pps[q].stage,
         e.next = 0 \/ KnownPipe(e.next, pps), pps' = [pps EXCEPT ![q] = e]
  PROVE  /\ TypedPipes(pps') /\ Len(pps') = Len(pps) /\ Len(pps) <= Len(pps')
         /\ \A p \in DOMAIN pps : pps'[p].stage = pps[p].stage
<1>1. /\ DOMAIN pps = 1 .. Len(pps) /\ Len(pps) \in Nat /\ Listed(pps)
      /\ \A p \in DOMAIN pps : PipeOK(pps[p], pps)
  BY ListedShape DEF Typed, TypedPipes
<1>2. Listed(pps') /\ Len(pps') = Len(pps) /\ DOMAIN pps' = DOMAIN pps
  BY <1>1, ListedExcept
<1>3. pps'[q] = e /\ \A p \in DOMAIN pps : p # q => pps'[p] = pps[p]
  OBVIOUS
<1>4. \A p \in DOMAIN pps : pps'[p].stage = pps[p].stage
  BY <1>3
<1>5. \A p : KnownPipe(p, pps) => KnownPipe(p, pps')
  BY <1>2, <1>4 DEF KnownPipe
<1>6. \A p \in DOMAIN pps' : PipeOK(pps'[p], pps')
  BY <1>1, <1>2, <1>3, <1>5 DEF PipeOK
<1>7. TypedPipes(pps')
  BY <1>2, <1>6 DEF TypedPipes
<1> QED BY <1>1, <1>2, <1>4, <1>7

LEMMA PipeChanged ==
  ASSUME Typed, NEW q \in DOMAIN pps, NEW e, DOMAIN e = PipeFields, e.stage = pps[q].stage,
         e.next = 0 \/ KnownPipe(e.next, pps),
         objs' = objs, timers' = timers, pps' = [pps EXCEPT ![q] = e]
  PROVE  /\ Grown /\ Alike /\ PendingSame /\ TypedObjs(objs', pps') /\ TypedTimers(timers', objs')
         /\ TypedPipes(pps') /\ pp \in 0 .. Len(pps')
<1>1. /\ TypedPipes(pps') /\ Len(pps) <= Len(pps')
      /\ \A p \in DOMAIN pps : pps'[p].stage = pps[p].stage
  BY PipeSet
<1> QED BY <1>1, PipesGrown

LEMMA PipesStay ==
  ASSUME Typed, objs' = objs, timers' = timers, pps' = pps
  PROVE  /\ Grown /\ Alike /\ PendingSame /\ TypedObjs(objs', pps') /\ TypedTimers(timers', objs')
         /\ TypedPipes(pps') /\ pp \in 0 .. Len(pps')
<1>1. TypedPipes(pps') /\ Len(pps) <= Len(pps') /\ \A p \in DOMAIN pps : pps'[p].stage = pps[p].stage
  BY ListedShape DEF Typed, TypedPipes
<1> QED BY <1>1, PipesGrown

LEMMA TimerSteps ==
  ASSUME Typed, CallLater \/ Cancel
  PROVE  Typed' /\ (Proceeds \/ Thrown)
<1>1. /\ todo # << >> /\ op[1] \in {"callLater", "cancel"}
      /\ UNCHANGED << session, password_input >>
      /\ cmdstack' = cmdstack /\ objs' = objs /\ pps' = pps /\ pp' = pp
  BY DEF CallLater, Cancel, Is, stack
<1>2. me \in DOMAIN objs /\ ~IsShell(me) /\ (op[1] = "callLater" => op[2] \in Methods) /\ Listed(timers)
  BY <1>1, HeadCall DEF Typed, TypedTimers
<1>3. /\ Len(objs) \in Nat /\ Len(pps) \in Nat /\ Listed(objs) /\ Listed(pps)
  BY ListedShape DEF Typed, TypedObjs, TypedPipes
<1>4. Grown /\ Alike /\ PendingSame /\ TypedObjs(objs', pps') /\ TypedPipes(pps') /\ pp' \in 0 .. Len(pps')
  BY <1>1, <1>3 DEF Grown, Alike, PendingSame, Typed
<1>5. ASSUME TypedTimers(timers', objs'), Skip, UNCHANGED << link, past >> PROVE Typed' /\ Proceeds
  <2>1. UNCHANGED << session, link, password_input, past >>
    BY <1>1, <1>5
  <2> QED BY <1>1, <1>4, <1>5, <2>1, FlagsStay, GoesNowhere DEF Working
<1>6. \A i \in DOMAIN timers : timers[i][1] \in DOMAIN objs /\ ~IsShell(timers[i][1]) /\ timers[i][2] \in Methods
  BY DEF Typed, TypedTimers, IsShell
<1>7. Len(timers) \in Nat /\ DOMAIN timers = 1 .. Len(timers)
  BY <1>2, ListedShape
<1>8. CASE CallLater
  <2> DEFINE new == << me, op[2] >>
  <2>1. timers' = Append(timers, new) /\ Skip /\ UNCHANGED << link, past >> /\ op[2] \in Methods
    BY <1>2, <1>8 DEF CallLater, Is
  <2>2. new[1] = me /\ new[2] = op[2]
    OBVIOUS
  <2> HIDE DEF new
  <2>3. /\ Listed(timers') /\ Len(timers') = Len(timers) + 1
        /\ \A i \in 1 .. Len(timers) : timers'[i] = timers[i]
        /\ timers'[Len(timers) + 1] = new
    BY <1>2, <2>1, ListedAppend
  <2>4. DOMAIN timers' = 1 .. Len(timers) + 1
    BY <2>3, ListedShape
  <2>5. \A i \in DOMAIN timers' : i \in DOMAIN timers \/ i = Len(timers) + 1
    BY <1>7, <2>4
  <2>6. TypedTimers(timers', objs')
    BY <1>1, <1>2, <1>6, <1>7, <2>1, <2>2, <2>3, <2>5 DEF TypedTimers, IsShell
  <2> QED BY <1>5, <2>1, <2>6
<1>9. CASE Cancel
  <2> DEFINE mine == {i \in DOMAIN timers : timers[i][1] = me}
             at == CHOOSE i \in mine : \A j \in mine : j <= i
  <2>1. CASE mine = {}
    <3>1. Raise /\ timers' = timers
      BY <1>9, <2>1 DEF Cancel
    <3>2. UNCHANGED << stack, timers >>
      BY <1>1, <3>1 DEF stack
    <3> QED BY <1>1, <3>1, <3>2, StillRaises
  <2>2. CASE mine # {}
    <3>1. timers' = RemoveAt(timers, at) /\ Skip /\ UNCHANGED << link, past >>
      BY <1>9, <2>2 DEF Cancel
    <3>2. \E i \in mine : \A j \in mine : j <= i
      <4>1. mine \subseteq 1 .. Len(timers)
        BY <1>7
      <4> HIDE DEF mine
      <4> QED BY <1>7, <2>2, <4>1, LatestIs
    <3>3. at \in mine
      BY <3>2
    <3>4. at \in 1 .. Len(timers)
      BY <1>7, <3>3
    <3> HIDE DEF at, mine
    <3>5. /\ Listed(timers') /\ Len(timers') = Len(timers) - 1
          /\ \A j \in 1 .. Len(timers) - 1 : \E k \in 1 .. Len(timers) : timers'[j] = timers[k]
      BY <1>2, <3>1, <3>4, ListedRemoved
    <3>6. DOMAIN timers' = 1 .. Len(timers) - 1
      BY <3>5, ListedShape
    <3>7. TypedTimers(timers', objs')
      BY <1>1, <1>6, <1>7, <3>5, <3>6 DEF TypedTimers, IsShell
    <3> QED BY <1>5, <3>1, <3>7
  <2> QED BY <2>1, <2>2
<1> QED BY <1>8, <1>9

\* A line for a shell
LEMMA LineStep ==
  ASSUME Typed, LineReceived
  PROVE  Typed' /\ Proceeds
<1>1. /\ todo # << >> /\ op[1] = "line" /\ UNCHANGED << session, link, password_input, past >>
      /\ cmdstack' = cmdstack /\ pps' = pps /\ pp' = pp /\ timers' = timers
  BY DEF LineReceived, Is
<1>2. me \in DOMAIN objs /\ ObjOK(objs[me], pps) /\ IsShell(me) /\ op[2] \in Lines
  BY <1>1, HeadCall
<1> DEFINE l == op[2]
           p == IF l.unclosed THEN << >> ELSE objs[me].pending \o l.items
           e == [objs[me] EXCEPT !.pending = p]
           course == IF p = << >> THEN << >> ELSE << << "runCommand" >> >>
<1>3. objs' = [objs EXCEPT ![me].pending = p] /\ Go(me, course)
  BY DEF LineReceived
<1>4. PendingOK(p)
  <2>1. l.items \in Items
    BY <1>2 DEF Lines
  <2>2. PendingOK(objs[me].pending) /\ PendingOK(l.items) /\ PendingOK(<< >>)
    BY <1>2, <2>1, ItemsTyped DEF ObjOK
  <2>3. PendingOK(objs[me].pending \o l.items)
    BY <2>2, PendingConcat
  <2> QED BY <2>2, <2>3
<1> HIDE DEF p
<1>5. objs' = [objs EXCEPT ![me] = e]
  BY <1>2, <1>3
<1>6. /\ DOMAIN e = ObjFields /\ e.pending = p /\ e.pp = objs[me].pp /\ e.left = objs[me].left
      /\ e.cls = objs[me].cls /\ e.stage = objs[me].stage /\ e.await = objs[me].await
  BY <1>2 DEF ObjOK, ObjFields
<1>7. ObjOK(e, pps)
  BY <1>2, <1>4, <1>6 DEF ObjOK
<1> HIDE DEF e
<1>8. /\ Grown /\ Alike /\ TypedObjs(objs', pps') /\ TypedPipes(pps')
      /\ objs'[me] = e /\ \A x \in DOMAIN objs : x # me => objs'[x] = objs[x]
  BY <1>1, <1>2, <1>5, <1>6, <1>7, OneChanged
<1>9. TypedTimers(timers', objs') /\ pp' \in 0 .. Len(pps')
  BY <1>1, <1>8, GrownKeeps DEF Typed
<1>10. \A o \in DOMAIN objs : (o = me /\ op[1] \in Working) \/ objs'[o].pending = objs[o].pending
  BY <1>1, <1>8 DEF Working
<1>11. CASE p = << >>
  <2>1. course = << >> /\ Listed(course) /\ \A j \in 1 .. Len(course) : FALSE
    BY <1>11, ListedEmpty
  <2>2. objs'[me].pending = << >>
    BY <1>6, <1>8, <1>11
  <2> HIDE DEF course
  <2> QED BY <1>1, <1>3, <1>8, <1>9, <1>10, <2>1, <2>2, FlagsStay, Goes
<1>12. CASE p # << >>
  <2>1. Listed(course) /\ Len(course) = 1 /\ course[1] = << "runCommand" >>
    BY <1>12, ListedSingle
  <2>2. /\ FrameOK([who |-> me, op |-> << "runCommand" >>], objs, pps)
        /\ Quiet(<< "runCommand" >>) /\ << "runCommand" >>[1] # "construct"
        /\ << "runCommand" >>[1] \in Working
    BY <1>2 DEF FrameOK, ShellOp, IsShell, Quiet, Working
  <2>3. FrameOK([who |-> me, op |-> << "runCommand" >>], objs', pps')
    BY <1>8, <2>2, GrownKeeps
  <2> HIDE DEF course
  <2>4. \A j \in 1 .. Len(course) : course[j] = << "runCommand" >>
    BY <2>1
  <2>5. \E j \in 1 .. Len(course) : course[j][1] \in Working
    BY <2>1, <2>2
  <2>6. \A j \in 1 .. Len(course) :
          /\ FrameOK([who |-> me, op |-> course[j]], objs', pps') /\ Quiet(course[j])
          /\ course[j][1] = "construct" => cmdstack # << >>
    BY <2>2, <2>3, <2>4
  <2> QED BY <1>1, <1>3, <1>8, <1>9, <1>10, <2>1, <2>5, <2>6, FlagsStay, Goes
<1> QED BY <1>11, <1>12

-----------------------------------------------------------------------------
(* The steps that change a pipe                                            *)

\* A step goes on with starting the commands of pipes, or with nothing.
LEMMA GoesToPipes ==
  ASSUME Typed, todo # << >>, Grown, Alike, PendingSame, TypedObjs(objs', pps'), TypedPipes(pps'),
         TypedTimers(timers', objs'), cmdstack' = cmdstack, pp' \in 0 .. Len(pps'),
         UNCHANGED << session, link, password_input, past >>,
         NEW course, Listed(course), Go(me, course), op[1] \notin {"shell", "pop", "leave"},
         \A j \in 1 .. Len(course) :
           /\ course[j][1] \in {"launch", "construct"} /\ KnownPipe(course[j][2], pps')
           /\ course[j][1] = "construct" => cmdstack # << >>,
         IsShell(me) /\ op[1] \in Working => Len(course) # 0
  PROVE  Typed' /\ Proceeds
<1>1. me \in DOMAIN objs /\ me \in DOMAIN objs' /\ Len(course) \in Nat
  BY HeadCall, GrownKeeps, ListedShape
<1>2. \A j \in 1 .. Len(course) :
        /\ FrameOK([who |-> me, op |-> course[j]], objs', pps') /\ Quiet(course[j])
        /\ course[j][1] = "construct" => cmdstack # << >>
  BY <1>1 DEF FrameOK, Starts, Quiet
<1>3. IsShell(me) /\ op[1] \in Working => \E j \in 1 .. Len(course) : course[j][1] \in Working
  <2>1. Len(course) # 0 => 1 \in 1 .. Len(course)
    BY <1>1
  <2>2. \A j \in 1 .. Len(course) : course[j][1] \in Working
    BY DEF Working
  <2> QED BY <2>1, <2>2
<1> QED BY <1>2, <1>3, FlagsStay, Goes DEF PendingSame

LEMMA CallNoneStep ==
  ASSUME Typed, CallNone
  PROVE  Typed' /\ Thrown
<1>1. /\ todo # << >> /\ op[1] = "call None" /\ UNCHANGED << session, password_input >> /\ Raise
      /\ cmdstack' = cmdstack /\ objs' = objs /\ pps' = pps /\ pp' = op[2] /\ timers' = timers
  BY DEF CallNone, Is
<1>2. /\ Grown /\ Alike /\ PendingSame /\ TypedObjs(objs', pps') /\ TypedTimers(timers', objs')
      /\ TypedPipes(pps')
  BY <1>1, PipesStay
<1>3. pp' \in 0 .. Len(pps')
  <2>1. op[2] \in DOMAIN pps /\ DOMAIN pps = 1 .. Len(pps) /\ Len(pps) \in Nat
    BY <1>1, HeadCall
  <2>2. pp' = op[2] /\ pps' = pps
    BY <1>1
  <2> QED BY <2>1, <2>2
<1> QED BY <1>1, <1>2, <1>3, Raises DEF PendingSame

LEMMA CallEndStep ==
  ASSUME Typed, CallEnd
  PROVE  Typed' /\ Proceeds
<1> DEFINE next == IF pp = 0 THEN 0 ELSE pps[pp].next
<1>1. /\ todo # << >> /\ op[1] \in {"callend", "outConnectionLost"}
      /\ UNCHANGED << session, link, password_input, past >>
      /\ cmdstack' = cmdstack /\ objs' = objs /\ pp' = pp /\ timers' = timers
  BY DEF CallEnd, Is
<1>2. CASE next = 0
  <2>1. Skip /\ pps' = pps
    BY <1>2 DEF CallEnd
  <2> QED BY <1>1, <2>1, PipesStay, FlagsStay, GoesNowhere DEF Working
<1>3. CASE next # 0
  <2> DEFINE course == << << "launch", next >> >>
             e == [pps[next] EXCEPT !.fed = pps[pp].said]
  <2>1. Go(me, course) /\ pps' = [pps EXCEPT ![next].fed = pps[pp].said]
    BY <1>3 DEF CallEnd
  <2>2. KnownPipe(next, pps)
    <3>1. pp # 0 /\ pp \in 0 .. Len(pps) /\ DOMAIN pps = 1 .. Len(pps) /\ Len(pps) \in Nat
      BY <1>1, <1>3, HeadCall DEF Typed
    <3>2. pp \in DOMAIN pps
      BY <3>1
    <3> QED BY <1>3, <3>2 DEF Typed, TypedPipes, PipeOK
  <2> HIDE DEF next
  <2>3. next \in DOMAIN pps /\ PipeOK(pps[next], pps)
    BY <2>2 DEF KnownPipe, Typed, TypedPipes
  <2>4. pps' = [pps EXCEPT ![next] = e]
    BY <2>1, <2>3
  <2>5. DOMAIN e = PipeFields /\ e.stage = pps[next].stage /\ (e.next = 0 \/ KnownPipe(e.next, pps))
    <3>1. DOMAIN e = PipeFields /\ e.stage = pps[next].stage /\ e.next = pps[next].next
      BY <2>3 DEF PipeOK, PipeFields
    <3> QED BY <2>3, <3>1 DEF PipeOK
  <2> HIDE DEF e
  <2>6. /\ Grown /\ Alike /\ PendingSame /\ TypedObjs(objs', pps') /\ TypedTimers(timers', objs')
        /\ TypedPipes(pps') /\ pp \in 0 .. Len(pps')
    BY <1>1, <2>3, <2>4, <2>5, PipeChanged
  <2>7. Listed(course) /\ Len(course) = 1 /\ course[1] = << "launch", next >>
    BY ListedSingle
  <2>8. KnownPipe(next, pps')
    BY <2>2, <2>6, GrownKeeps DEF KnownPipe, Grown
  <2> HIDE DEF course
  <2>9. \A j \in 1 .. Len(course) :
          /\ course[j][1] \in {"launch", "construct"} /\ KnownPipe(course[j][2], pps')
          /\ course[j][1] = "construct" => cmdstack # << >>
    <3>1. \A j \in 1 .. Len(course) : course[j] = << "launch", next >>
      BY <2>7
    <3> QED BY <2>8, <3>1
  <2>10. pp' \in 0 .. Len(pps') /\ op[1] \notin {"shell", "pop", "leave"} /\ Len(course) # 0
    BY <1>1, <2>6, <2>7
  <2> QED BY <1>1, <2>1, <2>6, <2>7, <2>9, <2>10, GoesToPipes
<1> QED BY <1>2, <1>3

LEMMA WriteStep ==
  ASSUME Typed, WriteToPipe
  PROVE  Typed' /\ Proceeds
<1> DEFINE p == objs[me].pp
           next == pps[p].next
           course == IF next = 0 THEN << >> ELSE << << "launch", next >> >>
<1>1. /\ todo # << >> /\ op[1] = "write"
      /\ UNCHANGED << session, link, password_input, past >>
      /\ cmdstack' = cmdstack /\ objs' = objs /\ pp' = pp /\ timers' = timers
      /\ Go(me, course)
      /\ pps' = [q \in DOMAIN pps |->
                   IF q = p THEN [pps[q] EXCEPT !.said = TRUE]
                   ELSE IF q = next THEN [pps[q] EXCEPT !.fed = TRUE] ELSE pps[q]]
  BY DEF WriteToPipe, Is
<1>2. p \in DOMAIN pps /\ PipeOK(pps[p], pps)
  <2>1. /\ ObjOK(objs[me], pps) /\ objs[me].cls # "shell" /\ DOMAIN pps = 1 .. Len(pps) /\ Len(pps) \in Nat
    BY <1>1, HeadCall DEF IsShell
  <2>2. p \in 0 .. Len(pps) /\ p # 0
    BY <2>1 DEF ObjOK
  <2>3. p \in DOMAIN pps
    BY <2>1, <2>2
  <2> QED BY <2>3 DEF Typed, TypedPipes
<1>3. next = 0 \/ KnownPipe(next, pps)
  BY <1>2 DEF PipeOK
<1> HIDE DEF p
<1>4. /\ Listed(pps) /\ DOMAIN pps = 1 .. Len(pps) /\ Len(pps) \in Nat
      /\ \A q \in DOMAIN pps : PipeOK(pps[q], pps)
  BY ListedShape DEF Typed, TypedPipes
<1>5. Listed(pps') /\ Len(pps') = Len(pps) /\ DOMAIN pps' = DOMAIN pps
  <2>1. DOMAIN pps' = 1 .. Len(pps) /\ pps' = [i \in DOMAIN pps' |-> pps'[i]]
    BY <1>1, <1>4
  <2> QED BY <1>4, <2>1, ListedFunction
<1> HIDE DEF next
<1>6. ASSUME NEW q \in DOMAIN pps
      PROVE  DOMAIN pps'[q] = PipeFields /\ pps'[q].stage = pps[q].stage /\ pps'[q].next = pps[q].next
  <2>1. DOMAIN pps[q] = PipeFields
    BY <1>4 DEF PipeOK
  <2>2. \/ pps'[q] = [pps[q] EXCEPT !.said = TRUE]
        \/ pps'[q] = [pps[q] EXCEPT !.fed = TRUE]
        \/ pps'[q] = pps[q]
    BY <1>1
  <2> QED BY <2>1, <2>2 DEF PipeFields
<1>7. \A q : KnownPipe(q, pps) => KnownPipe(q, pps')
  BY <1>5, <1>6 DEF KnownPipe
<1>8. TypedPipes(pps')
  BY <1>4, <1>5, <1>6, <1>7 DEF TypedPipes, PipeOK
<1>9. /\ Grown /\ Alike /\ PendingSame /\ TypedObjs(objs', pps') /\ TypedTimers(timers', objs')
      /\ pp \in 0 .. Len(pps')
  BY <1>1, <1>4, <1>5, <1>6, <1>8, PipesGrown
<1>10. CASE next = 0
  <2>1. course = << >>
    BY <1>10
  <2>2. Listed(course) /\ \A j \in 1 .. Len(course) : FALSE
    BY <2>1, ListedEmpty
  <2>3. ~IsShell(me)
    BY <1>1, HeadCall
  <2> HIDE DEF course
  <2> QED BY <1>1, <1>8, <1>9, <2>2, <2>3, GoesToPipes
<1>11. CASE next # 0
  <2>1. Listed(course) /\ Len(course) = 1 /\ course[1] = << "launch", next >>
    BY <1>11, ListedSingle
  <2>2. KnownPipe(next, pps')
    BY <1>3, <1>7, <1>11
  <2> HIDE DEF course
  <2>3. \A j \in 1 .. Len(course) :
          /\ course[j][1] \in {"launch", "construct"} /\ KnownPipe(course[j][2], pps')
          /\ course[j][1] = "construct" => cmdstack # << >>
    <3>1. \A j \in 1 .. Len(course) : course[j] = << "launch", next >>
      BY <2>1
    <3> QED BY <2>2, <3>1
  <2>4. pp' \in 0 .. Len(pps') /\ op[1] \notin {"shell", "pop", "leave"} /\ Len(course) # 0
    BY <1>1, <1>9, <2>1
  <2> QED BY <1>1, <1>8, <1>9, <2>1, <2>3, <2>4, GoesToPipes
<1> QED BY <1>10, <1>11

LEMMA InsertStep ==
  ASSUME Typed, InsertCommand
  PROVE  Typed' /\ (Proceeds \/ Thrown)
<1> DEFINE s == objs[me].stage
           applet == [s EXCEPT !.cmd = s.app, !.redir = ""]
           n == Len(pps) + 1
           e == [pps[pp] EXCEPT !.next = n]
           new == Pipe(applet, pps[pp].next, FALSE)
<1>1. /\ todo # << >> /\ op[1] = "insert"
      /\ UNCHANGED << session, password_input >>
      /\ cmdstack' = cmdstack /\ objs' = objs /\ pp' = pp /\ timers' = timers
  BY DEF InsertCommand, Is
<1>2. CASE pp = 0
  <2>1. Raise /\ pps' = pps
    BY <1>2 DEF InsertCommand
  <2>2. UNCHANGED << stack, timers >>
    BY <1>1, <2>1 DEF stack
  <2> QED BY <1>1, <2>1, <2>2, StillRaises
<1>3. CASE pp # 0
  <2>1. /\ pps' = Append([pps EXCEPT ![pp].next = n], new) /\ Skip
        /\ UNCHANGED << session, link, password_input, past >>
    BY <1>1, <1>3 DEF InsertCommand
  <2>2. /\ Listed(pps) /\ DOMAIN pps = 1 .. Len(pps) /\ Len(pps) \in Nat
        /\ \A q \in DOMAIN pps : PipeOK(pps[q], pps)
    BY ListedShape DEF Typed, TypedPipes
  <2>3. pp \in DOMAIN pps
    BY <1>3, <2>2 DEF Typed
  <2>4. ~IsShell(me) /\ ObjOK(objs[me], pps)
    BY <1>1, HeadCall
  <2>5. Staged(s)
    BY <2>4 DEF ObjOK, IsShell
  <2>6. Staged(applet) /\ applet.cmd \in DOMAIN commands
    <3>1. DOMAIN applet = DOMAIN s /\ applet.cmd = s.app /\ applet.app = s.app /\ applet.sub = s.sub
      BY <2>5 DEF Staged
    <3> QED BY <2>5, <3>1 DEF Staged
  <2> HIDE DEF s, applet
  <2>7. /\ DOMAIN new = PipeFields /\ new.stage = applet /\ new.next = pps[pp].next
        /\ DOMAIN e = PipeFields /\ e.stage = pps[pp].stage /\ e.next = n
    <3>1. DOMAIN pps[pp] = PipeFields
      BY <2>2, <2>3 DEF PipeOK
    <3> QED BY <3>1 DEF Pipe, PipeFields
  <2> DEFINE ps == [pps EXCEPT ![pp] = e]
  <2>8. pps' = Append(ps, new)
    BY <2>1, <2>3
  <2> HIDE DEF new, e
  <2>9. /\ Listed(ps) /\ Len(ps) = Len(pps) /\ DOMAIN ps = DOMAIN pps /\ ps[pp] = e
        /\ \A q \in DOMAIN pps : q # pp => ps[q] = pps[q]
    BY <2>2, <2>3, ListedExcept
  <2> HIDE DEF ps
  <2>10. /\ Listed(pps') /\ Len(pps') = n
         /\ \A q \in 1 .. Len(pps) : pps'[q] = ps[q]
         /\ pps'[n] = new
    BY <2>8, <2>9, ListedAppend
  <2>11. DOMAIN pps' = 1 .. n /\ n \in Nat /\ \A q \in 1 .. n : q \in DOMAIN pps \/ q = n
    BY <2>2, <2>10, ListedShape
  <2>12. \A q \in DOMAIN pps : pps'[q].stage = pps[q].stage /\ DOMAIN pps'[q] = PipeFields
    BY <2>2, <2>3, <2>7, <2>9, <2>10 DEF PipeOK
  <2>13. \A q : KnownPipe(q, pps) => KnownPipe(q, pps')
    BY <2>2, <2>11, <2>12 DEF KnownPipe
  <2>14. KnownPipe(n, pps')
    BY <2>2, <2>6, <2>7, <2>10, <2>11 DEF KnownPipe
  <2>15. ASSUME NEW q \in 1 .. n PROVE PipeOK(pps'[q], pps')
    <3>1. CASE q = n
      <4>1. pps[pp].next = 0 \/ KnownPipe(pps[pp].next, pps)
        BY <2>2, <2>3 DEF PipeOK
      <4> QED BY <2>6, <2>7, <2>10, <2>13, <3>1, <4>1 DEF PipeOK
    <3>2. CASE q = pp
      <4>1. pps'[q] = e /\ Staged(pps[pp].stage)
        BY <2>2, <2>3, <2>9, <2>10, <3>2 DEF PipeOK
      <4> QED BY <2>7, <2>14, <4>1 DEF PipeOK
    <3>3. CASE q # n /\ q # pp
      <4>1. q \in DOMAIN pps /\ pps'[q] = pps[q] /\ PipeOK(pps[q], pps)
        BY <2>2, <2>9, <2>10, <2>11, <3>3
      <4> QED BY <2>13, <4>1 DEF PipeOK
    <3> QED BY <3>1, <3>2, <3>3
  <2>16. TypedPipes(pps')
    BY <2>10, <2>11, <2>15 DEF TypedPipes
  <2>17. /\ Grown /\ Alike /\ PendingSame /\ TypedObjs(objs', pps') /\ TypedTimers(timers', objs')
         /\ pp \in 0 .. Len(pps')
    <3>1. Len(pps) <= Len(pps')
      BY <2>2, <2>10
    <3> QED BY <1>1, <2>12, <2>16, <3>1, PipesGrown
  <2> QED BY <1>1, <2>1, <2>16, <2>17, FlagsStay, GoesNowhere DEF Working
<1> QED BY <1>2, <1>3

LEMMA LaunchStep ==
  ASSUME Typed, Launch
  PROVE  Typed' /\ (Proceeds \/ Thrown)
<1>1. /\ todo # << >> /\ op[1] = "launch"
      /\ UNCHANGED << session, password_input >>
      /\ cmdstack' = cmdstack /\ objs' = objs /\ pp' = op[2] /\ timers' = timers
  BY DEF Launch, Is
<1>2. KnownPipe(op[2], pps) /\ DOMAIN pps = 1 .. Len(pps) /\ Len(pps) \in Nat
  BY <1>1, HeadCall
<1>3. op[2] \in DOMAIN pps /\ PipeOK(pps[op[2]], pps)
  BY <1>2 DEF KnownPipe, Typed, TypedPipes
<1>4. ASSUME Raise, pps' = pps PROVE Typed' /\ Thrown
  <2>1. /\ Grown /\ Alike /\ PendingSame /\ TypedObjs(objs', pps') /\ TypedTimers(timers', objs')
        /\ TypedPipes(pps')
    BY <1>1, <1>4, PipesStay
  <2>2. pp' \in 0 .. Len(pps')
    BY <1>1, <1>2, <1>3, <1>4
  <2> QED BY <1>1, <1>4, <2>1, <2>2, Raises DEF PendingSame
<1>5. CASE cmdstack = << >>
  <2>1. Raise /\ pps' = pps
    BY <1>5 DEF Launch
  <2> QED BY <1>4, <2>1
<1>6. CASE cmdstack # << >>
  <2> DEFINE next == pps[op[2]].next
  <2>1. PICK r \in Redirect(pps[op[2]].stage) :
          IF r.err # "" \/ (r.sink = "failed" /\ next = 0) THEN Raise /\ UNCHANGED pps
          ELSE /\ Go(me, (IF r.sink = "failed" THEN << << "launch", next >> >> ELSE << >>)
                         \o << << "construct", op[2], r.sink, r.safe, r.path >> >>)
               /\ pps' = IF r.sink = "failed" THEN [pps EXCEPT ![next].fed = TRUE] ELSE pps
               /\ UNCHANGED << link, past >>
    BY <1>6 DEF Launch
  <2> DEFINE failed == r.sink = "failed"
             first == IF failed THEN << << "launch", next >> >> ELSE << >>
             made == << "construct", op[2], r.sink, r.safe, r.path >>
             course == first \o << made >>
  <2>2. CASE r.err # "" \/ (failed /\ next = 0)
    BY <1>4, <2>1, <2>2
  <2>3. CASE ~(r.err # "" \/ (failed /\ next = 0))
    <3>1. /\ Go(me, course) /\ UNCHANGED << session, link, password_input, past >>
          /\ pps' = IF failed THEN [pps EXCEPT ![next].fed = TRUE] ELSE pps
      BY <1>1, <2>1, <2>3
    <3>2. next = 0 \/ KnownPipe(next, pps)
      BY <1>3 DEF PipeOK
    <3>3. failed => next # 0
      BY <2>3
    <3> HIDE DEF failed, next
    <3>4. /\ Grown /\ Alike /\ PendingSame /\ TypedObjs(objs', pps') /\ TypedTimers(timers', objs')
          /\ TypedPipes(pps')
      <4>1. CASE failed
        <5> DEFINE e == [pps[next] EXCEPT !.fed = TRUE]
        <5>1. next \in DOMAIN pps /\ PipeOK(pps[next], pps)
          BY <3>2, <3>3, <4>1 DEF KnownPipe, Typed, TypedPipes
        <5>2. pps' = [pps EXCEPT ![next] = e]
          BY <3>1, <4>1, <5>1
        <5>3. DOMAIN e = PipeFields /\ e.stage = pps[next].stage /\ e.next = pps[next].next
          BY <5>1 DEF PipeOK, PipeFields
        <5>4. e.next = 0 \/ KnownPipe(e.next, pps)
          BY <5>1, <5>3 DEF PipeOK
        <5> HIDE DEF e
        <5> QED BY <1>1, <5>1, <5>2, <5>3, <5>4, PipeChanged
      <4>2. CASE ~failed
        BY <1>1, <3>1, <4>2, PipesStay
      <4> QED BY <4>1, <4>2
    <3>5. \A q : KnownPipe(q, pps) => KnownPipe(q, pps')
      BY <3>4, GrownKeeps DEF KnownPipe, Grown
    <3>6. pp' \in 0 .. Len(pps')
      <4>1. op[2] \in DOMAIN pps' /\ DOMAIN pps' = 1 .. Len(pps') /\ Len(pps') \in Nat
        BY <1>2, <3>4, <3>5, ListedShape DEF KnownPipe, Grown
      <4> QED BY <1>1, <4>1
    <3>7. made[1] = "construct" /\ made[2] = op[2]
      OBVIOUS
    <3> HIDE DEF made
    <3>8. /\ Listed(first) /\ Len(first) \in Nat
          /\ \A j \in 1 .. Len(first) : failed /\ first[j] = << "launch", next >>
      BY ListedSingle, ListedEmpty
    <3>9. Listed(<< made >>) /\ Len(<< made >>) = 1 /\ << made >>[1] = made
      BY ListedSingle
    <3> HIDE DEF first
    <3>10. /\ Listed(course) /\ Len(course) = Len(first) + 1
           /\ \A j \in 1 .. Len(first) : course[j] = first[j]
           /\ \A j \in 1 .. 1 : course[Len(first) + j] = << made >>[j]
      <4>1. /\ Listed(course) /\ Len(course) = Len(first) + Len(<< made >>)
            /\ \A j \in 1 .. Len(first) : course[j] = first[j]
            /\ \A j \in 1 .. Len(<< made >>) : course[Len(first) + j] = << made >>[j]
        BY <3>8, <3>9, ListedConcat
      <4> HIDE DEF course
      <4> QED BY <3>9, <4>1
    <3>11. course[Len(first) + 1] = made
      BY <3>9, <3>10
    <3> HIDE DEF course
    <3>12. \A j \in 1 .. Len(course) :
             /\ course[j][1] \in {"launch", "construct"} /\ KnownPipe(course[j][2], pps')
             /\ course[j][1] = "construct" => cmdstack # << >>
      <4> SUFFICES ASSUME NEW j \in 1 .. Len(course)
                   PROVE  course[j][1] \in {"launch", "construct"} /\ KnownPipe(course[j][2], pps')
        BY <1>6
      <4>1. CASE j \in 1 .. Len(first)
        <5>1. course[j] = << "launch", next >> /\ failed
          BY <3>8, <3>10, <4>1
        <5>2. KnownPipe(next, pps')
          BY <3>2, <3>3, <3>5, <5>1
        <5> QED BY <5>1, <5>2
      <4>2. CASE j \notin 1 .. Len(first)
        <5>1. j = Len(first) + 1
          BY <3>8, <3>10, <4>2
        <5> QED BY <1>2, <3>5, <3>7, <3>11, <5>1
      <4> QED BY <4>1, <4>2
    <3>13. Len(course) # 0
      BY <3>8, <3>10
    <3> QED BY <1>1, <3>1, <3>4, <3>6, <3>10, <3>12, <3>13, GoesToPipes
  <2> QED BY <2>2, <2>3
<1> QED BY <1>5, <1>6

-----------------------------------------------------------------------------
(* The steps that change what is pending                                   *)

\* An item is a list of stages, and so are the positions of its commands.
LEMMA KnownOf ==
  ASSUME NEW item, ItemOK(item)
  PROVE  /\ Listed(item) /\ Len(item) \in Nat /\ DOMAIN item = 1 .. Len(item) /\ Known(item) \subseteq 1 .. Len(item)
         /\ Cardinality(DOMAIN item \ Known(item)) \in Nat
         /\ item # << >> /\ Known(item) = {} => Cardinality(DOMAIN item \ Known(item)) # 0
<1>1. Listed(item) /\ Len(item) \in Nat /\ DOMAIN item = 1 .. Len(item)
  BY ListedShape DEF ItemOK
<1>2. Known(item) \subseteq 1 .. Len(item)
  BY <1>1 DEF Known
<1> DEFINE others == DOMAIN item \ Known(item)
<1>3. IsFiniteSet(others)
  <2>1. IsFiniteSet(1 .. Len(item))
    BY <1>1, FS_Interval
  <2>2. others \in SUBSET (1 .. Len(item))
    BY <1>1
  <2> QED BY <2>1, <2>2, FS_Subset
<1>4. Cardinality(others) \in Nat
  BY <1>3, FS_CardinalityType
<1>5. item # << >> /\ Known(item) = {} => others # {}
  <2>1. item # << >> => Len(item) # 0
    BY <1>1, ListedNone
  <2>2. item # << >> => 1 \in DOMAIN item
    BY <1>1, <2>1
  <2> QED BY <2>2
<1>6. others # {} => Cardinality(others) # 0
  BY <1>3, FS_EmptySet
<1> QED BY <1>1, <1>2, <1>4, <1>5, <1>6

\* The pipes of an item after those there were
LEMMA PipesAdded ==
  ASSUME Typed, NEW item, ItemOK(item), NEW last
  PROVE  LET ps == pps \o PipesOf(item, last)
         IN /\ TypedPipes(ps) /\ Len(ps) = Len(pps) + Len(item)
            /\ \A p \in DOMAIN pps : ps[p] = pps[p]
            /\ \A k \in 1 .. Len(item) : Len(pps) + k \in DOMAIN ps
            /\ \A k \in Known(item) : KnownPipe(Len(pps) + k, ps)
<1> DEFINE new == PipesOf(item, last)
           ps == pps \o new
<1>1. /\ Listed(item) /\ Len(item) \in Nat /\ DOMAIN item = 1 .. Len(item) /\ Known(item) \subseteq 1 .. Len(item)
  BY KnownOf
<1>2. /\ Listed(pps) /\ Len(pps) \in Nat /\ DOMAIN pps = 1 .. Len(pps)
      /\ \A p \in DOMAIN pps : PipeOK(pps[p], pps)
  BY ListedShape DEF Typed, TypedPipes
<1>3. Listed(new) /\ Len(new) = Len(item)
  <2>1. DOMAIN new = 1 .. Len(item) /\ new = [i \in DOMAIN new |-> new[i]]
    BY <1>1 DEF PipesOf
  <2> HIDE DEF new
  <2> QED BY <1>1, <2>1, ListedFunction
<1>4. ASSUME NEW k \in 1 .. Len(item)
      PROVE  /\ DOMAIN new[k] = PipeFields /\ new[k].stage = item[k]
             /\ new[k].next = 0 \/ \E j \in Known(item) : new[k].next = Len(pps) + j
  <2> DEFINE later == {j \in Known(item) : k < j}
             nx == IF later = {} THEN 0 ELSE Len(pps) + First(later)
  <2>1. new[k] = Pipe(item[k], nx, last /\ k \in Known(item))
    BY <1>1 DEF PipesOf
  <2>2. nx = 0 \/ \E j \in Known(item) : nx = Len(pps) + j
    <3>1. CASE later = {}
      BY <3>1
    <3>2. CASE later # {}
      <4>1. later \subseteq Nat
        BY <1>1
      <4>2. First(later) \in later
        <5> HIDE DEF later
        <5> QED BY <3>2, <4>1, FirstIs
      <4> QED BY <3>2, <4>2
    <3> QED BY <3>1, <3>2
  <2> HIDE DEF nx
  <2> QED BY <2>1, <2>2 DEF Pipe, PipeFields
<1> HIDE DEF new
<1>5. /\ Listed(ps) /\ Len(ps) = Len(pps) + Len(item)
      /\ \A i \in 1 .. Len(pps) : ps[i] = pps[i]
      /\ \A k \in 1 .. Len(item) : ps[Len(pps) + k] = new[k]
  BY <1>2, <1>3, ListedConcat
<1> HIDE DEF ps
<1>6. DOMAIN ps = 1 .. Len(pps) + Len(item)
  BY <1>5, ListedShape
<1>7. /\ \A p \in DOMAIN pps : ps[p] = pps[p] /\ p \in DOMAIN ps
      /\ \A k \in 1 .. Len(item) : Len(pps) + k \in DOMAIN ps
  BY <1>1, <1>2, <1>5, <1>6
<1>8. \A k \in Known(item) : KnownPipe(Len(pps) + k, ps)
  <2> SUFFICES ASSUME NEW k \in Known(item) PROVE KnownPipe(Len(pps) + k, ps)
    OBVIOUS
  <2>1. k \in 1 .. Len(item) /\ item[k].cmd \in DOMAIN commands
    BY <1>1 DEF Known
  <2> QED BY <1>4, <1>5, <1>7, <2>1 DEF KnownPipe
<1>9. \A q : KnownPipe(q, pps) => KnownPipe(q, ps)
  BY <1>7 DEF KnownPipe
<1>10. ASSUME NEW p \in DOMAIN ps PROVE PipeOK(ps[p], ps)
  <2>1. CASE p \in DOMAIN pps
    BY <1>2, <1>7, <1>9, <2>1 DEF PipeOK
  <2>2. CASE p \notin DOMAIN pps
    <3> DEFINE k == p - Len(pps)
    <3>1. k \in 1 .. Len(item) /\ p = Len(pps) + k
      BY <1>1, <1>2, <1>6, <2>2
    <3> HIDE DEF k
    <3>2. ps[p] = new[k] /\ Staged(item[k])
      BY <1>1, <1>5, <3>1 DEF ItemOK
    <3> QED BY <1>4, <1>8, <3>1, <3>2 DEF PipeOK
  <2> QED BY <2>1, <2>2
<1>11. TypedPipes(ps)
  BY <1>5, <1>10 DEF TypedPipes
<1> QED BY <1>5, <1>7, <1>8, <1>11 DEF ps, new

\* An item is taken from what is pending.
LEMMA ItemStep ==
  ASSUME Typed, RunItem
  PROVE  Typed' /\ (Proceeds \/ Thrown)
<1> DEFINE item == Head(objs[me].pending)
           left == Tail(objs[me].pending)
           e == [objs[me] EXCEPT !.pending = left]
<1>1. /\ todo # << >> /\ op[1] = "runCommand" /\ objs[me].pending # << >>
      /\ cmdstack' = cmdstack /\ pp' = pp /\ timers' = timers /\ UNCHANGED << session, password_input >>
      /\ objs' = [objs EXCEPT ![me].pending = Tail(@)]
  BY DEF RunItem, Is
<1>2. me \in DOMAIN objs /\ ObjOK(objs[me], pps) /\ IsShell(me)
  BY <1>1, HeadCall
<1>3. PendingOK(left) /\ ItemOK(item)
  BY <1>1, <1>2, PendingTail DEF ObjOK
<1>4. objs' = [objs EXCEPT ![me] = e]
  BY <1>1, <1>2
<1> HIDE DEF item, left
<1>5. /\ DOMAIN e = ObjFields /\ e.pending = left /\ e.pp = objs[me].pp /\ e.left = objs[me].left
      /\ e.cls = objs[me].cls
  BY <1>2 DEF ObjOK, ObjFields
<1> HIDE DEF e
<1>6. /\ Listed(objs) /\ Len(objs) \in Nat /\ DOMAIN objs = 1 .. Len(objs)
      /\ \A o \in DOMAIN objs : ObjOK(objs[o], pps)
  BY ListedShape DEF Typed, TypedObjs
<1>7. /\ Listed(objs') /\ Len(objs') = Len(objs) /\ DOMAIN objs' = DOMAIN objs
      /\ objs'[me] = e /\ \A x \in DOMAIN objs : x # me => objs'[x] = objs[x]
  BY <1>2, <1>4, <1>6, ListedExcept
<1>8. Alike
  BY <1>5, <1>7 DEF Alike
<1>9. \A o \in DOMAIN objs : (o = me /\ op[1] \in Working) \/ objs'[o].pending = objs[o].pending
  BY <1>1, <1>7 DEF Working
\* whatever becomes of the pipes
<1>10. ASSUME TypedPipes(pps'), Len(pps) <= Len(pps'), \A p \in DOMAIN pps : pps'[p].stage = pps[p].stage
       PROVE  /\ Grown /\ TypedObjs(objs', pps') /\ TypedTimers(timers', objs') /\ pp' \in 0 .. Len(pps')
  <2>1. \A o \in DOMAIN objs : objs'[o].cls = objs[o].cls
    BY <1>5, <1>7
  <2>2. Grown
    BY <1>6, <1>7, <1>10, <2>1 DEF Grown, TypedPipes
  <2>3. ObjOK(e, pps)
    BY <1>2, <1>3, <1>5 DEF ObjOK, IsShell
  <2>4. \A o \in DOMAIN objs' : ObjOK(objs'[o], pps)
    BY <1>6, <1>7, <2>3
  <2>5. TypedObjs(objs', pps')
    BY <1>7, <2>2, <2>4, GrownKeeps DEF TypedObjs
  <2> QED BY <1>1, <2>2, <2>5, GrownKeeps
<1>11. pps' = pps => /\ TypedPipes(pps') /\ Len(pps) <= Len(pps')
                     /\ \A p \in DOMAIN pps : pps'[p].stage = pps[p].stage
  BY ListedShape DEF Typed, TypedPipes
<1>12. ASSUME NEW course, Listed(course), Len(course) # 0, Go(me, course), UNCHANGED << link, past >>,
              TypedPipes(pps'), Len(pps) <= Len(pps'), \A p \in DOMAIN pps : pps'[p].stage = pps[p].stage,
              \A j \in 1 .. Len(course) :
                \/ course[j] = << "runOrPrompt" >>
                \/ course[j][1] = "launch" /\ KnownPipe(course[j][2], pps')
                \/ course[j][1] = "call None" /\ course[j][2] \in DOMAIN pps'
       PROVE  Typed' /\ Proceeds
  <2>1. /\ Grown /\ TypedObjs(objs', pps') /\ TypedTimers(timers', objs') /\ pp' \in 0 .. Len(pps')
    BY <1>10, <1>12
  <2>2. me \in DOMAIN objs' /\ objs'[me].cls = "shell"
    BY <1>2, <1>5, <1>7 DEF IsShell
  <2>3. << "runOrPrompt" >>[1] = "runOrPrompt"
    OBVIOUS
  <2>4. ASSUME NEW j \in 1 .. Len(course)
        PROVE  /\ FrameOK([who |-> me, op |-> course[j]], objs', pps')
               /\ course[j][1] \in {"runOrPrompt", "launch", "call None"}
    BY <1>12, <2>2, <2>3 DEF FrameOK, Starts, ShellOp
  <2>5. \A j \in 1 .. Len(course) :
          /\ FrameOK([who |-> me, op |-> course[j]], objs', pps') /\ Quiet(course[j])
          /\ course[j][1] = "construct" => cmdstack # << >>
    BY <2>4 DEF Quiet
  <2>6. \E j \in 1 .. Len(course) : course[j][1] \in Working
    <3>1. 1 \in 1 .. Len(course)
      <4>1. Listed(course) /\ Len(course) # 0
        BY <1>12
      <4>2. Len(course) \in Nat
        BY <4>1, ListedShape
      <4> QED BY <4>1, <4>2
    <3> QED BY <2>4, <3>1 DEF Working
  <2>7. UNCHANGED << session, link, password_input, past >>
    BY <1>1, <1>12
  <2> QED BY <1>1, <1>8, <1>9, <1>12, <2>1, <2>5, <2>6, <2>7, FlagsStay, Goes
<1>13. CASE item = << >>
  <2> DEFINE course == << << "runOrPrompt" >> >>
  <2>1. Go(me, course) /\ UNCHANGED << link, past >> /\ pps' = pps
    BY <1>13 DEF RunItem, item
  <2>2. Listed(course) /\ Len(course) = 1 /\ course[1] = << "runOrPrompt" >>
    BY ListedSingle
  <2> HIDE DEF course
  <2>3. \A j \in 1 .. Len(course) : course[j] = << "runOrPrompt" >>
    BY <2>2
  <2>4. Len(course) # 0
    BY <2>2
  <2>5. TypedPipes(pps') /\ Len(pps) <= Len(pps') /\ \A p \in DOMAIN pps : pps'[p].stage = pps[p].stage
    BY <1>11, <2>1
  <2> QED BY <1>12, <2>1, <2>2, <2>3, <2>4, <2>5
<1>14. CASE item # << >> /\ \E i \in 2 .. Len(item) : item[i].cmd = ""
  <2>1. Raise /\ pps' = pps
    BY <1>14 DEF RunItem, item
  <2>2. /\ Grown /\ TypedObjs(objs', pps') /\ TypedTimers(timers', objs') /\ pp' \in 0 .. Len(pps')
        /\ TypedPipes(pps')
    BY <1>10, <1>11, <2>1
  <2>3. \A o \in DOMAIN objs : objs'[o].pending = objs[o].pending \/ (IsShell(me) /\ o = me)
    BY <1>2, <1>7
  <2> QED BY <1>1, <1>8, <2>1, <2>2, <2>3, Raises
<1>15. CASE item # << >> /\ ~\E i \in 2 .. Len(item) : item[i].cmd = ""
  <2> DEFINE last == Len(objs[me].pending) = 1
             pipes == PipesOf(item, last)
             n == Cardinality(DOMAIN item \ Known(item))
             rest == [i \in 1 .. n |-> << "runOrPrompt" >>]
             first == IF Known(item) = {} THEN << >>
                      ELSE IF 1 \in Known(item) THEN << << "launch", Len(pps) + 1 >> >>
                      ELSE << << "call None", Len(pps) + First(Known(item)) >> >>
             course == rest \o first
  <2>1. Go(me, course) /\ pps' = pps \o pipes /\ UNCHANGED << link, past >>
    BY <1>15 DEF RunItem, item
  <2>2. /\ TypedPipes(pps') /\ Len(pps') = Len(pps) + Len(item)
        /\ \A p \in DOMAIN pps : pps'[p] = pps[p]
        /\ \A k \in 1 .. Len(item) : Len(pps) + k \in DOMAIN pps'
        /\ \A k \in Known(item) : KnownPipe(Len(pps) + k, pps')
    <3> DEFINE ps == pps \o pipes
    <3> HIDE DEF last
    <3>1. /\ TypedPipes(ps) /\ Len(ps) = Len(pps) + Len(item)
          /\ \A p \in DOMAIN pps : ps[p] = pps[p]
          /\ \A k \in 1 .. Len(item) : Len(pps) + k \in DOMAIN ps
          /\ \A k \in Known(item) : KnownPipe(Len(pps) + k, ps)
      BY <1>3, PipesAdded
    <3>2. pps' = ps
      BY <2>1
    <3> HIDE DEF ps
    <3> QED BY <3>1, <3>2
  <2>3. /\ Listed(item) /\ Len(item) \in Nat /\ Known(item) \subseteq 1 .. Len(item)
        /\ n \in Nat
        /\ Known(item) = {} => n # 0
    BY <1>3, <1>15, KnownOf
  <2>4. Len(pps) \in Nat
    BY ListedShape DEF Typed, TypedPipes
  <2> HIDE DEF n, last, pipes
  <2>5. /\ Listed(rest) /\ Len(rest) = n /\ \A j \in 1 .. n : rest[j] = << "runOrPrompt" >>
    <3>1. DOMAIN rest = 1 .. n /\ rest = [i \in DOMAIN rest |-> rest[i]]
      OBVIOUS
    <3>2. \A j \in 1 .. n : rest[j] = << "runOrPrompt" >>
      OBVIOUS
    <3> HIDE DEF rest
    <3>3. n \in Nat
      BY <2>3
    <3>4. Listed(rest) /\ Len(rest) = n
      BY <3>1, <3>3, ListedFunction
    <3> QED BY <3>2, <3>4
  <2> HIDE DEF rest
  <2>6. /\ Listed(first) /\ Len(first) \in {0, 1} /\ (Known(item) # {} => Len(first) = 1)
        /\ \A j \in 1 .. Len(first) :
             \/ first[j][1] = "launch" /\ KnownPipe(first[j][2], pps')
             \/ first[j][1] = "call None" /\ first[j][2] \in DOMAIN pps'
    <3>1. CASE Known(item) = {}
      <4>1. first = << >>
        BY <3>1
      <4>2. Listed(first) /\ Len(first) = 0
        BY <4>1, ListedEmpty
      <4> HIDE DEF first
      <4> QED BY <3>1, <4>2
    <3>2. CASE 1 \in Known(item)
      <4> DEFINE c == << "launch", Len(pps) + 1 >>
      <4>1. first = << c >> /\ c[1] = "launch" /\ c[2] = Len(pps) + 1
        BY <3>2
      <4> HIDE DEF first, c
      <4>2. Listed(first) /\ Len(first) = 1 /\ first[1] = c
        BY <4>1, ListedSingle
      <4>3. \A j \in 1 .. Len(first) : first[j] = c
        BY <4>2
      <4>4. KnownPipe(Len(pps) + 1, pps')
        BY <2>2, <3>2
      <4> QED BY <4>1, <4>2, <4>3, <4>4
    <3>3. CASE Known(item) # {} /\ 1 \notin Known(item)
      <4> DEFINE k == First(Known(item))
                 c == << "call None", Len(pps) + k >>
      <4>1. first = << c >> /\ c[1] = "call None" /\ c[2] = Len(pps) + k
        BY <3>3
      <4>2. k \in 1 .. Len(item)
        <5>1. Known(item) \subseteq Nat
          BY <2>3
        <5>2. First(Known(item)) \in Known(item)
          BY <3>3, <5>1, FirstIs
        <5> QED BY <2>3, <5>2
      <4> HIDE DEF first, c, k
      <4>3. Listed(first) /\ Len(first) = 1 /\ first[1] = c
        BY <4>1, ListedSingle
      <4>4. \A j \in 1 .. Len(first) : first[j] = c
        BY <4>3
      <4>5. Len(pps) + k \in DOMAIN pps'
        BY <2>2, <4>2
      <4> QED BY <4>1, <4>3, <4>4, <4>5
    <3> QED BY <3>1, <3>2, <3>3
  <2> HIDE DEF first
  <2>7. /\ Listed(course) /\ Len(course) = n + Len(first)
        /\ \A j \in 1 .. n : course[j] = rest[j]
        /\ \A j \in 1 .. Len(first) : course[n + j] = first[j]
    <3>1. Listed(rest) /\ Listed(first) /\ Len(rest) = n
      BY <2>5, <2>6
    <3>2. /\ Listed(course) /\ Len(course) = Len(rest) + Len(first)
          /\ \A j \in 1 .. Len(rest) : course[j] = rest[j]
          /\ \A j \in 1 .. Len(first) : course[Len(rest) + j] = first[j]
      BY <3>1, ListedConcat
    <3> HIDE DEF course
    <3> QED BY <3>1, <3>2
  <2> HIDE DEF course
  <2>8. Len(course) = n + Len(first) /\ n \in Nat /\ Len(first) \in Nat /\ Len(course) # 0
    <3>1. Len(course) = n + Len(first) /\ n \in Nat /\ Len(first) \in Nat
      <4>1. Len(first) \in {0, 1}
        BY <2>6
      <4>2. Len(course) = n + Len(first)
        BY <2>7
      <4>3. n \in Nat
        BY <2>3
      <4> QED BY <4>1, <4>2, <4>3
    <3>2. n # 0 \/ Len(first) = 1
      BY <2>3, <2>6
    <3> QED BY <3>1, <3>2
  <2>9. ASSUME NEW j \in 1 .. Len(course)
        PROVE  \/ course[j] = << "runOrPrompt" >>
               \/ course[j][1] = "launch" /\ KnownPipe(course[j][2], pps')
               \/ course[j][1] = "call None" /\ course[j][2] \in DOMAIN pps'
    <3>1. CASE j \in 1 .. n
      BY <2>5, <2>7, <3>1
    <3>2. CASE j \notin 1 .. n
      <4>1. j - n \in 1 .. Len(first) /\ n + (j - n) = j
        BY <2>8, <3>2
      <4>2. course[j] = first[j - n]
        <5>1. course[n + (j - n)] = first[j - n]
          BY <2>7, <4>1
        <5> QED BY <4>1, <5>1
      <4> QED BY <2>6, <4>1, <4>2
    <3> QED BY <3>1, <3>2
  <2>10. Len(pps) <= Len(pps') /\ \A p \in DOMAIN pps : pps'[p].stage = pps[p].stage
    BY <2>2, <2>3, <2>4
  <2> QED BY <1>12, <2>1, <2>2, <2>7, <2>8, <2>9, <2>10
<1> QED BY <1>13, <1>14, <1>15

\* A line typed at a command becomes one item.
LEMMA QueuedTyped ==
  ASSUME NEW l \in Lines
  PROVE  ItemOK(Queued(l))
<1> DEFINE n == Len(l.items)
           more(item) == IF item = << >> THEN << >> ELSE Tail(item)
           Clause(g, k) ==
             CASE k = 0 -> << >>
               [] k = 1 -> l.items[1]
               [] k > 1 -> (IF g[k - 1] = << >> THEN << Separator >> ELSE g[k - 1]) \o more(l.items[k])
           Rhs(g) == [k \in 0 .. n |-> Clause(g, k)]
           f == CHOOSE g : g = Rhs(g)
<1>1. PendingOK(l.items)
  <2>1. l.items \in Items
    BY DEF Lines
  <2> QED BY <2>1, ItemsTyped
<1>2. n \in Nat /\ DOMAIN l.items = 1 .. n /\ \A k \in 1 .. n : ItemOK(l.items[k])
  <2>1. Listed(l.items)
    BY <1>1 DEF PendingOK
  <2> QED BY <1>1, <2>1, ListedShape DEF PendingOK
<1>3. \E g : g = Rhs(g)
  <2> DEFINE Solves(g, m) == g = [k \in 0 .. m |-> Clause(g, k)]
             S == {m \in 0 .. n : \E g : Solves(g, m)}
  <2>1. 0 \in S
    <3> DEFINE g == [k \in 0 .. 0 |-> << >>]
    <3>1. \A k \in 0 .. 0 : k = 0 /\ Clause(g, k) = << >>
      OBVIOUS
    <3>2. Solves(g, 0)
      <4> HIDE DEF Step
      <4> QED BY <3>1
    <3> HIDE DEF Solves, g
    <3> QED BY <1>2, <3>2
  <2>2. ASSUME NEW m \in 1 .. n, m - 1 \in S PROVE m \in S
    <3>1. PICK g : Solves(g, m - 1)
      BY <2>2
    <3> DEFINE g2 == [k \in 0 .. m |-> IF k = m THEN Clause(g, m) ELSE g[k]]
    <3>2. \A k \in 0 .. m : Clause(g2, k) = Clause(g, k)
      <4> TAKE k \in 0 .. m
      <4>1. k # 0 => k - 1 \in 0 .. m /\ k - 1 # m
        OBVIOUS
      <4>2. k # 0 => g2[k - 1] = g[k - 1]
        BY <4>1
      <4> HIDE DEF g2
      <4>3. CASE k = 0
        BY <4>3
      <4>4. CASE k # 0
        BY <4>2, <4>4
      <4> QED BY <4>3, <4>4
    <3>3. \A k \in 0 .. m : g2[k] = Clause(g, k)
      <4> SUFFICES ASSUME NEW k \in 0 .. m, k # m PROVE g[k] = Clause(g, k)
        OBVIOUS
      <4>1. k \in 0 .. m - 1
        OBVIOUS
      <4> HIDE DEF Step
      <4> QED BY <3>1, <4>1
    <3>4. Solves(g2, m)
      <4>1. g2 = [k \in 0 .. m |-> g2[k]]
        OBVIOUS
      <4> HIDE DEF Step, g2
      <4> QED BY <3>2, <3>3, <4>1
    <3> HIDE DEF g2, Solves
    <3> QED BY <3>4
  <2>3. n \in S
    <3> HIDE DEF S, n
    <3>1. 0 .. n \subseteq S
      BY <1>2, <2>1, <2>2, InductTo
    <3> QED BY <1>2, <3>1
  <2> QED BY <2>3
<1>4. f = Rhs(f)
  <2> HIDE DEF Rhs
  <2> QED BY <1>3
<1>5. Queued(l) = f[n]
  BY DEF Queued
<1> HIDE DEF f
<1>6. \A k \in 0 .. n : f[k] = Clause(f, k)
  <2> HIDE DEF Step
  <2> QED BY <1>4
<1> DEFINE S == {k \in 0 .. n : ItemOK(f[k])}
<1>7. ItemOK(<< >>) /\ ItemOK(<< Separator >>)
  <2>1. Listed(<< Separator >>) /\ Len(<< Separator >>) = 1 /\ << Separator >>[1] = Separator
    BY ListedSingle
  <2>2. DOMAIN << Separator >> = 1 .. 1
    BY <2>1, ListedShape
  <2>3. Staged(Separator)
    BY PlainStages
  <2>4. ItemOK(<< Separator >>)
    BY <2>1, <2>2, <2>3 DEF ItemOK
  <2> QED BY <2>4, ListedEmpty DEF ItemOK
<1>8. 0 \in S
  <2>1. 0 \in 0 .. n
    BY <1>2
  <2>2. f[0] = << >>
    BY <1>6, <2>1
  <2> QED BY <1>7, <2>1, <2>2
<1>9. ASSUME NEW k \in 1 .. n, k - 1 \in S PROVE k \in S
  <2>1. k \in 0 .. n /\ k # 0 /\ f[k] = Clause(f, k)
    BY <1>2, <1>6
  <2>2. CASE k = 1
    <3>1. f[k] = l.items[1]
      BY <2>1, <2>2
    <3> QED BY <1>2, <2>1, <2>2, <3>1
  <2>3. CASE k > 1
    <3> DEFINE before == IF f[k - 1] = << >> THEN << Separator >> ELSE f[k - 1]
    <3>1. f[k] = before \o more(l.items[k])
      <4>1. k # 0 /\ k # 1
        BY <2>3
      <4> DEFINE u == before \o more(l.items[k])
      <4>2. Clause(f, k) = CASE k = 0 -> << >> [] k = 1 -> l.items[1] [] k > 1 -> u
        BY DEF before
      <4> HIDE DEF u, before, more, Step
      <4>3. f[k] = u
        BY <2>1, <2>3, <4>1, <4>2
      <4> QED BY <4>3 DEF u
    <3>2. ItemOK(before)
      BY <1>7, <1>9
    <3>3. ItemOK(more(l.items[k]))
      BY <1>2, <1>7, ItemTail
    <3> HIDE DEF before, more
    <3>4. ItemOK(before \o more(l.items[k]))
      BY <3>2, <3>3, ItemConcat
    <3> QED BY <2>1, <3>1, <3>4
  <2>4. k = 1 \/ k > 1
    BY <1>2
  <2> QED BY <2>2, <2>3, <2>4
<1>10. 0 .. n \subseteq S
  <2> HIDE DEF S, n
  <2> QED BY <1>2, <1>8, <1>9, InductTo
<1>11. n \in 0 .. n
  BY <1>2
<1> QED BY <1>5, <1>10, <1>11

LEMMA QueueStep ==
  ASSUME Typed, Queue
  PROVE  Typed' /\ (Proceeds \/ Thrown)
<1> DEFINE bad == cmdstack = << >> \/ typed.unclosed \/ (cmdstack # << >> /\ ~IsShell(Head(cmdstack)))
<1>1. /\ todo # << >> /\ op[1] = "queue" /\ UNCHANGED << session, password_input >>
      /\ cmdstack' = cmdstack /\ pps' = pps /\ pp' = pp /\ timers' = timers
  BY DEF Queue, Is
<1>2. CASE bad
  <2>1. Raise /\ objs' = objs
    BY <1>2 DEF Queue
  <2>2. UNCHANGED << stack, timers >>
    BY <1>1, <2>1 DEF stack
  <2> QED BY <1>1, <2>1, <2>2, StillRaises
<1>3. CASE ~bad
  <2> DEFINE o == Head(cmdstack)
             e == [objs[o] EXCEPT !.pending = Append(@, Queued(typed))]
  <2>1. /\ objs' = [objs EXCEPT ![o].pending = Append(@, Queued(typed))] /\ Skip
        /\ UNCHANGED << session, link, password_input, past >> /\ IsShell(o) /\ cmdstack # << >>
    BY <1>1, <1>3 DEF Queue
  <2>2. o \in DOMAIN objs
    <3>1. Listed(cmdstack) /\ \A i \in DOMAIN cmdstack : cmdstack[i] \in DOMAIN objs
      BY DEF Typed, TypedStack
    <3>2. Head(cmdstack) = cmdstack[1] /\ Len(cmdstack) >= 1 /\ DOMAIN cmdstack = 1 .. Len(cmdstack)
          /\ Len(cmdstack) \in Nat
      BY <2>1, <3>1, ListedTail, ListedShape
    <3> QED BY <3>1, <3>2
  <2>3. ObjOK(objs[o], pps)
    BY <2>2 DEF Typed, TypedObjs
  <2> HIDE DEF o
  <2>4. /\ DOMAIN e = ObjFields /\ e.pending = Append(objs[o].pending, Queued(typed)) /\ e.pp = objs[o].pp
        /\ e.left = objs[o].left /\ e.cls = objs[o].cls /\ e.stage = objs[o].stage /\ e.await = objs[o].await
    BY <2>3 DEF ObjOK, ObjFields
  <2>5. PendingOK(e.pending)
    <3>1. typed \in Lines
      BY DEF Typed, Flags
    <3> QED BY <2>3, <2>4, <3>1, QueuedTyped, PendingAppend DEF ObjOK
  <2>6. ObjOK(e, pps)
    BY <2>3, <2>4, <2>5 DEF ObjOK
  <2>7. objs' = [objs EXCEPT ![o] = e]
    BY <2>1, <2>2
  <2> HIDE DEF e
  <2>8. /\ Grown /\ Alike /\ TypedObjs(objs', pps') /\ TypedPipes(pps')
    BY <1>1, <2>2, <2>4, <2>6, <2>7, OneChanged
  <2>9. TypedTimers(timers', objs') /\ pp' \in 0 .. Len(pps')
    BY <1>1, <2>8, GrownKeeps DEF Typed
  <2>10. Go(me, << >>)
    BY <1>1, <2>1, SkipIsGo DEF Typed, TypedTodo, Skip, Go
  <2>11. Listed(<< >>) /\ \A j \in 1 .. Len(<< >>) : FALSE
    BY ListedEmpty
  <2>12. ~IsShell(me) /\ op[1] \notin {"shell", "pop", "leave"}
    BY <1>1, HeadCall
  <2> QED BY <1>1, <2>1, <2>8, <2>9, <2>10, <2>11, <2>12, FlagsStay, Goes
<1> QED BY <1>2, <1>3

\* What a course of the class c and the method m may be, of calls already typed
LEMMA CourseTyped ==
  ASSUME NEW c \in DOMAIN commands, NEW m \in Methods \cup {"start", "call", "lineReceived"}, NEW fed,
         NEW course \in Courses(c, m, fed)
  PROVE  /\ Listed(course)
         /\ \A j \in 1 .. Len(course) : CommandOp(c, course[j]) /\ course[j][1] # "construct"
         /\ \/ \A j \in 1 .. Len(course) : Quiet(course[j])
            \/ m = "start" /\ course = << do("call"), exit >>
            \/ m = "call" /\ course = << shell, pop >> /\ c = "sh"
            \/ m = "lineReceived" /\ course = << queue >>
<1>1. Allowed(c, m, course)
  <2>1. m \notin {"piped", "pipedcall"}
    BY DEF Methods
  <2> QED BY <2>1, CourseFacts
<1>2. "exit" \in Methods /\ "error" \in Methods /\ "gotHeaders" \in Methods /\ "success" \in Methods
      /\ Methods \cap {"start", "call", "lineReceived"} = {}
  BY DEF Methods
<1> DEFINE Good(x) == CommandOp(c, x) /\ x[1] # "construct" /\ Quiet(x)
<1>3. \A x \in Steps : Good(x)
  <2> SUFFICES ASSUME NEW x \in Steps PROVE Good(x)
    OBVIOUS
  <2>1. CASE x \in {write, raise, processEnded, cancel, answer, terminal, cd, makefile, keep,
                    linkfile, cutHeader, << "redirFiles" >>, << "leave" >>}
    <3>1. x[1] \in {"write", "raise", "processEnded", "cancel", "answer", "terminal", "cd", "mkfile", "keep",
                    "link", "cutHeader", "redirFiles", "leave"}
      BY <2>1 DEF write, raise, processEnded, cancel, answer, terminal, cd, makefile, keep, linkfile, cutHeader
    <3> QED BY <3>1 DEF CommandOp, PlainSteps, Quiet
  <2>2. CASE x \in {hide, show}
    <3>1. \A b : << "password_input", b >>[1] = "password_input" /\ << "password_input", b >>[2] = b
      OBVIOUS
    <3>2. x = << "password_input", TRUE >> \/ x = << "password_input", FALSE >>
      BY <2>2 DEF hide, show
    <3>3. x[1] = "password_input" /\ x[2] \in BOOLEAN
      BY <3>1, <3>2, Zenon
    <3> QED BY <3>3 DEF CommandOp, Quiet
  <2>3. ASSUME NEW n \in Methods, x \in {do(n), callLater(n), await(n), guard(n)} PROVE Good(x)
    <3>1. x[1] \in {"do", "callLater", "await", "guard"} /\ x[2] \in Methods
      BY <2>3 DEF do, callLater, await, guard
    <3> QED BY <1>2, <3>1 DEF CommandOp, Quiet
  <2>4. ASSUME NEW n \in FileCommands, x = file(n) PROVE Good(x)
    <3>1. x[1] = "file"
      BY <2>4 DEF file
    <3> QED BY <3>1 DEF CommandOp, PlainSteps, Quiet
  <2> HIDE DEF Good
  <2> QED BY <2>1, <2>2, <2>3, <2>4 DEF Steps
<1>4. \A x \in {insert, outConnectionLost, temp, fill, move} : Good(x)
  <2> SUFFICES ASSUME NEW x \in {insert, outConnectionLost, temp, fill, move} PROVE Good(x)
    OBVIOUS
  <2>1. x[1] \in {"insert", "outConnectionLost", "temp", "fill", "move"}
    BY DEF insert, outConnectionLost, temp, fill, move
  <2> QED BY <2>1 DEF CommandOp, PlainSteps, Quiet
<1> DEFINE More == Steps \cup {insert, outConnectionLost, temp, fill, move}
<1>5. \A x \in More : Good(x)
  BY <1>3, <1>4
<1>6. ASSUME course \in Seq(More)
      PROVE  /\ Listed(course)
             /\ \A j \in 1 .. Len(course) : Good(course[j])
  <2>1. \A j \in 1 .. Len(course) : course[j] \in More
    BY <1>6
  <2> HIDE DEF Good, More
  <2> QED BY <1>5, <1>6, <2>1 DEF Listed
<1>7. BaseSteps \subseteq Steps
  BY StepsHave DEF BaseSteps
<1>8. CASE course \in Seq(Steps) \/ course \in Seq(BaseSteps)
  <2>1. course \in Seq(More)
    BY <1>7, <1>8, SeqMonotonic
  <2> QED BY <1>6, <2>1
<1>9. CASE Special(c, m, course)
  <2>1. CASE m = "start" /\ course = << do("call"), exit >>
    <3>1. \A j \in 1 .. Len(course) : course[j] \in {do("call"), exit}
      BY <2>1
    <3>2. Listed(course)
      <4>1. course \in Seq({do("call"), exit})
        BY <2>1
      <4> QED BY <4>1 DEF Listed
    <3>3. CommandOp(c, do("call")) /\ CommandOp(c, exit) /\ do("call")[1] = "do" /\ exit[1] = "do"
      BY <1>2 DEF CommandOp, do, exit
    <3> QED BY <2>1, <3>1, <3>2, <3>3
  <2>2. CASE m = "lineReceived" /\ course = << queue >>
    <3>1. \A j \in 1 .. Len(course) : course[j] = queue
      BY <2>2
    <3>2. Listed(course)
      BY <2>2, ListedSingle
    <3>3. CommandOp(c, queue) /\ queue[1] = "queue"
      BY DEF CommandOp, PlainSteps, queue
    <3> QED BY <2>2, <3>1, <3>2, <3>3
  <2>3. CASE c = "sh" /\ m = "call" /\ course = << shell, pop >>
    <3>1. \A j \in 1 .. Len(course) : course[j] \in {shell, pop}
      BY <2>3
    <3>2. Listed(course)
      <4>1. course \in Seq({shell, pop})
        BY <2>3
      <4> QED BY <4>1 DEF Listed
    <3>3. \A x \in {shell, pop} : CommandOp(c, x) /\ x[1] \in {"shell", "pop"}
      BY <2>3 DEF CommandOp, shell, pop
    <3> QED BY <2>3, <3>1, <3>2, <3>3
  <2>4. ASSUME \/ course \in {<< insert, exit >>, << insert, raise >>}
               \/ course \in {<< insert, outConnectionLost >>, << insert, outConnectionLost, raise >>}
               \/ course \in {<< temp, callLater("error") >>, << temp, callLater("gotHeaders") >>}
               \/ course = << move, terminal, linkfile, exit >>
               \/ course \in {<< write, fill, makefile, linkfile, do("success"), guard("error") >>,
                              << fill, do("success"), guard("error") >>,
                              << write, fill, move, terminal, raise, guard("error") >>}
        PROVE  course \in Seq(More)
    <3>1. /\ write \in More /\ raise \in More /\ terminal \in More /\ makefile \in More /\ linkfile \in More
          /\ exit \in More /\ do("success") \in More /\ guard("error") \in More
          /\ callLater("error") \in More /\ callLater("gotHeaders") \in More
      BY StepsHave
    <3>2. /\ insert \in More /\ outConnectionLost \in More /\ temp \in More
          /\ fill \in More /\ move \in More
      OBVIOUS
    <3> HIDE DEF More
    <3>3. /\ << insert, exit >> \in Seq(More) /\ << insert, raise >> \in Seq(More)
          /\ << insert, outConnectionLost >> \in Seq(More) /\ << insert, outConnectionLost, raise >> \in Seq(More)
      BY <3>1, <3>2
    <3>4. /\ << temp, callLater("error") >> \in Seq(More) /\ << temp, callLater("gotHeaders") >> \in Seq(More)
          /\ << move, terminal, linkfile, exit >> \in Seq(More)
      BY <3>1, <3>2
    <3>5. /\ << write, fill, makefile, linkfile, do("success"), guard("error") >> \in Seq(More)
          /\ << fill, do("success"), guard("error") >> \in Seq(More)
          /\ << write, fill, move, terminal, raise, guard("error") >> \in Seq(More)
      BY <3>1, <3>2
    <3> QED BY <2>4, <3>3, <3>4, <3>5, Zenon
  <2> HIDE DEF More, Good
  <2>5. \/ m = "start" /\ course = << do("call"), exit >>
        \/ m = "lineReceived" /\ course = << queue >>
        \/ c = "sh" /\ m = "call" /\ course = << shell, pop >>
        \/ course \in Seq(More)
    BY <1>9, <2>4 DEF Special
  <2> QED BY <1>6, <2>1, <2>2, <2>3, <2>5 DEF Good
<1> QED BY <1>1, <1>8, <1>9 DEF Allowed

LEMMA CourseStep ==
  ASSUME Typed, Course
  PROVE  Typed' /\ (Proceeds \/ Opens)
<1>1. /\ todo # << >> /\ op[1] = "do" /\ UNCHANGED << stack, timers >>
      /\ UNCHANGED << session, link, password_input, past >>
  BY DEF Course, Is
<1>2. PICK course \in Courses(objs[me].cls, op[2], objs[me].fed) : Go(me, course)
  BY DEF Course
<1>3. /\ me \in DOMAIN objs /\ ObjOK(objs[me], pps) /\ ~IsShell(me)
      /\ op[2] \in Methods \cup {"start", "call", "lineReceived"}
  BY <1>1, HeadCall
<1>4. objs[me].cls \in DOMAIN commands /\ objs[me].cls # "shell"
  BY <1>3 DEF ObjOK, IsShell
<1>5. /\ Listed(course)
      /\ \A j \in 1 .. Len(course) : CommandOp(objs[me].cls, course[j]) /\ course[j][1] # "construct"
      /\ \/ \A j \in 1 .. Len(course) : Quiet(course[j])
         \/ op[2] = "start" /\ course = << do("call"), exit >>
         \/ op[2] = "call" /\ course = << shell, pop >> /\ objs[me].cls = "sh"
         \/ op[2] = "lineReceived" /\ course = << queue >>
  BY <1>2, <1>3, <1>4, CourseTyped
<1>6. \A j \in 1 .. Len(course) : FrameOK([who |-> me, op |-> course[j]], objs, pps)
  BY <1>3, <1>4, <1>5 DEF FrameOK
<1>7. CASE \A j \in 1 .. Len(course) : Quiet(course[j])
  <2>1. \A j \in 1 .. Len(course) :
          /\ FrameOK([who |-> me, op |-> course[j]], objs, pps) /\ Quiet(course[j])
          /\ course[j][1] # "construct"
    BY <1>5, <1>6, <1>7
  <2>2. op[1] \notin {"shell", "pop", "leave"}
    BY <1>1
  <2> QED BY <1>1, <1>2, <1>3, <1>5, <2>1, <2>2, FlagsStay, StillGoes
<1>8. CASE ~\A j \in 1 .. Len(course) : Quiet(course[j])
  <2>1. /\ Grown /\ Alike /\ PendingSame /\ cmdstack' = cmdstack
        /\ TypedObjs(objs', pps') /\ TypedPipes(pps')
        /\ TypedTimers(timers', objs') /\ TypedStack(cmdstack', objs') /\ pp' \in 0 .. Len(pps')
    BY <1>1, StillKeeps
  <2>2. todo' = Calls(me, course) \o Tail(todo)
    BY <1>2 DEF Go
  <2>3. \A j \in 1 .. Len(course) : FrameOK([who |-> me, op |-> course[j]], objs', pps')
    BY <1>6, <2>1, GrownKeeps
  <2>4. TypedTodo(todo', objs', pps')
    BY <1>1, <1>5, <2>1, <2>2, <2>3, TodoOn
  <2>5. /\ Flags' /\ (link' = "gone" <=> link = "gone")
        /\ past'.strays = past.strays /\ past'.deaths = past.deaths
    BY <1>1, FlagsStay
  <2>6. Typed'
    BY <2>1, <2>4, <2>5 DEF Typed
  <2>7. Advances(course)
    BY <1>1, <1>5, <2>1, <2>2, <2>5 DEF Advances
  <2>8. Opens
    BY <1>1, <1>3, <1>5, <1>8, <2>1, <2>7 DEF Opens
  <2> QED BY <2>6, <2>8
<1> QED BY <1>7, <1>8

-----------------------------------------------------------------------------
(* The steps that change the stack                                         *)

\* One shell or command more
LEMMA ObjAdded ==
  ASSUME Typed, NEW e, ObjOK(e, pps), objs' = Append(objs, e), timers' = timers,
         TypedPipes(pps'), Len(pps) <= Len(pps'), \A p \in DOMAIN pps : pps'[p].stage = pps[p].stage
  PROVE  /\ Grown /\ TypedObjs(objs', pps') /\ TypedTimers(timers', objs') /\ pp \in 0 .. Len(pps')
         /\ Len(objs') = Len(objs) + 1 /\ DOMAIN objs' = 1 .. Len(objs) + 1 /\ objs'[Len(objs) + 1] = e
         /\ \A o \in DOMAIN objs : objs'[o] = objs[o]
<1>1. /\ Listed(objs) /\ Len(objs) \in Nat /\ DOMAIN objs = 1 .. Len(objs)
      /\ \A o \in DOMAIN objs : ObjOK(objs[o], pps)
  BY ListedShape DEF Typed, TypedObjs
<1>2. /\ Listed(objs') /\ Len(objs') = Len(objs) + 1
      /\ \A o \in 1 .. Len(objs) : objs'[o] = objs[o]
      /\ objs'[Len(objs) + 1] = e
  BY <1>1, ListedAppend
<1>3. DOMAIN objs' = 1 .. Len(objs) + 1 /\ \A o \in DOMAIN objs' : o \in DOMAIN objs \/ o = Len(objs) + 1
  BY <1>1, <1>2, ListedShape
<1>4. Grown
  BY <1>1, <1>2 DEF Grown, TypedPipes
<1>5. \A o \in DOMAIN objs' : ObjOK(objs'[o], pps')
  BY <1>1, <1>2, <1>3, <1>4, GrownKeeps
<1>6. TypedObjs(objs', pps')
  BY <1>2, <1>5 DEF TypedObjs
<1> QED BY <1>1, <1>2, <1>3, <1>4, <1>6, GrownKeeps

\* A new shell or command on top of the stack
Enters(e, course) ==
  /\ todo # << >> /\ op[1] \in {"construct", "shell"}
  /\ objs' = Append(objs, e) /\ ~e.left /\ e.pending = << >>
  /\ cmdstack' = Append(cmdstack, Len(objs) + 1)
  /\ Listed(course) /\ todo' = Calls(Len(objs) + 1, course) \o Tail(todo)
  /\ link' = link /\ past' = past
  /\ \/ op[1] = "construct" /\ e.cls # "shell" /\ course = << do("start"), << "callend" >> >>
     \/ op[1] = "shell" /\ e.cls = "shell" /\ \E l : course = << << "line", l >> >>

LEMMA EntersTyped ==
  ASSUME Typed, NEW e, ObjOK(e, pps), NEW course, Enters(e, course), timers' = timers, pp' = pp,
         TypedPipes(pps'), Len(pps) <= Len(pps'), \A p \in DOMAIN pps : pps'[p].stage = pps[p].stage,
         UNCHANGED << session, password_input >>,
         \A j \in 1 .. Len(course) :
           \/ e.cls = "shell" /\ ShellOp(course[j])
           \/ e.cls # "shell" /\ CommandOp(e.cls, course[j])
  PROVE  Typed'
<1>1. /\ Grown /\ TypedObjs(objs', pps') /\ TypedTimers(timers', objs') /\ pp \in 0 .. Len(pps')
      /\ Len(objs') = Len(objs) + 1 /\ DOMAIN objs' = 1 .. Len(objs) + 1 /\ objs'[Len(objs) + 1] = e
  BY ObjAdded DEF Enters
<1>2. Len(objs) \in Nat /\ Len(objs) + 1 \in DOMAIN objs'
  <2>1. Len(objs) \in Nat
    BY ListedShape DEF Typed, TypedObjs
  <2> QED BY <1>1, <2>1
<1>3. \A j \in 1 .. Len(course) : FrameOK([who |-> Len(objs) + 1, op |-> course[j]], objs', pps')
  BY <1>1, <1>2 DEF FrameOK
<1>4. TypedTodo(todo', objs', pps')
  <2>1. todo # << >> /\ Listed(course) /\ todo' = Calls(Len(objs) + 1, course) \o Tail(todo)
    BY DEF Enters
  <2> QED BY <1>1, <1>3, <2>1, TodoOn
<1>5. TypedStack(cmdstack', objs')
  <2>1. TypedStack(cmdstack, objs') /\ cmdstack' = Append(cmdstack, Len(objs) + 1)
    BY <1>1, GrownKeeps DEF Enters
  <2>2. Listed(cmdstack) /\ DOMAIN cmdstack = 1 .. Len(cmdstack) /\ Len(cmdstack) \in Nat
    BY <2>1, ListedShape DEF TypedStack
  <2>3. /\ Listed(cmdstack') /\ Len(cmdstack') = Len(cmdstack) + 1
        /\ \A i \in 1 .. Len(cmdstack) : cmdstack'[i] = cmdstack[i]
        /\ cmdstack'[Len(cmdstack) + 1] = Len(objs) + 1
    BY <2>1, <2>2, ListedAppend
  <2>4. DOMAIN cmdstack' = 1 .. Len(cmdstack) + 1
        /\ \A i \in 1 .. Len(cmdstack) + 1 : i \in 1 .. Len(cmdstack) \/ i = Len(cmdstack) + 1
    BY <2>2, <2>3, ListedShape
  <2> QED BY <1>2, <2>1, <2>2, <2>3, <2>4 DEF TypedStack
<1>6. Flags'
  BY DEF Enters, Typed, Flags, session
<1> QED BY <1>1, <1>4, <1>5, <1>6 DEF Typed

LEMMA ConstructStep ==
  ASSUME Typed, Construct
  PROVE  Typed' /\ \E e, course : ObjOK(e, pps) /\ Enters(e, course)
<1> DEFINE p == op[2]
           new == Len(objs) + 1
           stage == pps[p].stage
           e == [Shell(FALSE) EXCEPT !.cls = stage.cmd, !.pp = p, !.fed = pps[p].fed,
                                     !.stage = stage, !.sink = op[3], !.safe = op[4],
                                     !.dst = IF op[3] = "file" THEN op[5]
                                             ELSE resolve_path(stage.c.dst, cwd)]
           course == << do("start"), << "callend" >> >>
           x == [pps[p] EXCEPT !.ran = TRUE]
<1>1. /\ todo # << >> /\ op[1] = "construct"
      /\ objs' = Append(objs, e) /\ cmdstack' = Append(cmdstack, new)
      /\ pps' = [pps EXCEPT ![p].ran = TRUE] /\ Go(new, course)
      /\ link' = link /\ past' = past /\ timers' = timers /\ pp' = pp /\ UNCHANGED << session, password_input >>
  BY DEF Construct, Is
<1>2. KnownPipe(p, pps) /\ DOMAIN pps = 1 .. Len(pps) /\ Len(pps) \in Nat
  BY <1>1, HeadCall
<1>3. p \in DOMAIN pps /\ PipeOK(pps[p], pps) /\ stage.cmd \in DOMAIN commands
  BY <1>2 DEF KnownPipe, Typed, TypedPipes
<1>4. /\ DOMAIN e = ObjFields /\ e.cls = stage.cmd /\ e.pp = p /\ e.stage = stage /\ e.pending = << >>
      /\ e.await = "" /\ e.left = FALSE
  BY DEF Shell, ObjFields
<1>5. ObjOK(e, pps)
  <2>1. PendingOK(<< >>)
    BY ItemsTyped
  <2>2. p \in 0 .. Len(pps) /\ p # 0
    BY <1>2, <1>3
  <2>3. Staged(stage)
    BY <1>3 DEF PipeOK
  <2> HIDE DEF e, p, stage
  <2> QED BY <1>3, <1>4, <2>1, <2>2, <2>3 DEF ObjOK
<1> HIDE DEF e
<1>6. e.cls # "shell"
  BY <1>3, <1>4, PlainStages
<1>7. /\ TypedPipes(pps') /\ Len(pps) <= Len(pps')
      /\ \A q \in DOMAIN pps : pps'[q].stage = pps[q].stage
  <2>1. DOMAIN x = PipeFields /\ x.stage = pps[p].stage /\ x.next = pps[p].next
    BY <1>3 DEF PipeOK, PipeFields
  <2>2. x.next = 0 \/ KnownPipe(x.next, pps)
    BY <1>3, <2>1 DEF PipeOK
  <2>3. pps' = [pps EXCEPT ![p] = x]
    BY <1>1, <1>3
  <2> HIDE DEF x
  <2> QED BY <1>3, <2>1, <2>2, <2>3, PipeSet
<1>8. Listed(course) /\ \A j \in 1 .. Len(course) : course[j] \in {do("start"), << "callend" >>}
  <2>1. \A a, b : Listed(<< a, b >>)
    <3> SUFFICES ASSUME NEW a, NEW b PROVE Listed(<< a, b >>)
      OBVIOUS
    <3>1. << a, b >> \in Seq({a, b})
      OBVIOUS
    <3> QED BY <3>1 DEF Listed
  <2>2. \A a, b : Len(<< a, b >>) = 2 /\ << a, b >>[1] = a /\ << a, b >>[2] = b
    OBVIOUS
  <2>3. Listed(course) /\ Len(course) = 2 /\ course[1] = do("start") /\ course[2] = << "callend" >>
    BY <2>1, <2>2
  <2>4. \A j \in 1 .. 2 : j = 1 \/ j = 2
    OBVIOUS
  <2> HIDE DEF course
  <2> QED BY <2>3, <2>4
<1>9. \A j \in 1 .. Len(course) : CommandOp(e.cls, course[j])
  <2>1. CommandOp(e.cls, do("start")) /\ CommandOp(e.cls, << "callend" >>)
    BY DEF CommandOp, do, PlainSteps
  <2> QED BY <1>8, <2>1
<1>10. Enters(e, course)
  BY <1>1, <1>4, <1>6, <1>8 DEF Enters, Go
<1> HIDE DEF course
<1>11. Typed'
  BY <1>1, <1>5, <1>6, <1>7, <1>9, <1>10, EntersTyped
<1> QED BY <1>5, <1>10, <1>11

LEMMA ShellStep ==
  ASSUME Typed, PushShell
  PROVE  Typed' /\ \E e, course : ObjOK(e, pps) /\ Enters(e, course)
<1> DEFINE e == Shell(FALSE)
           l == [items |-> objs[me].stage.sub, unclosed |-> FALSE]
           course == << << "line", l >> >>
<1>1. /\ todo # << >> /\ op[1] = "shell"
      /\ objs' = Append(objs, e) /\ cmdstack' = Append(cmdstack, Len(objs'))
      /\ todo' = Calls(Len(objs'), course) \o Tail(todo)
      /\ link' = link /\ past' = past /\ timers' = timers /\ pp' = pp /\ pps' = pps
      /\ UNCHANGED << session, password_input >>
  BY DEF PushShell, Is
<1>2. ~IsShell(me) /\ ObjOK(objs[me], pps)
  BY <1>1, HeadCall
<1>3. l \in Lines
  BY <1>2 DEF ObjOK, IsShell, Staged, Lines
<1>4. /\ DOMAIN e = ObjFields /\ e.cls = "shell" /\ e.pp = 0 /\ e.pending = << >> /\ e.left = FALSE
  BY DEF Shell, ObjFields
<1>5. ObjOK(e, pps)
  <2>1. Len(pps) \in Nat /\ PendingOK(<< >>)
    BY ListedShape, ItemsTyped DEF Typed, TypedPipes
  <2>2. 0 \in 0 .. Len(pps)
    BY <2>1
  <2>3. e.pp \in 0 .. Len(pps)
    BY <1>4, <2>2
  <2>4. e.left \in BOOLEAN
    BY <1>4
  <2>5. PendingOK(e.pending)
    BY <1>4, <2>1
  <2> HIDE DEF e
  <2> QED BY <1>4, <2>3, <2>4, <2>5 DEF ObjOK
<1> HIDE DEF e, l
<1>6. Len(objs') = Len(objs) + 1
  BY <1>1, ListedAppend DEF Typed, TypedObjs
<1>7. Listed(course) /\ Len(course) = 1 /\ course[1] = << "line", l >>
  BY ListedSingle
<1>8. Enters(e, course)
  BY <1>1, <1>4, <1>6, <1>7 DEF Enters
<1>9. \A j \in 1 .. Len(course) : ShellOp(course[j])
  <2> HIDE DEF course
  <2>1. \A j \in 1 .. Len(course) : course[j] = << "line", l >>
    BY <1>7
  <2>2. << "line", l >>[1] = "line" /\ << "line", l >>[2] = l
    OBVIOUS
  <2> QED BY <1>3, <2>1, <2>2 DEF ShellOp
<1> HIDE DEF course
<1>10. /\ TypedPipes(pps') /\ Len(pps) <= Len(pps')
       /\ \A p \in DOMAIN pps : pps'[p].stage = pps[p].stage
  BY <1>1, ListedShape DEF Typed, TypedPipes
<1>11. Typed'
  BY <1>1, <1>4, <1>5, <1>8, <1>9, <1>10, EntersTyped
<1> QED BY <1>5, <1>8, <1>11

LEMMA LeaveStep ==
  ASSUME Typed, Leave
  PROVE  Typed'
<1> DEFINE e == [objs[me] EXCEPT !.left = TRUE]
<1>1. /\ todo # << >> /\ op[1] = "leave" /\ objs' = [objs EXCEPT ![me].left = TRUE]
      /\ pps' = pps /\ pp' = pp /\ timers' = timers /\ UNCHANGED << session, password_input >>
  BY DEF Leave, Is
<1>2. me \in DOMAIN objs /\ ObjOK(objs[me], pps)
  BY <1>1, HeadCall
<1>3. /\ DOMAIN e = ObjFields /\ e.pending = objs[me].pending /\ e.pp = objs[me].pp /\ e.left = TRUE
      /\ e.cls = objs[me].cls /\ e.stage = objs[me].stage /\ e.await = objs[me].await
  BY <1>2 DEF ObjOK, ObjFields
<1>4. ObjOK(e, pps)
  BY <1>2, <1>3 DEF ObjOK
<1>5. objs' = [objs EXCEPT ![me] = e]
  BY <1>1, <1>2
<1> HIDE DEF e
<1>6. /\ Listed(objs) /\ Len(objs) \in Nat /\ DOMAIN objs = 1 .. Len(objs)
      /\ Listed(pps) /\ Len(pps) \in Nat
      /\ \A o \in DOMAIN objs : ObjOK(objs[o], pps)
  BY ListedShape DEF Typed, TypedObjs, TypedPipes
<1>7. /\ Listed(objs') /\ Len(objs') = Len(objs) /\ DOMAIN objs' = DOMAIN objs
      /\ objs'[me] = e /\ \A o \in DOMAIN objs : o # me => objs'[o] = objs[o]
  BY <1>2, <1>5, <1>6, ListedExcept
<1>8. Grown /\ \A o \in DOMAIN objs : objs'[o].cls = objs[o].cls
  BY <1>1, <1>3, <1>6, <1>7 DEF Grown
<1>9. TypedObjs(objs', pps')
  BY <1>1, <1>4, <1>6, <1>7 DEF TypedObjs
<1>10. TypedTimers(timers', objs') /\ TypedStack(cmdstack, objs') /\ pp' \in 0 .. Len(pps') /\ TypedPipes(pps')
  BY <1>1, <1>8, GrownKeeps DEF Typed
<1>11. Skip => TypedTodo(todo', objs', pps')
  <2> SUFFICES ASSUME Skip PROVE TypedTodo(todo', objs', pps')
    OBVIOUS
  <2>1. todo' = Calls(me, << >>) \o Tail(todo)
    BY <1>1, SkipIsGo DEF Typed, TypedTodo, Skip
  <2>2. Listed(<< >>) /\ \A j \in 1 .. Len(<< >>) : FALSE
    BY ListedEmpty
  <2> QED BY <1>1, <1>8, <2>1, <2>2, TodoOn
<1>12. CASE cmdstack = << >>
  <2>1. Skip /\ cmdstack' = cmdstack /\ past' = past /\ link' \in {link, "ended"}
    BY <1>12 DEF Leave
  <2>2. Flags'
    BY <1>1, <2>1 DEF Typed, Flags, session
  <2> QED BY <1>9, <1>10, <1>11, <2>1, <2>2 DEF Typed
<1>13. CASE cmdstack # << >>
  <2>1. /\ cmdstack' = Front(cmdstack) /\ link' = link /\ DOMAIN past' = DOMAIN past
        /\ \/ Skip
           \/ /\ cmdstack' # << >> /\ IsShell(Last(cmdstack'))
              /\ todo' = Calls(Last(cmdstack'), << << "runCommand" >> >>) \o Tail(todo)
    BY <1>13 DEF Leave
  <2>2. Flags'
    BY <1>1, <2>1 DEF Typed, Flags, session
  <2>3. TypedStack(cmdstack', objs')
    <3>1. Listed(cmdstack) /\ DOMAIN cmdstack = 1 .. Len(cmdstack) /\ Len(cmdstack) \in Nat
      BY ListedShape DEF Typed, TypedStack
    <3>2. /\ Listed(cmdstack') /\ Len(cmdstack') = Len(cmdstack) - 1
          /\ \A i \in 1 .. Len(cmdstack) - 1 : cmdstack'[i] = cmdstack[i]
      BY <1>13, <2>1, <3>1, ListedFront
    <3>3. DOMAIN cmdstack' = 1 .. Len(cmdstack) - 1
      BY <3>2, ListedShape
    <3> QED BY <1>10, <3>1, <3>2, <3>3 DEF TypedStack
  <2>4. CASE Skip
    BY <1>9, <1>10, <1>11, <2>2, <2>3, <2>4 DEF Typed
  <2>5. CASE /\ cmdstack' # << >> /\ IsShell(Last(cmdstack'))
             /\ todo' = Calls(Last(cmdstack'), << << "runCommand" >> >>) \o Tail(todo)
    <3> DEFINE course == << << "runCommand" >> >>
               t == Last(cmdstack')
    <3>1. t \in DOMAIN objs' /\ objs'[t].cls = "shell"
      <4>1. Last(cmdstack') = cmdstack'[Len(cmdstack')] /\ Len(cmdstack') >= 1
            /\ Len(cmdstack') \in Nat /\ DOMAIN cmdstack' = 1 .. Len(cmdstack')
        BY <2>3, <2>5, ListedFront, ListedShape DEF TypedStack
      <4>2. Last(cmdstack') \in DOMAIN objs'
        BY <2>3, <4>1 DEF TypedStack
      <4> QED BY <1>7, <1>8, <2>5, <4>2 DEF IsShell
    <3>2. Listed(course) /\ Len(course) = 1 /\ course[1] = << "runCommand" >>
      BY ListedSingle
    <3>3. todo' = Calls(t, course) \o Tail(todo)
      BY <2>5
    <3> HIDE DEF course, t
    <3>4. \A j \in 1 .. Len(course) : course[j] = << "runCommand" >>
      BY <3>2
    <3>5. FrameOK([who |-> t, op |-> << "runCommand" >>], objs', pps')
      BY <3>1 DEF FrameOK, ShellOp
    <3>6. TypedTodo(todo', objs', pps')
      BY <1>1, <1>8, <3>2, <3>3, <3>4, <3>5, TodoOn
    <3> QED BY <1>9, <1>10, <2>2, <2>3, <3>6 DEF Typed
  <2> QED BY <2>1, <2>4, <2>5
<1> QED BY <1>12, <1>13

LEMMA PopStep ==
  ASSUME Typed, Pop
  PROVE  Typed' /\ (Thrown \/ cmdstack # << >>)
<1>1. /\ todo # << >> /\ op[1] = "pop" /\ objs' = objs /\ pps' = pps /\ pp' = pp /\ timers' = timers
      /\ UNCHANGED << session, password_input >>
  BY DEF Pop, Is
<1>2. CASE cmdstack = << >>
  <2>1. Raise /\ cmdstack' = cmdstack
    BY <1>2 DEF Pop
  <2>2. UNCHANGED << stack, timers >>
    BY <1>1, <2>1 DEF stack
  <2> QED BY <1>1, <1>2, <2>1, <2>2, StillRaises
<1>3. CASE cmdstack # << >>
  <2>1. cmdstack' = Front(cmdstack) /\ Skip /\ link' = link /\ DOMAIN past' = DOMAIN past
    BY <1>3 DEF Pop
  <2>2. Flags'
    BY <1>1, <2>1 DEF Typed, Flags, session
  <2>3. TypedStack(cmdstack', objs')
    <3>1. Listed(cmdstack) /\ DOMAIN cmdstack = 1 .. Len(cmdstack) /\ Len(cmdstack) \in Nat
      BY ListedShape DEF Typed, TypedStack
    <3>2. /\ Listed(cmdstack') /\ Len(cmdstack') = Len(cmdstack) - 1
          /\ \A i \in 1 .. Len(cmdstack) - 1 : cmdstack'[i] = cmdstack[i]
      BY <1>3, <2>1, <3>1, ListedFront
    <3>3. DOMAIN cmdstack' = 1 .. Len(cmdstack) - 1
      BY <3>2, ListedShape
    <3> QED BY <1>1, <3>1, <3>2, <3>3 DEF Typed, TypedStack
  <2>4. /\ Grown /\ TypedObjs(objs', pps') /\ TypedTimers(timers', objs') /\ TypedPipes(pps')
        /\ pp' \in 0 .. Len(pps')
    BY <1>1, PipesStay
  <2>5. TypedTodo(todo', objs', pps')
    <3>1. todo' = Calls(me, << >>) \o Tail(todo)
      BY <1>1, <2>1, SkipIsGo DEF Typed, TypedTodo, Skip
    <3>2. Listed(<< >>) /\ \A j \in 1 .. Len(<< >>) : FALSE
      BY ListedEmpty
    <3> QED BY <1>1, <2>4, <3>1, <3>2, TodoOn
  <2> QED BY <1>3, <2>2, <2>3, <2>4, <2>5 DEF Typed
<1> QED BY <1>2, <1>3

-----------------------------------------------------------------------------
(* The events                                                              *)

\* An event of a session that goes on: at most one call begins, of whoever is on top
\* or of a method that a timer or a key calls.
Wakes ==
  /\ Idle /\ cmdstack' = cmdstack /\ objs' = objs /\ past' = past /\ (link' = "gone" <=> link = "gone")
  /\ \/ todo' = << >>
     \/ \E w, o :
          /\ todo' = Calls(w, << o >>)
          /\ \/ o[1] = "do" /\ o[2] \in Methods
             \/ /\ cmdstack # << >> /\ w = Last(cmdstack)
                /\ o[1] \in {"line", "launch"} \/ (o[1] = "do" /\ o[2] = "lineReceived")

LEMMA TopIs ==
  ASSUME Typed, cmdstack # << >>
  PROVE  /\ Last(cmdstack) = cmdstack[Len(cmdstack)] /\ Len(cmdstack) \in DOMAIN cmdstack
         /\ Last(cmdstack) \in DOMAIN objs /\ Head(cmdstack) = cmdstack[1] /\ 1 \in DOMAIN cmdstack
         /\ DOMAIN cmdstack = 1 .. Len(cmdstack) /\ Len(cmdstack) \in Nat /\ Len(cmdstack) >= 1
         /\ Listed(cmdstack)
<1>1. Listed(cmdstack) /\ DOMAIN cmdstack = 1 .. Len(cmdstack) /\ Len(cmdstack) \in Nat
  BY ListedShape DEF Typed, TypedStack
<1>2. Last(cmdstack) = cmdstack[Len(cmdstack)] /\ Len(cmdstack) >= 1 /\ Head(cmdstack) = cmdstack[1]
  BY <1>1, ListedFront, ListedTail
<1> QED BY <1>1, <1>2 DEF Typed, TypedStack

\* One call, or none, begins.
LEMMA OneCall ==
  ASSUME NEW w, NEW o, NEW ob, NEW ps, FrameOK([who |-> w, op |-> o], ob, ps)
  PROVE  TypedTodo(Calls(w, << o >>), ob, ps)
<1> DEFINE course == << o >>
<1>1. Listed(course) /\ Len(course) = 1 /\ course[1] = o
  BY ListedSingle
<1> HIDE DEF course
<1>2. /\ Listed(Calls(w, course)) /\ Len(Calls(w, course)) = Len(course)
      /\ \A j \in 1 .. Len(course) : Calls(w, course)[j] = [who |-> w, op |-> course[j]]
  BY <1>1, Began
<1>3. DOMAIN Calls(w, course) = 1 .. 1 /\ \A j \in 1 .. 1 : j = 1
  BY <1>1, <1>2, ListedShape
<1>4. TypedTodo(Calls(w, course), ob, ps)
  BY <1>1, <1>2, <1>3 DEF TypedTodo
<1> QED BY <1>4 DEF course

LEMMA NoCalls ==
  ASSUME NEW ob, NEW ps
  PROVE  TypedTodo(<< >>, ob, ps) /\ \A w : Calls(w, << >>) = << >>
  BY ListedEmpty DEF TypedTodo, Calls

LEMMA Delivered ==
  ASSUME Typed, Idle, Grown, cmdstack' = cmdstack, objs' = objs, past' = past, link' = link,
         NEW course, NEW m \in Methods \cup {"lineReceived"}, Deliver(course, m),
         \/ course = << >>
         \/ \E o : /\ course = << o >> /\ o[1] \in {"line", "launch"}
                   /\ cmdstack # << >> /\ IsShell(Top) => FrameOK([who |-> Top, op |-> o], objs', pps')
  PROVE  TypedTodo(todo', objs', pps') /\ Wakes
<1>1. CASE cmdstack = << >>
  <2>1. todo' = << >>
    BY <1>1 DEF Deliver, Idle
  <2> QED BY <2>1, NoCalls DEF Wakes
<1>2. CASE cmdstack # << >> /\ IsShell(Top)
  <2>1. todo' = Calls(Top, course)
    BY <1>2 DEF Deliver
  <2>2. CASE course = << >>
    <3>1. todo' = << >>
      BY <2>1, <2>2, NoCalls
    <3> QED BY <3>1, NoCalls DEF Wakes
  <2>3. ASSUME NEW o, course = << o >>, o[1] \in {"line", "launch"}, FrameOK([who |-> Top, op |-> o], objs', pps')
        PROVE  TypedTodo(todo', objs', pps') /\ Wakes
    <3>1. todo' = Calls(Top, << o >>)
      BY <2>1, <2>3
    <3>2. TypedTodo(todo', objs', pps')
      BY <2>3, <3>1, OneCall
    <3>3. Wakes
      BY <1>2, <2>3, <3>1 DEF Wakes, Top
    <3> QED BY <3>2, <3>3
  <2> QED BY <1>2, <2>2, <2>3
<1>3. CASE cmdstack # << >> /\ ~IsShell(Top)
  <2> DEFINE o == do(m)
  <2>1. todo' = Calls(Top, << o >>)
    BY <1>3 DEF Deliver
  <2>2. o[1] = "do" /\ o[2] = m
    BY DEF do
  <2> HIDE DEF o
  <2>3. Top \in DOMAIN objs'
    BY <1>3, TopIs DEF Top
  <2>4. CommandOp(objs'[Top].cls, o)
    BY <2>2 DEF CommandOp
  <2>5. FrameOK([who |-> Top, op |-> o], objs', pps')
    BY <1>3, <2>3, <2>4 DEF FrameOK, IsShell
  <2>6. TypedTodo(todo', objs', pps')
    BY <2>1, <2>5, OneCall
  <2>7. Wakes
    BY <1>3, <2>1, <2>2 DEF Wakes, Top
  <2> QED BY <2>6, <2>7
<1> QED BY <1>1, <1>2, <1>3

LEMMA KeySteps ==
  ASSUME Typed, TypeLine \/ InterruptKey \/ EndKey
  PROVE  Typed' /\ Wakes
<1>1. /\ Idle /\ cmdstack' = cmdstack /\ objs' = objs /\ past' = past /\ link' = link /\ pp' = pp
      /\ timers' = timers /\ password_input' = password_input /\ ticks' = ticks /\ reading' = TRUE
  BY DEF TypeLine, InterruptKey, EndKey, stack
<1>2. script \in ScriptType /\ DOMAIN script = {"exec", "lines", "signals"} /\ script.lines \in Seq(Lines)
      /\ script.signals \in Nat
  BY DEF Typed, Flags, ScriptType
<1>3. CASE TypeLine
  <2>1. /\ pps' = pps /\ script.lines # << >> /\ typed' = Head(script.lines)
        /\ script' = [script EXCEPT !.lines = Tail(@)]
        /\ Deliver(<< << "line", typed' >> >>, "lineReceived")
    BY <1>3 DEF TypeLine, stack
  <2>2. Head(script.lines) \in Lines /\ Tail(script.lines) \in Seq(Lines)
    BY <1>2, <2>1, HeadTailProperties
  <2>3. script' \in ScriptType /\ typed' \in Lines
    BY <1>2, <2>1, <2>2 DEF ScriptType
  <2>4. Flags'
    BY <1>1, <2>3 DEF Typed, Flags
  <2>5. Grown /\ TypedObjs(objs', pps') /\ TypedTimers(timers', objs') /\ TypedPipes(pps') /\ pp \in 0 .. Len(pps')
    BY <1>1, <2>1, PipesStay
  <2> DEFINE o == << "line", typed' >>
  <2>6. o[1] = "line" /\ o[2] = typed'
    OBVIOUS
  <2>7. Deliver(<< o >>, "lineReceived")
    BY <2>1
  <2> HIDE DEF o
  <2>8. cmdstack # << >> /\ IsShell(Top) => FrameOK([who |-> Top, op |-> o], objs', pps')
    BY <1>1, <2>3, <2>6, TopIs DEF FrameOK, ShellOp, IsShell, Top
  <2>9. TypedTodo(todo', objs', pps') /\ Wakes
    BY <1>1, <2>5, <2>6, <2>7, <2>8, Delivered
  <2>10. TypedStack(cmdstack', objs')
    BY <1>1 DEF Typed
  <2> QED BY <1>1, <2>4, <2>5, <2>9, <2>10 DEF Typed
<1>4. CASE InterruptKey
  <2>1. /\ pps' = pps /\ script.signals > 0 /\ typed' = typed
        /\ script' = [script EXCEPT !.signals = @ - 1]
        /\ Deliver(<< >>, "handle_CTRL_C")
    BY <1>4 DEF InterruptKey, stack
  <2>2. script' \in ScriptType
    BY <1>2, <2>1 DEF ScriptType
  <2>3. Flags'
    BY <1>1, <2>1, <2>2 DEF Typed, Flags
  <2>4. Grown /\ TypedObjs(objs', pps') /\ TypedTimers(timers', objs') /\ TypedPipes(pps') /\ pp \in 0 .. Len(pps')
    BY <1>1, <2>1, PipesStay
  <2>5. TypedTodo(todo', objs', pps') /\ Wakes
    <3>1. "handle_CTRL_C" \in Methods
      BY DEF Methods
    <3> QED BY <1>1, <2>1, <2>4, <3>1, Delivered
  <2>6. TypedStack(cmdstack', objs')
    BY <1>1 DEF Typed
  <2> QED BY <1>1, <2>3, <2>4, <2>5, <2>6 DEF Typed
<1>5. CASE EndKey
  <2> DEFINE x == Pipe(ExitStage, 0, FALSE)
             q == Len(pps) + 1
  <2>1. /\ script.signals > 0 /\ typed' = typed
        /\ script' = [script EXCEPT !.signals = @ - 1]
        /\ pps' = IF cmdstack # << >> /\ IsShell(Top) THEN Append(pps, x) ELSE pps
        /\ Deliver(<< << "launch", q >> >>, "handle_CTRL_D")
    BY <1>5 DEF EndKey
  <2>2. script' \in ScriptType
    BY <1>2, <2>1 DEF ScriptType
  <2>3. Flags'
    BY <1>1, <2>1, <2>2 DEF Typed, Flags
  <2>4. DOMAIN x = PipeFields /\ x.stage = ExitStage /\ x.next = 0
    BY DEF Pipe, PipeFields
  <2> HIDE DEF x
  <2>5. PipeOK(x, pps)
    BY <2>4, PlainStages DEF PipeOK
  <2>6. /\ Listed(pps) /\ Len(pps) \in Nat /\ DOMAIN pps = 1 .. Len(pps)
        /\ Listed(Append(pps, x)) /\ Len(Append(pps, x)) = q
        /\ \A i \in 1 .. Len(pps) : Append(pps, x)[i] = pps[i]
        /\ Append(pps, x)[q] = x
    BY ListedAppend, ListedShape DEF Typed, TypedPipes
  <2>7. /\ DOMAIN Append(pps, x) = 1 .. q /\ \A i \in 1 .. q : i \in 1 .. Len(pps) \/ i = q
    BY <2>6, ListedShape
  <2>8. \A z : PipeOK(z, pps) => PipeOK(z, Append(pps, x))
    <3>1. \A k : KnownPipe(k, pps) => KnownPipe(k, Append(pps, x))
      BY <2>6, <2>7 DEF KnownPipe
    <3> QED BY <3>1 DEF PipeOK
  <2>9. TypedPipes(Append(pps, x))
    BY <2>5, <2>6, <2>7, <2>8 DEF Typed, TypedPipes
  <2>10. /\ TypedPipes(pps') /\ Len(pps) <= Len(pps') /\ \A p \in DOMAIN pps : pps'[p].stage = pps[p].stage
    BY <2>1, <2>6, <2>9 DEF Typed
  <2>11. Grown /\ TypedObjs(objs', pps') /\ TypedTimers(timers', objs') /\ pp \in 0 .. Len(pps')
    BY <1>1, <2>10, PipesGrown
  <2>12. cmdstack # << >> /\ IsShell(Top) => KnownPipe(q, pps')
    <3>1. q \in 1 .. q
      BY <2>6
    <3> QED BY <2>1, <2>4, <2>6, <2>7, <3>1, PlainStages DEF KnownPipe
  <2> DEFINE o == << "launch", q >>
  <2>13. o[1] = "launch" /\ o[2] = q
    OBVIOUS
  <2>14. Deliver(<< o >>, "handle_CTRL_D")
    BY <2>1
  <2> HIDE DEF o, q
  <2>15. cmdstack # << >> /\ IsShell(Top) => FrameOK([who |-> Top, op |-> o], objs', pps')
    BY <1>1, <2>12, <2>13, TopIs DEF FrameOK, Starts, Top
  <2>16. TypedTodo(todo', objs', pps') /\ Wakes
    <3>1. "handle_CTRL_D" \in Methods
      BY DEF Methods
    <3> QED BY <1>1, <2>11, <2>13, <2>14, <2>15, <3>1, Delivered
  <2>17. TypedStack(cmdstack', objs')
    BY <1>1 DEF Typed
  <2> QED BY <1>1, <2>3, <2>10, <2>11, <2>16, <2>17 DEF Typed
<1> QED BY <1>3, <1>4, <1>5

\* What an exec session sends changes its log and what is still to send.
LEMMA InputStep ==
  ASSUME Typed, TypeInput
  PROVE  Typed' /\ Wakes
<1>1. /\ Idle /\ todo' = todo /\ UNCHANGED << stack, timers, password_input >>
      /\ UNCHANGED << typed, ticks, past >> /\ reading' = TRUE
      /\ link \in {"up", "ended"} /\ link' \in {link, "broken"}
      /\ Len(script.lines) > 1 /\ script' = [script EXCEPT !.lines = Tail(@)]
  BY DEF TypeInput, Connected
<1>2. script \in ScriptType /\ DOMAIN script = {"exec", "lines", "signals"} /\ script.lines \in Seq(Lines)
  BY DEF Typed, Flags, ScriptType
<1>3. Tail(script.lines) \in Seq(Lines)
  <2>1. script.lines # << >>
    BY <1>1
  <2> QED BY <1>2, <2>1, HeadTailProperties
<1>4. script' \in ScriptType
  BY <1>1, <1>2, <1>3 DEF ScriptType
<1>5. Flags'
  BY <1>1, <1>4 DEF Typed, Flags
<1>6. Typed'
  BY <1>1, <1>5 DEF Typed, stack
<1>7. Wakes
  BY <1>1 DEF Wakes, Idle, stack
<1> QED BY <1>6, <1>7

LEMMA OtherWakes ==
  ASSUME Typed, EndOfSession \/ Tick
  PROVE  Typed' /\ Wakes
<1>1. /\ Idle /\ cmdstack' = cmdstack /\ objs' = objs /\ past' = past /\ pp' = pp /\ pps' = pps
      /\ password_input' = password_input /\ reading' = FALSE /\ script' = script /\ typed' = typed
  BY DEF EndOfSession, Tick, stack
<1>2. TypedObjs(objs', pps') /\ TypedPipes(pps') /\ TypedStack(cmdstack', objs') /\ pp' \in 0 .. Len(pps')
  BY <1>1 DEF Typed
<1>3. CASE EndOfSession
  <2>1. link = "up" /\ link' = "ended" /\ todo' = todo /\ timers' = timers /\ ticks' = ticks
    BY <1>3 DEF EndOfSession
  <2>2. Wakes
    BY <1>1, <2>1 DEF Wakes, Idle
  <2>3. Flags'
    BY <1>1, <2>1 DEF Typed, Flags
  <2>4. TypedTodo(todo', objs', pps') /\ TypedTimers(timers', objs')
    BY <1>1, <2>1 DEF Typed
  <2> QED BY <1>2, <2>2, <2>3, <2>4 DEF Typed
<1>4. CASE Tick
  <2>1. link' = link /\ ticks < MaxTicks /\ ticks' = ticks + 1
    BY <1>4 DEF Tick
  <2>2. PICK i \in DOMAIN timers : timers' = RemoveAt(timers, i)
                                   /\ todo' = Calls(timers[i][1], << do(timers[i][2]) >>)
    BY <1>4 DEF Tick
  <2>3. Flags'
    <3>1. ticks \in 0 .. MaxTicks /\ MaxTicks \in Nat
      BY ScriptsAssumption DEF Typed, Flags
    <3>2. ticks' \in 0 .. MaxTicks
      BY <2>1, <3>1
    <3> QED BY <1>1, <2>1, <3>2 DEF Typed, Flags
  <2>4. /\ Listed(timers) /\ DOMAIN timers = 1 .. Len(timers)
        /\ \A k \in DOMAIN timers :
             timers[k][1] \in DOMAIN objs /\ objs[timers[k][1]].cls # "shell" /\ timers[k][2] \in Methods
    BY ListedShape DEF Typed, TypedTimers
  <2>5. TypedTimers(timers', objs')
    <3>1. /\ Listed(timers') /\ Len(timers') = Len(timers) - 1
          /\ \A j \in 1 .. Len(timers) - 1 : \E k \in 1 .. Len(timers) : timers'[j] = timers[k]
      <4>1. i \in 1 .. Len(timers) /\ Listed(timers)
        BY <2>4
      <4>2. /\ Listed(RemoveAt(timers, i)) /\ Len(RemoveAt(timers, i)) = Len(timers) - 1
            /\ \A j \in 1 .. Len(timers) - 1 : \E k \in 1 .. Len(timers) : RemoveAt(timers, i)[j] = timers[k]
        BY <4>1, ListedRemoved
      <4> QED BY <2>2, <4>2
    <3>2. DOMAIN timers' = 1 .. Len(timers) - 1
      BY <3>1, ListedShape
    <3> QED BY <1>1, <2>4, <3>1, <3>2 DEF TypedTimers
  <2> DEFINE w == timers[i][1]
             o == do(timers[i][2])
  <2>6. o[1] = "do" /\ o[2] \in Methods /\ w \in DOMAIN objs' /\ objs'[w].cls # "shell"
    BY <1>1, <2>4 DEF do
  <2>7. todo' = Calls(w, << o >>)
    BY <2>2
  <2> HIDE DEF w, o
  <2>8. FrameOK([who |-> w, op |-> o], objs', pps')
    BY <2>6 DEF FrameOK, CommandOp
  <2>9. TypedTodo(todo', objs', pps')
    BY <2>7, <2>8, OneCall
  <2>10. Wakes
    BY <1>1, <2>1, <2>6, <2>7 DEF Wakes
  <2> QED BY <1>2, <2>3, <2>5, <2>9, <2>10 DEF Typed
<1> QED BY <1>3, <1>4

LEMMA LostStep ==
  ASSUME Typed, ConnectionLost
  PROVE  Typed'
<1>1. /\ link' = "gone" /\ cmdstack' = << >> /\ pp' = 0 /\ reading' = FALSE
      /\ UNCHANGED << script, typed, ticks, todo, objs, pps, timers, password_input, past >>
  BY DEF ConnectionLost
<1>2. Flags'
  BY <1>1 DEF Typed, Flags
<1>3. TypedStack(cmdstack', objs')
  BY <1>1, ListedEmpty DEF TypedStack
<1>4. pp' \in 0 .. Len(pps')
  <2>1. Len(pps) \in Nat
    BY ListedShape DEF Typed, TypedPipes
  <2> QED BY <1>1, <2>1
<1> QED BY <1>1, <1>2, <1>3, <1>4 DEF Typed

LEMMA SomeStep ==
  ASSUME Typed, Step
  PROVE  /\ Typed'
         /\ \/ Proceeds \/ Opens \/ Thrown \/ Leave
            \/ Pop /\ cmdstack # << >>
            \/ \E e, course : ObjOK(e, pps) /\ Enters(e, course)
<1>1. CASE LineReceived \/ RunItem \/ RunNothing \/ RunOrPrompt \/ CallNone
  BY <1>1, LineStep, ItemStep, ShellSteps, CallNoneStep
<1>2. CASE Launch \/ Construct \/ CallEnd \/ Course \/ WriteToPipe
  BY <1>2, LaunchStep, ConstructStep, CallEndStep, CourseStep, WriteStep
<1>3. CASE WriteToFile \/ RegisterRedir \/ RaiseHere \/ Guarded \/ ProcessEnded \/ UseTerminal \/ Echo
           \/ OnTree \/ ChangeDir \/ Mkfile \/ Link \/ Fill \/ CutHeader
  BY <1>3, StillSteps
<1>4. CASE CallLater \/ Cancel \/ Await \/ Answer \/ Queue \/ InsertCommand \/ Temp \/ Keep \/ Move
  BY <1>4, TimerSteps, AwaitSteps, QueueStep, InsertStep, FileSteps
<1>5. CASE Leave \/ PushShell \/ Pop
  BY <1>5, LeaveStep, ShellStep, PopStep
<1> QED BY <1>1, <1>2, <1>3, <1>4, <1>5 DEF Step

\* The first state of a session
LEMMA InitTyped ==
  ASSUME Init
  PROVE  Typed
<1> DEFINE e == Shell(~script.exec)
<1>1. script \in ScriptType /\ (script.exec => script.lines # << >>) /\ MaxTicks \in Nat
  BY ScriptsAssumption DEF Init
<1>2. script.lines \in Seq(Lines) /\ script.exec \in BOOLEAN
  BY <1>1 DEF ScriptType
<1>3. /\ DOMAIN e = ObjFields /\ e.cls = "shell" /\ e.pp = 0 /\ e.pending = << >> /\ e.left = FALSE
  BY DEF Shell, ObjFields
<1>4. objs = << e >> /\ pps = << >>
  BY DEF Init
<1>5. Listed(pps) /\ Len(pps) = 0 /\ DOMAIN pps = {} /\ Listed(timers) /\ DOMAIN timers = {}
  BY <1>4, ListedEmpty DEF Init
<1>6. ObjOK(e, pps)
  <2>1. PendingOK(e.pending)
    BY <1>3, ItemsTyped
  <2> HIDE DEF e
  <2>2. 0 \in 0 .. Len(pps)
    BY <1>5
  <2>3. e.pp \in 0 .. Len(pps)
    BY <1>3, <2>2
  <2>4. e.left \in BOOLEAN
    BY <1>3
  <2> QED BY <1>3, <2>1, <2>3, <2>4 DEF ObjOK
<1> HIDE DEF e
<1>7. Listed(objs) /\ Len(objs) = 1 /\ objs[1] = e /\ Listed(<< 1 >>) /\ Len(<< 1 >>) = 1 /\ << 1 >>[1] = 1
  BY <1>4, ListedSingle
<1>8. DOMAIN objs = 1 .. 1 /\ \A o \in 1 .. 1 : o = 1
  BY <1>7, ListedShape
<1>9. TypedObjs(objs, pps) /\ TypedPipes(pps) /\ TypedTimers(timers, objs)
  BY <1>5, <1>6, <1>7, <1>8 DEF TypedObjs, TypedPipes, TypedTimers
<1>10. TypedStack(cmdstack, objs)
  <2>1. cmdstack = << 1 >>
    BY DEF Init
  <2>2. DOMAIN cmdstack = 1 .. 1
    BY <1>7, <2>1, ListedShape
  <2> QED BY <1>7, <1>8, <2>1, <2>2 DEF TypedStack
<1>11. pp \in 0 .. Len(pps)
  BY <1>5 DEF Init
<1>12. Flags
  <2>1. typed \in Lines
    BY ItemsTyped DEF Init, Lines
  <2>2. DOMAIN past = {"strays", "deaths", "appended"}
    BY DEF Init
  <2>3. link = "up" /\ reading = FALSE /\ ticks = 0 /\ password_input = FALSE /\ script \in Scripts
    BY DEF Init
  <2>4. ticks \in 0 .. MaxTicks
    BY <1>1, <2>3
  <2> QED BY <1>1, <2>1, <2>2, <2>3, <2>4 DEF Flags
<1>13. TypedTodo(todo, objs, pps)
  <2>1. CASE script.exec
    <3> DEFINE o == << "line", Head(script.lines) >>
    <3>1. todo = Calls(1, << o >>)
      BY <2>1 DEF Init
    <3>2. Head(script.lines) \in Lines
      BY <1>1, <1>2, <2>1, HeadTailProperties
    <3>3. o[1] = "line" /\ o[2] \in Lines
      BY <3>2
    <3> HIDE DEF o
    <3>4. FrameOK([who |-> 1, op |-> o], objs, pps)
      BY <1>3, <1>7, <1>8, <3>3 DEF FrameOK, ShellOp
    <3> QED BY <3>1, <3>4, OneCall
  <2>2. CASE ~script.exec
    <3>1. todo = << >>
      BY <2>2 DEF Init
    <3> QED BY <3>1, NoCalls
  <2> QED BY <2>1, <2>2
<1> QED BY <1>9, <1>10, <1>11, <1>12, <1>13 DEF Typed

LEMMA Stutters ==
  ASSUME Typed, UNCHANGED vars
  PROVE  Typed'
<1>1. UNCHANGED << session, link, todo, stack, timers, password_input, past >>
  BY DEF vars
<1>2. Flags'
  BY <1>1 DEF Typed, Flags, session
<1> QED BY <1>1, <1>2 DEF Typed, stack

\* The shape of the state is as it should be, in every state of every session: each
\* call in progress is one its object can make, of a pipe that is there.
THEOREM AlwaysTyped == Spec => []Typed
<1>1. Init => Typed
  BY InitTyped
<1>2. Typed /\ [Next]_vars => Typed'
  <2> SUFFICES ASSUME Typed, [Next]_vars PROVE Typed'
    OBVIOUS
  <2>1. CASE Step
    BY <2>1, SomeStep
  <2>2. CASE Event
    BY <2>2, KeySteps, InputStep, OtherWakes, LostStep DEF Event
  <2>3. CASE UNCHANGED vars
    BY <2>3, Stutters
  <2> QED BY <2>1, <2>2, <2>3 DEF Next
<1> QED BY <1>1, <1>2, PTL DEF Spec

LEMMA TypedMeans == Typed => TypeOK
<1> SUFFICES ASSUME Typed PROVE TypeOK
  OBVIOUS
<1>1. link \in {"up", "ended", "broken", "gone"} /\ reading \in BOOLEAN
      /\ password_input \in BOOLEAN /\ ticks \in 0..MaxTicks /\ pp \in 0..Len(pps)
  BY DEF Typed, Flags
<1>2. cmdstack \in Seq(DOMAIN objs)
  <2>1. PICK S : cmdstack \in Seq(S)
    BY DEF Typed, TypedStack, Listed
  <2>2. \A i \in 1 .. Len(cmdstack) : cmdstack[i] \in DOMAIN objs
    BY <2>1 DEF Typed, TypedStack
  <2> QED BY <2>1, <2>2
<1>3. /\ \A i \in DOMAIN todo : todo[i].who \in DOMAIN objs
      /\ \A i \in DOMAIN timers : timers[i][1] \in DOMAIN objs
  BY DEF Typed, TypedTodo, TypedTimers, FrameOK
<1>4. \A p \in DOMAIN pps : pps[p].next \in 0..Len(pps)
  <2>1. DOMAIN pps = 1 .. Len(pps) /\ Len(pps) \in Nat /\ \A p \in DOMAIN pps : PipeOK(pps[p], pps)
    BY ListedShape DEF Typed, TypedPipes
  <2> QED BY <2>1 DEF PipeOK, KnownPipe
<1>5. \A o \in DOMAIN objs : objs[o].pp \in 0..Len(pps)
  BY DEF Typed, TypedObjs, ObjOK
<1> QED BY <1>1, <1>2, <1>3, <1>4, <1>5 DEF TypeOK

-----------------------------------------------------------------------------
(* The order of the stack and of the calls in progress                     *)

\* x is on the stack cs.
On(x, cs) == \E k \in DOMAIN cs : cs[k] = x

\* Nothing on it is above w.
Highest(w, cs) == \A x \in Nat : On(x, cs) => x <= w

\* A later shell or command is above an earlier one.
Rising == \A k, l \in DOMAIN cmdstack : k < l => cmdstack[k] < cmdstack[l]

\* An inner call is of something as high on the stack as an outer one's, if both are
\* on it.
Nested ==
  \A i, j \in DOMAIN todo :
    i < j /\ On(todo[i].who, cmdstack) /\ On(todo[j].who, cmdstack) => todo[i].who >= todo[j].who

\* A session that is gone has no stack, and calls no command.
Gone == link = "gone" => cmdstack = << >> /\ \A i \in DOMAIN todo : todo[i].op[1] # "construct"

\* As long as no command has popped another, one that has not left is on the stack,
Accounted ==
  link # "gone" /\ past.strays = {} =>
    \A o \in DOMAIN objs : objs[o].cls # "shell" => objs[o].left \/ On(o, cmdstack)

\* ... and the session's shell is at the bottom.
Bottom ==
  link # "gone" /\ past.strays = {} => cmdstack # << >> /\ cmdstack[1] = 1 /\ objs[1].cls = "shell"

\* What only the top of the stack does, first of all calls: sh has its pop next.
TopOnly(o) == o[1] \in {"shell", "queue"} \/ (o[1] = "do" /\ o[2] \in {"start", "call", "lineReceived"})
OnlyTop ==
  \A i \in DOMAIN todo : TopOnly(todo[i].op) =>
    /\ i = 1 /\ cmdstack # << >> /\ todo[i].who = Last(cmdstack)
    /\ todo[i].op[1] = "shell" => Len(todo) > 1 /\ todo[2].who = todo[1].who /\ todo[2].op[1] = "pop"

\* The pop of a command sh is the last of its calls, and the shell's push the one before.
PopLast ==
  \A i, j \in DOMAIN todo :
    i < j /\ todo[j].op[1] = "pop" /\ todo[i].who = todo[j].who => todo[i].op[1] = "shell"

\* A shell above the first will be popped by the command it is above, unless that died.
ShellsPopped ==
  past.strays = {} /\ past.deaths = {} /\ link # "gone" =>
    \A k \in DOMAIN cmdstack : k > 1 /\ IsShell(cmdstack[k]) =>
      \E i \in DOMAIN todo : todo[i].who = cmdstack[k - 1] /\ todo[i].op[1] = "pop"

\* A shell on top with items pending is at work on them.
PendingRuns ==
  past.strays = {} /\ past.deaths = {} /\ link # "gone" /\ cmdstack # << >> /\ IsShell(Last(cmdstack))
    /\ objs[Last(cmdstack)].pending # << >> =>
      \E i \in DOMAIN todo : todo[i].who = Last(cmdstack) /\ todo[i].op[1] \in Working

\* The inductive invariant, with Typed
Ordered ==
  /\ Rising /\ Nested /\ Gone /\ Accounted /\ Bottom /\ OnlyTop /\ PopLast
  /\ ShellsPopped /\ PendingRuns

-----------------------------------------------------------------------------
(* A step drops the first k calls and begins a course of w                 *)

Follows(w, course, k) ==
  /\ Listed(course) /\ k \in 0 .. Len(todo) /\ Listed(todo') /\ Len(todo') = Len(course) + Len(todo) - k
  /\ \A j \in 1 .. Len(course) : todo'[j] = [who |-> w, op |-> course[j]]
  /\ \A j \in 1 .. Len(todo') : j > Len(course) =>
       j - Len(course) + k \in k + 1 .. Len(todo) /\ todo'[j] = todo[j - Len(course) + k]
  /\ \A i \in k + 1 .. Len(todo) :
       i - k + Len(course) \in 1 .. Len(todo') /\ todo'[i - k + Len(course)] = todo[i]

LEMMA FollowsOn ==
  ASSUME Listed(todo), todo # << >>, NEW w, NEW course, Listed(course),
         todo' = Calls(w, course) \o Tail(todo)
  PROVE  Follows(w, course, 1)
<1>1. /\ Listed(todo') /\ Len(todo') = Len(course) + Len(todo) - 1
      /\ \A j \in 1 .. Len(course) : todo'[j] = [who |-> w, op |-> course[j]]
      /\ \A i \in 2 .. Len(todo) : todo'[Len(course) + i - 1] = todo[i]
      /\ \A j \in 1 .. Len(todo') : j > Len(course) =>
           j - Len(course) + 1 \in 2 .. Len(todo) /\ todo'[j] = todo[j - Len(course) + 1]
  BY WentOn
<1>2. Len(todo) \in Nat /\ Len(todo) >= 1 /\ Len(course) \in Nat
  BY ListedShape, ListedTail
<1>3. ASSUME NEW i \in 2 .. Len(todo)
      PROVE  i - 1 + Len(course) \in 1 .. Len(todo') /\ todo'[i - 1 + Len(course)] = todo[i]
  <2>1. i - 1 + Len(course) = Len(course) + i - 1 /\ i - 1 + Len(course) \in 1 .. Len(todo')
    BY <1>1, <1>2
  <2> QED BY <1>1, <2>1
<1>4. 1 \in 0 .. Len(todo) /\ 1 + 1 = 2
  BY <1>2
<1> QED BY <1>1, <1>3, <1>4 DEF Follows

LEMMA FollowsCaught ==
  ASSUME Listed(todo), NEW i \in 2 .. Len(todo), Caught(i)
  PROVE  Follows(todo[i].who, << do(todo[i].op[2]) >>, i)
<1> DEFINE course == << do(todo[i].op[2]) >>
<1>1. /\ Listed(todo') /\ Len(todo') = Len(todo) - i + 1
      /\ todo'[1] = [who |-> todo[i].who, op |-> do(todo[i].op[2])]
      /\ \A k \in i + 1 .. Len(todo) : todo'[k - i + 1] = todo[k]
      /\ \A j \in 2 .. Len(todo') : i + j - 1 \in i + 1 .. Len(todo) /\ todo'[j] = todo[i + j - 1]
  BY CaughtTodo
<1>2. Listed(course) /\ Len(course) = 1 /\ course[1] = do(todo[i].op[2])
  BY ListedSingle
<1>3. Len(todo) \in Nat
  BY ListedShape
<1> HIDE DEF course
<1>4. \A j \in 1 .. Len(course) : todo'[j] = [who |-> todo[i].who, op |-> course[j]]
  BY <1>1, <1>2
<1>5. ASSUME NEW j \in 1 .. Len(todo'), j > Len(course)
      PROVE  j - Len(course) + i \in i + 1 .. Len(todo) /\ todo'[j] = todo[j - Len(course) + i]
  <2>1. j \in 2 .. Len(todo') /\ j - Len(course) + i = i + j - 1
    BY <1>1, <1>2, <1>3, <1>5
  <2> QED BY <1>1, <2>1
<1>6. ASSUME NEW k \in i + 1 .. Len(todo)
      PROVE  k - i + Len(course) \in 1 .. Len(todo') /\ todo'[k - i + Len(course)] = todo[k]
  <2>1. k - i + Len(course) \in 1 .. Len(todo') /\ k - i + Len(course) = k - i + 1
    BY <1>1, <1>2, <1>3
  <2> QED BY <1>1, <2>1
<1>7. i \in 0 .. Len(todo) /\ Len(todo') = Len(course) + Len(todo) - i
  BY <1>1, <1>2, <1>3
<1>8. Follows(todo[i].who, course, i)
  BY <1>1, <1>2, <1>4, <1>5, <1>6, <1>7 DEF Follows
<1> QED BY <1>8 DEF course

LEMMA FollowsNone ==
  ASSUME Listed(todo), todo' = << >>, NEW w
  PROVE  Follows(w, << >>, Len(todo))
<1>1. Listed(<< >>) /\ Len(<< >>) = 0
  BY ListedEmpty
<1>2. Len(todo) \in Nat
  BY ListedShape
<1>3. Len(todo) \in 0 .. Len(todo) /\ Len(todo') = Len(<< >>) + Len(todo) - Len(todo)
  BY <1>1, <1>2
<1>4. \A j \in 1 .. Len(todo') : FALSE
  BY <1>1
<1>5. \A j \in 1 .. Len(<< >>) : FALSE
  BY <1>1
<1>6. \A i \in Len(todo) + 1 .. Len(todo) : FALSE
  BY <1>2
<1> QED BY <1>1, <1>3, <1>4, <1>5, <1>6 DEF Follows

LEMMA FollowsWake ==
  ASSUME Idle, NEW w, NEW course, Listed(course), todo' = Calls(w, course)
  PROVE  Follows(w, course, 0)
<1>1. /\ Listed(todo') /\ Len(todo') = Len(course)
      /\ \A j \in 1 .. Len(course) : todo'[j] = [who |-> w, op |-> course[j]]
  BY Began
<1>2. Len(todo) = 0 /\ Len(course) \in Nat
  BY ListedEmpty, ListedShape DEF Idle
<1>3. 0 \in 0 .. Len(todo) /\ Len(todo') = Len(course) + Len(todo) - 0
  BY <1>1, <1>2
<1>4. \A j \in 1 .. Len(todo') : ~(j > Len(course))
  BY <1>1, <1>2
<1>5. \A i \in 0 + 1 .. Len(todo) : FALSE
  BY <1>2
<1> QED BY <1>1, <1>3, <1>4, <1>5 DEF Follows

\* A call of those in progress is begun, or was there; two are in the order they had.
LEMMA FollowsFrames ==
  ASSUME Listed(todo), NEW w, NEW course, NEW k, Follows(w, course, k)
  PROVE  /\ Len(course) \in Nat /\ Len(todo) \in Nat /\ k \in 0 .. Len(todo)
         /\ DOMAIN todo = 1 .. Len(todo) /\ DOMAIN todo' = 1 .. Len(todo') /\ Len(todo') \in Nat
  BY ListedShape DEF Follows

LEMMA FollowsNew ==
  ASSUME Listed(todo), NEW w, NEW course, NEW k, Follows(w, course, k), NEW j \in 1 .. Len(course)
  PROVE  j \in DOMAIN todo' /\ todo'[j].who = w /\ todo'[j].op = course[j] /\ course # << >>
<1>1. todo'[j] = [who |-> w, op |-> course[j]]
  BY DEF Follows
<1>2. j \in DOMAIN todo'
  BY FollowsFrames DEF Follows
<1>3. course # << >>
  BY ListedEmpty
<1> QED BY <1>1, <1>2, <1>3

LEMMA FollowsOld ==
  ASSUME Listed(todo), NEW w, NEW course, NEW k, Follows(w, course, k), NEW i \in DOMAIN todo, i > k
  PROVE  \E j \in DOMAIN todo' : todo'[j] = todo[i]
<1>1. i \in k + 1 .. Len(todo)
  BY FollowsFrames
<1>2. i - k + Len(course) \in 1 .. Len(todo') /\ todo'[i - k + Len(course)] = todo[i]
  BY <1>1 DEF Follows
<1> QED BY <1>2, FollowsFrames

\* The calls of a step: those of the course, and those there were
Was(j, b, k) == b \in DOMAIN todo /\ b > k /\ todo'[j] = todo[b]

LEMMA FollowsOne ==
  ASSUME Listed(todo), NEW w, NEW course, NEW k, Follows(w, course, k), NEW j \in DOMAIN todo'
  PROVE  \/ j \in 1 .. Len(course)
         \/ j > Len(course) /\ Was(j, j - Len(course) + k, k)
<1>1. /\ Len(course) \in Nat /\ Len(todo) \in Nat /\ k \in 0 .. Len(todo)
      /\ DOMAIN todo = 1 .. Len(todo) /\ j \in 1 .. Len(todo') /\ Len(todo') \in Nat
  BY FollowsFrames
<1>2. CASE j > Len(course)
  <2>1. j - Len(course) + k \in k + 1 .. Len(todo) /\ todo'[j] = todo[j - Len(course) + k]
    BY <1>1, <1>2 DEF Follows
  <2>2. j - Len(course) + k \in DOMAIN todo /\ j - Len(course) + k > k
    BY <1>1, <2>1
  <2> QED BY <1>2, <2>1, <2>2 DEF Was
<1>3. CASE ~(j > Len(course))
  BY <1>1, <1>3
<1> QED BY <1>2, <1>3

LEMMA FollowsPair ==
  ASSUME Listed(todo), NEW w, NEW course, NEW k, Follows(w, course, k),
         NEW i \in DOMAIN todo', NEW j \in DOMAIN todo', i < j
  PROVE  \/ i \in 1 .. Len(course) /\ j \in 1 .. Len(course)
         \/ i \in 1 .. Len(course) /\ \E b : Was(j, b, k)
         \/ \E a, b : a < b /\ Was(i, a, k) /\ Was(j, b, k)
<1>1. Len(course) \in Nat /\ k \in Nat /\ i \in Nat /\ j \in Nat
  BY FollowsFrames
<1>2. \/ i \in 1 .. Len(course)
      \/ i > Len(course) /\ Was(i, i - Len(course) + k, k)
  BY FollowsOne
<1>3. \/ j \in 1 .. Len(course)
      \/ j > Len(course) /\ Was(j, j - Len(course) + k, k)
  BY FollowsOne
<1>4. i - Len(course) + k < j - Len(course) + k
  BY <1>1
<1>5. i > Len(course) => j > Len(course)
  BY <1>1
<1>6. j > Len(course) => j \notin 1 .. Len(course)
  BY <1>1
<1> QED BY <1>2, <1>3, <1>4, <1>5, <1>6

\* One of the calls dropped was of w.
Dropped(w, k) == \E m \in DOMAIN todo : m \in 1 .. k /\ todo[m].who = w

\* What is begun does not come before a call of something higher.
Heads(w, course, k) ==
  course = << >> \/ k >= Len(todo) \/ Highest(w, cmdstack') \/ Dropped(w, k)

LEMMA NestedKept ==
  ASSUME Typed, Typed', Nested, NEW w, NEW course, NEW k, Follows(w, course, k),
         Heads(w, course, k), \A x \in DOMAIN objs : On(x, cmdstack') => On(x, cmdstack)
  PROVE  Nested'
<1>1. Listed(todo) /\ Len(todo) \in Nat /\ k \in Nat /\ DOMAIN todo = 1 .. Len(todo)
  BY FollowsFrames DEF Typed, TypedTodo
<1>2. \A b \in DOMAIN todo : todo[b].who \in DOMAIN objs
  BY DEF Typed, TypedTodo, FrameOK
<1>3. \A x : On(x, cmdstack') => x \in Nat
  <2>1. DOMAIN objs' = 1 .. Len(objs')
    BY ListedShape DEF Typed, TypedObjs
  <2> QED BY <2>1 DEF Typed, TypedStack, On
<1>4. SUFFICES ASSUME NEW i \in DOMAIN todo', NEW j \in DOMAIN todo', i < j,
                      On(todo'[i].who, cmdstack'), On(todo'[j].who, cmdstack')
               PROVE  todo'[i].who >= todo'[j].who
  BY DEF Nested
<1>5. CASE i \in 1 .. Len(course) /\ j \in 1 .. Len(course)
  <2>1. todo'[i].who = w /\ todo'[j].who = w
    BY <1>1, <1>5, FollowsNew
  <2> QED BY <1>3, <1>4, <2>1
<1>6. ASSUME i \in 1 .. Len(course), NEW b, Was(j, b, k)
      PROVE  todo'[i].who >= todo'[j].who
  <2>1. todo'[i].who = w /\ course # << >>
    BY <1>1, <1>6, FollowsNew
  <2>2. b \in DOMAIN todo /\ b > k /\ todo'[j] = todo[b]
    BY <1>6 DEF Was
  <2>6. \A m \in DOMAIN todo : m \in Nat /\ m <= Len(todo)
    BY <1>1
  <2>7. b \in Nat /\ b <= Len(todo) /\ b > k
    BY <2>2, <2>6
  <2>3. ~(k >= Len(todo))
    BY <1>1, <2>7
  <2>4. CASE Highest(w, cmdstack')
    <3>1. todo'[j].who <= w /\ todo'[j].who \in Nat /\ w \in Nat
      BY <1>3, <1>4, <2>1, <2>4 DEF Highest
    <3> QED BY <2>1, <3>1
  <2>5. CASE Dropped(w, k)
    <3>0. PICK m \in DOMAIN todo : m \in 1 .. k /\ todo[m].who = w
      BY <2>5 DEF Dropped
    <3>1. m < b
      <4>1. m \in Nat /\ m <= k
        BY <3>0
      <4> QED BY <1>1, <2>7, <4>1
    <3>2. On(todo[m].who, cmdstack) /\ On(todo[b].who, cmdstack)
      BY <1>2, <1>4, <2>1, <2>2, <3>0
    <3>3. todo[m].who >= todo[b].who
      BY <2>2, <3>1, <3>2 DEF Nested
    <3> QED BY <2>1, <2>2, <3>0, <3>3
  <2> QED BY <2>1, <2>3, <2>4, <2>5 DEF Heads
<1>7. ASSUME NEW a, NEW b, a < b, Was(i, a, k), Was(j, b, k)
      PROVE  todo'[i].who >= todo'[j].who
  <2>1. /\ a \in DOMAIN todo /\ b \in DOMAIN todo
        /\ todo'[i] = todo[a] /\ todo'[j] = todo[b]
    BY <1>7 DEF Was
  <2>2. On(todo[a].who, cmdstack) /\ On(todo[b].who, cmdstack)
    BY <1>2, <1>4, <2>1
  <2>3. todo[a].who >= todo[b].who
    BY <1>7, <2>1, <2>2 DEF Nested
  <2> QED BY <2>1, <2>3
<1> QED BY <1>1, <1>4, <1>5, <1>6, <1>7, FollowsPair

LEMMA OnlyTopKept ==
  ASSUME Typed, OnlyTop, NEW w, NEW course, NEW k, Follows(w, course, k), k >= 1 \/ Idle,
         \A j \in 1 .. Len(course) : TopOnly(course[j]) =>
           /\ j = 1 /\ cmdstack' # << >> /\ w = Last(cmdstack')
           /\ course[j][1] = "shell" => Len(course) > 1 /\ course[2][1] = "pop"
  PROVE  OnlyTop'
<1>1. Listed(todo) /\ k \in Nat /\ Len(course) \in Nat /\ Len(todo') \in Nat /\ DOMAIN todo' = 1 .. Len(todo')
  BY FollowsFrames DEF Typed, TypedTodo
<1>2. SUFFICES ASSUME NEW j \in DOMAIN todo', TopOnly(todo'[j].op)
               PROVE  /\ j = 1 /\ cmdstack' # << >> /\ todo'[j].who = Last(cmdstack')
                      /\ todo'[j].op[1] = "shell" =>
                           Len(todo') > 1 /\ todo'[2].who = todo'[1].who /\ todo'[2].op[1] = "pop"
  BY DEF OnlyTop
<1>3. CASE j \in 1 .. Len(course)
  <2>1. todo'[j].who = w /\ todo'[j].op = course[j]
    BY <1>1, <1>3, FollowsNew
  <2>2. /\ j = 1 /\ cmdstack' # << >> /\ w = Last(cmdstack')
        /\ course[j][1] = "shell" => Len(course) > 1 /\ course[2][1] = "pop"
    BY <1>2, <1>3, <2>1
  <2>3. ASSUME course[j][1] = "shell"
        PROVE  Len(todo') > 1 /\ todo'[2].who = todo'[1].who /\ todo'[2].op[1] = "pop"
    <3>1. 2 \in 1 .. Len(course) /\ course[2][1] = "pop"
      BY <1>1, <2>2, <2>3
    <3>2. 2 \in DOMAIN todo' /\ todo'[2].who = w /\ todo'[2].op = course[2]
      BY <1>1, <3>1, FollowsNew
    <3>3. Len(todo') > 1
      BY <1>1, <3>2
    <3> QED BY <2>1, <2>2, <3>1, <3>2, <3>3
  <2> QED BY <2>1, <2>2, <2>3
<1>4. ASSUME NEW b, Was(j, b, k) PROVE FALSE
  <2>1. b \in DOMAIN todo /\ b > k /\ todo'[j] = todo[b]
    BY <1>4 DEF Was
  <2>2. b = 1
    BY <1>2, <2>1 DEF OnlyTop
  <2>3. todo # << >>
    BY <2>1, ListedEmpty
  <2> QED BY <1>1, <2>1, <2>2, <2>3 DEF Idle
<1> QED BY <1>1, <1>3, <1>4, FollowsOne

LEMMA PopLastKept ==
  ASSUME Typed, PopLast, NEW w, NEW course, NEW k, Follows(w, course, k),
         \A j \in 1 .. Len(course) : course[j][1] = "pop" => j = 2 /\ course[1][1] = "shell",
         course = << >> \/ \A b \in DOMAIN todo : b > k /\ todo[b].op[1] = "pop" => todo[b].who # w
  PROVE  PopLast'
<1>1. Listed(todo) /\ k \in Nat /\ Len(course) \in Nat
  BY FollowsFrames DEF Typed, TypedTodo
<1>2. SUFFICES ASSUME NEW i \in DOMAIN todo', NEW j \in DOMAIN todo', i < j,
                      todo'[j].op[1] = "pop", todo'[i].who = todo'[j].who
               PROVE  todo'[i].op[1] = "shell"
  BY DEF PopLast
<1>3. CASE i \in 1 .. Len(course) /\ j \in 1 .. Len(course)
  <2>1. todo'[i].op = course[i] /\ todo'[j].op = course[j]
    BY <1>1, <1>3, FollowsNew
  <2>2. j = 2 /\ course[1][1] = "shell"
    BY <1>2, <1>3, <2>1
  <2>3. i = 1
    BY <1>1, <1>2, <1>3, <2>2
  <2> QED BY <2>1, <2>2, <2>3
<1>4. ASSUME i \in 1 .. Len(course), NEW b, Was(j, b, k) PROVE FALSE
  <2>1. todo'[i].who = w /\ course # << >>
    BY <1>1, <1>4, FollowsNew
  <2>2. b \in DOMAIN todo /\ b > k /\ todo'[j] = todo[b]
    BY <1>4 DEF Was
  <2> QED BY <1>2, <2>1, <2>2
<1>5. ASSUME NEW a, NEW b, a < b, Was(i, a, k), Was(j, b, k)
      PROVE  todo'[i].op[1] = "shell"
  <2>1. /\ a \in DOMAIN todo /\ b \in DOMAIN todo
        /\ todo'[i] = todo[a] /\ todo'[j] = todo[b]
    BY <1>5 DEF Was
  <2> QED BY <1>2, <1>5, <2>1 DEF PopLast
<1> QED BY <1>1, <1>2, <1>3, <1>4, <1>5, FollowsPair

LEMMA GoneKept ==
  ASSUME Typed, Gone, NEW w, NEW course, NEW k, Follows(w, course, k), link' = "gone" <=> link = "gone",
         cmdstack = << >> => cmdstack' = << >>,
         \A j \in 1 .. Len(course) : course[j][1] = "construct" => cmdstack # << >>
  PROVE  Gone'
<1>1. Listed(todo)
  BY DEF Typed, TypedTodo
<1>2. SUFFICES ASSUME link = "gone" PROVE cmdstack' = << >> /\ \A i \in DOMAIN todo' : todo'[i].op[1] # "construct"
  BY DEF Gone
<1>3. cmdstack = << >> /\ cmdstack' = << >>
  BY <1>2 DEF Gone
<1>4. ASSUME NEW j \in DOMAIN todo' PROVE todo'[j].op[1] # "construct"
  <2>1. CASE j \in 1 .. Len(course)
    <3>1. todo'[j].op = course[j]
      BY <1>1, <2>1, FollowsNew
    <3> QED BY <1>3, <2>1, <3>1
  <2>2. ASSUME NEW b, Was(j, b, k) PROVE todo'[j].op[1] # "construct"
    BY <1>2, <2>2 DEF Gone, Was
  <2> QED BY <1>1, <2>1, <2>2, FollowsOne
<1> QED BY <1>3, <1>4

-----------------------------------------------------------------------------
(* Steps that leave the stack as it is                                     *)

LEMMA HeadIs ==
  ASSUME Typed, todo # << >>
  PROVE  /\ Listed(todo) /\ Len(todo) \in Nat /\ DOMAIN todo = 1 .. Len(todo) /\ 1 \in DOMAIN todo
         /\ todo[1].who = me /\ todo[1].op = op /\ me \in DOMAIN objs
         /\ \A b \in DOMAIN todo : b \in Nat /\ b >= 1 /\ (b <= 1 => b = 1)
         /\ Dropped(me, 1)
<1>1. /\ Listed(todo) /\ Len(todo) \in Nat /\ DOMAIN todo = 1 .. Len(todo) /\ 1 \in DOMAIN todo
      /\ Head(todo) = todo[1] /\ me \in DOMAIN objs
  BY HeadCall
<1>2. todo[1].who = me /\ todo[1].op = op
  BY <1>1 DEF me, op
<1>3. \A b \in DOMAIN todo : b \in Nat /\ b >= 1 /\ (b <= 1 => b = 1)
  BY <1>1
<1>4. Dropped(me, 1)
  <2>1. 1 \in 1 .. 1
    OBVIOUS
  <2> QED BY <1>1, <1>2, <2>1 DEF Dropped
<1> QED BY <1>1, <1>2, <1>3, <1>4

LEMMA SameStack ==
  ASSUME Typed, Rising, Accounted, Bottom, cmdstack' = cmdstack, Alike,
         past'.strays = past.strays, link' = "gone" <=> link = "gone"
  PROVE  /\ Rising' /\ Accounted' /\ Bottom'
         /\ \A x : On(x, cmdstack') <=> On(x, cmdstack)
         /\ \A k \in DOMAIN cmdstack : IsShell(cmdstack[k])' <=> IsShell(cmdstack[k])
<1>1. Rising'
  BY DEF Rising
<1>2. \A x : On(x, cmdstack') <=> On(x, cmdstack)
  OBVIOUS
<1>3. Accounted'
  BY <1>2 DEF Accounted, Alike
<1>4. \A k \in DOMAIN cmdstack : cmdstack[k] \in DOMAIN objs
  BY DEF Typed, TypedStack
<1>5. \A k \in DOMAIN cmdstack : IsShell(cmdstack[k])' <=> IsShell(cmdstack[k])
  BY <1>4 DEF Alike, IsShell
<1>6. Bottom'
  <2> SUFFICES ASSUME link # "gone", past.strays = {} PROVE cmdstack # << >> /\ cmdstack[1] = 1 /\ objs'[1].cls = "shell"
    BY DEF Bottom
  <2>1. cmdstack # << >> /\ cmdstack[1] = 1 /\ objs[1].cls = "shell"
    BY DEF Bottom
  <2>2. 1 \in DOMAIN objs
    BY <1>4, <2>1, TopIs
  <2> QED BY <2>1, <2>2 DEF Alike
<1> QED BY <1>1, <1>2, <1>3, <1>5, <1>6

LEMMA ShellsSame ==
  ASSUME Typed, Rising, Accounted, Bottom, ShellsPopped, cmdstack' = cmdstack, Alike,
         past'.strays = past.strays, link' = "gone" <=> link = "gone",
         NEW w, NEW course, NEW k, Follows(w, course, k),
         past'.deaths = {} => past.deaths = {},
         past'.deaths = {} /\ cmdstack # << >> => \A b \in DOMAIN todo : todo[b].op[1] = "pop" => b > k
  PROVE  ShellsPopped'
<1> SUFFICES ASSUME past.strays = {}, past'.deaths = {}, link # "gone",
                    NEW l \in DOMAIN cmdstack, l > 1, IsShell(cmdstack[l])'
             PROVE  \E i \in DOMAIN todo' : todo'[i].who = cmdstack[l - 1] /\ todo'[i].op[1] = "pop"
  BY DEF ShellsPopped, IsShell
<1>1. IsShell(cmdstack[l])
  BY SameStack
<1>2. PICK b \in DOMAIN todo : todo[b].who = cmdstack[l - 1] /\ todo[b].op[1] = "pop"
  BY <1>1 DEF ShellsPopped
<1>3. cmdstack # << >>
  BY ListedEmpty
<1>4. b > k
  BY <1>2, <1>3
<1>5. Listed(todo)
  BY DEF Typed, TypedTodo
<1> QED BY <1>2, <1>4, <1>5, FollowsOld

LEMMA ProceedsKeeps ==
  ASSUME Typed, Typed', Ordered, Proceeds
  PROVE  Ordered'
<1>1. PICK course :
        /\ Advances(course) /\ op[1] \notin {"shell", "pop", "leave"}
        /\ \A j \in 1 .. Len(course) : Quiet(course[j]) /\ (course[j][1] = "construct" => cmdstack # << >>)
        /\ \A o \in DOMAIN objs :
             (o = me /\ op[1] \in Working) \/ op[1] = "queue" \/ objs'[o].pending = objs[o].pending
        /\ IsShell(me) /\ op[1] \in Working /\ objs'[me].pending # << >> =>
             \E j \in 1 .. Len(course) : course[j][1] \in Working
  BY DEF Proceeds
<1>2. /\ todo # << >> /\ Listed(course) /\ todo' = Calls(me, course) \o Tail(todo)
      /\ cmdstack' = cmdstack /\ (link' = "gone" <=> link = "gone")
      /\ past'.strays = past.strays /\ past'.deaths = past.deaths /\ Alike
  BY <1>1 DEF Advances
<1>3. /\ Listed(todo) /\ DOMAIN todo = 1 .. Len(todo) /\ 1 \in DOMAIN todo
      /\ todo[1].who = me /\ todo[1].op = op /\ me \in DOMAIN objs
      /\ \A b \in DOMAIN todo : b \in Nat /\ b >= 1 /\ (b <= 1 => b = 1)
      /\ Dropped(me, 1)
  BY <1>2, HeadIs
<1>4. Follows(me, course, 1)
  BY <1>2, <1>3, FollowsOn
<1>5. /\ Rising' /\ Accounted' /\ Bottom'
      /\ \A x : On(x, cmdstack') <=> On(x, cmdstack)
      /\ \A k \in DOMAIN cmdstack : IsShell(cmdstack[k])' <=> IsShell(cmdstack[k])
  BY <1>2, SameStack DEF Ordered
<1>6. Nested'
  <2>1. Heads(me, course, 1)
    BY <1>3 DEF Heads
  <2> QED BY <1>4, <1>5, <2>1, NestedKept DEF Ordered
<1>7. OnlyTop'
  <2>1. \A j \in 1 .. Len(course) : ~TopOnly(course[j])
    BY <1>1 DEF Quiet, TopOnly
  <2> QED BY <1>4, <2>1, OnlyTopKept DEF Ordered
<1>8. PopLast'
  <2>1. \A j \in 1 .. Len(course) : course[j][1] # "pop"
    BY <1>1 DEF Quiet
  <2>2. \A b \in DOMAIN todo : b > 1 /\ todo[b].op[1] = "pop" => todo[b].who # me
    BY <1>1, <1>3 DEF Ordered, PopLast
  <2> QED BY <1>4, <2>1, <2>2, PopLastKept DEF Ordered
<1>9. Gone'
  BY <1>1, <1>2, <1>4, GoneKept DEF Ordered
<1>10. ShellsPopped'
  <2>1. \A b \in DOMAIN todo : todo[b].op[1] = "pop" => b > 1
    BY <1>1, <1>3
  <2> QED BY <1>2, <1>4, <2>1, ShellsSame DEF Ordered
<1>11. PendingRuns'
  <2> DEFINE t == Last(cmdstack)
  <2> SUFFICES ASSUME past.strays = {}, past.deaths = {}, link # "gone", cmdstack # << >>, IsShell(t)',
                      objs'[t].pending # << >>
               PROVE  \E i \in DOMAIN todo' : todo'[i].who = t /\ todo'[i].op[1] \in Working
    BY <1>2 DEF PendingRuns
  <2>1. t \in DOMAIN objs
    BY TopIs
  <2>2. IsShell(t)
    BY <1>2, <2>1 DEF Alike, IsShell
  <2> HIDE DEF t
  <2>3. CASE t = me /\ op[1] \in Working
    <3>1. PICK j \in 1 .. Len(course) : course[j][1] \in Working
      BY <1>1, <2>2, <2>3
    <3> QED BY <1>3, <1>4, <2>3, <3>1, FollowsNew
  <2>4. CASE ~(t = me /\ op[1] \in Working)
    <3>1. op[1] # "queue"
      <4> SUFFICES ASSUME op[1] = "queue" PROVE FALSE
        OBVIOUS
      <4>1. TopOnly(todo[1].op)
        BY <1>3 DEF TopOnly
      <4>2. me = t
        BY <1>3, <4>1 DEF Ordered, OnlyTop, t
      <4>3. ~IsShell(me)
        BY <1>2, HeadCall
      <4> QED BY <2>2, <4>2, <4>3
    <3>2. objs[t].pending # << >>
      BY <1>1, <2>1, <2>4, <3>1
    <3>3. PICK i \in DOMAIN todo : todo[i].who = t /\ todo[i].op[1] \in Working
      BY <2>2, <3>2 DEF Ordered, PendingRuns, t
    <3>4. i > 1
      BY <1>3, <2>4, <3>3
    <3> QED BY <1>3, <1>4, <3>3, <3>4, FollowsOld
  <2> QED BY <2>3, <2>4
<1> QED BY <1>5, <1>6, <1>7, <1>8, <1>9, <1>10, <1>11 DEF Ordered

LEMMA OpensKeeps ==
  ASSUME Typed, Typed', Ordered, Opens
  PROVE  Ordered'
<1>1. PICK course :
        /\ Advances(course) /\ PendingSame /\ op[1] = "do" /\ ~IsShell(me)
        /\ \/ op[2] = "start" /\ course = << do("call"), exit >>
           \/ op[2] = "call" /\ course = << shell, pop >> /\ objs[me].cls = "sh"
           \/ op[2] = "lineReceived" /\ course = << queue >>
  BY DEF Opens
<1>2. /\ todo # << >> /\ Listed(course) /\ todo' = Calls(me, course) \o Tail(todo)
      /\ cmdstack' = cmdstack /\ (link' = "gone" <=> link = "gone")
      /\ past'.strays = past.strays /\ past'.deaths = past.deaths /\ Alike
  BY <1>1 DEF Advances
<1>3. /\ Listed(todo) /\ DOMAIN todo = 1 .. Len(todo) /\ 1 \in DOMAIN todo
      /\ todo[1].who = me /\ todo[1].op = op /\ me \in DOMAIN objs
      /\ \A b \in DOMAIN todo : b \in Nat /\ b >= 1 /\ (b <= 1 => b = 1)
      /\ Dropped(me, 1)
  BY <1>2, HeadIs
<1>4. Follows(me, course, 1)
  BY <1>2, <1>3, FollowsOn
<1>5. /\ Rising' /\ Accounted' /\ Bottom'
      /\ \A x : On(x, cmdstack') <=> On(x, cmdstack)
      /\ \A k \in DOMAIN cmdstack : IsShell(cmdstack[k])' <=> IsShell(cmdstack[k])
  BY <1>2, SameStack DEF Ordered
<1>6. cmdstack # << >> /\ me = Last(cmdstack)
  <2>1. TopOnly(todo[1].op)
    BY <1>1, <1>3 DEF TopOnly
  <2> QED BY <1>3, <2>1 DEF Ordered, OnlyTop
<1>7. \A j \in 1 .. Len(course) :
        /\ TopOnly(course[j]) => j = 1
        /\ course[j][1] = "shell" => Len(course) > 1 /\ course[2][1] = "pop"
        /\ course[j][1] = "pop" => j = 2 /\ course[1][1] = "shell"
        /\ course[j][1] # "construct"
  <2>1. CASE course = << do("call"), exit >>
    <3>1. Len(course) = 2 /\ course[1] = do("call") /\ course[2] = exit
      BY <2>1
    <3>2. \A j \in 1 .. Len(course) : j = 1 \/ j = 2
      BY <3>1
    <3>3. do("call")[1] = "do" /\ exit[1] = "do" /\ exit[2] = "exit"
      BY DEF do, exit
    <3>4. course[1][1] = "do" /\ course[2][1] = "do" /\ course[2][2] = "exit"
      BY <3>1, <3>3
    <3>5. ~TopOnly(course[2])
      BY <3>4 DEF TopOnly
    <3> QED BY <3>2, <3>4, <3>5
  <2>2. CASE course = << shell, pop >>
    <3>1. Len(course) = 2 /\ course[1] = shell /\ course[2] = pop
      BY <2>2
    <3>2. \A j \in 1 .. Len(course) : j = 1 \/ j = 2
      BY <3>1
    <3>3. course[1][1] = "shell" /\ course[2][1] = "pop"
      BY <3>1 DEF shell, pop
    <3>4. ~TopOnly(course[2]) /\ Len(course) > 1
      BY <3>1, <3>3 DEF TopOnly
    <3> QED BY <3>2, <3>3, <3>4
  <2>3. CASE course = << queue >>
    <3>1. Len(course) = 1 /\ course[1] = queue
      BY <2>3, ListedSingle
    <3>2. \A j \in 1 .. Len(course) : j = 1
      BY <3>1
    <3>3. course[1][1] = "queue"
      BY <3>1 DEF queue
    <3> QED BY <3>2, <3>3
  <2> QED BY <1>1, <2>1, <2>2, <2>3
<1>8. Nested'
  <2>1. Heads(me, course, 1)
    BY <1>3 DEF Heads
  <2> QED BY <1>4, <1>5, <2>1, NestedKept DEF Ordered
<1>9. OnlyTop'
  <2>1. \A j \in 1 .. Len(course) : TopOnly(course[j]) =>
          /\ j = 1 /\ cmdstack' # << >> /\ me = Last(cmdstack')
          /\ course[j][1] = "shell" => Len(course) > 1 /\ course[2][1] = "pop"
    BY <1>2, <1>6, <1>7
  <2> QED BY <1>4, <2>1, OnlyTopKept DEF Ordered
<1>10. PopLast'
  <2>1. \A b \in DOMAIN todo : b > 1 /\ todo[b].op[1] = "pop" => todo[b].who # me
    BY <1>1, <1>3 DEF Ordered, PopLast
  <2> QED BY <1>4, <1>7, <2>1, PopLastKept DEF Ordered
<1>11. Gone'
  BY <1>2, <1>4, <1>7, GoneKept DEF Ordered
<1>12. ShellsPopped'
  <2>1. \A b \in DOMAIN todo : todo[b].op[1] = "pop" => b > 1
    BY <1>1, <1>3
  <2> QED BY <1>2, <1>4, <2>1, ShellsSame DEF Ordered
<1>13. PendingRuns'
  <2>1. ~IsShell(Last(cmdstack))'
    BY <1>1, <1>2, <1>3, <1>6 DEF Alike, IsShell
  <2> QED BY <1>2, <2>1 DEF PendingRuns
<1> QED BY <1>5, <1>8, <1>9, <1>10, <1>11, <1>12, <1>13 DEF Ordered

LEMMA ThrownKeeps ==
  ASSUME Typed, Typed', Ordered, Thrown
  PROVE  Ordered'
<1>1. /\ todo # << >> /\ op[1] # "shell" /\ (op[1] = "pop" => cmdstack = << >>)
      /\ Uncaught \/ \E i \in 2 .. Len(todo) : Caught(i)
      /\ cmdstack' = cmdstack /\ Alike
      /\ \A o \in DOMAIN objs : objs'[o].pending = objs[o].pending \/ (IsShell(me) /\ o = me)
  BY DEF Thrown
<1>2. /\ Listed(todo) /\ Len(todo) \in Nat /\ DOMAIN todo = 1 .. Len(todo) /\ 1 \in DOMAIN todo
      /\ todo[1].who = me /\ todo[1].op = op /\ me \in DOMAIN objs
      /\ \A b \in DOMAIN todo : b \in Nat /\ b >= 1 /\ (b <= 1 => b = 1)
  BY <1>1, HeadIs
<1>3. /\ past'.strays = past.strays /\ (link' = "gone" <=> link = "gone")
      /\ past'.deaths = {} => past.deaths = {}
  BY <1>1 DEF Uncaught, Caught, Typed, Flags
<1>4. /\ Rising' /\ Accounted' /\ Bottom'
      /\ \A x : On(x, cmdstack') <=> On(x, cmdstack)
      /\ \A k \in DOMAIN cmdstack : IsShell(cmdstack[k])' <=> IsShell(cmdstack[k])
  BY <1>1, <1>3, SameStack DEF Ordered
<1>5. CASE Uncaught
  <2>1. todo' = << >> /\ past'.deaths # {}
    BY <1>5 DEF Uncaught, Typed, Flags
  <2>2. Follows(me, << >>, Len(todo)) /\ \A j \in 1 .. Len(<< >>) : FALSE
    BY <1>2, <2>1, FollowsNone, ListedEmpty
  <2>3. Nested'
    <3>1. Heads(me, << >>, Len(todo))
      BY DEF Heads
    <3> QED BY <1>4, <2>2, <3>1, NestedKept DEF Ordered
  <2>4. OnlyTop'
    <3>1. Len(todo) >= 1
      BY <1>2
    <3> QED BY <2>2, <3>1, OnlyTopKept DEF Ordered
  <2>5. PopLast'
    BY <2>2, PopLastKept DEF Ordered
  <2>6. Gone'
    BY <1>1, <1>3, <2>2, GoneKept DEF Ordered
  <2>7. ShellsPopped' /\ PendingRuns'
    BY <2>1 DEF ShellsPopped, PendingRuns
  <2> QED BY <1>4, <2>3, <2>4, <2>5, <2>6, <2>7 DEF Ordered
<1>6. ASSUME NEW i \in 2 .. Len(todo), Caught(i) PROVE Ordered'
  <2> DEFINE w == todo[i].who
             course == << do(todo[i].op[2]) >>
  <2>1. Follows(w, course, i)
    BY <1>2, <1>6, FollowsCaught
  <2>2. /\ i \in DOMAIN todo /\ todo[i].op[1] = "guard" /\ i >= 1 /\ i \in Nat
        /\ past'.deaths = {} => \A j \in 1 .. i : todo[j].who = w
    <3>1. i \in DOMAIN todo /\ i >= 1 /\ i \in Nat
      BY <1>2
    <3>2. /\ todo[i].op[1] = "guard"
          /\ \/ past' = past /\ \A j \in 1 .. i : todo[j].who = todo[i].who /\ ~Starting(todo[j].op)
             \/ past' = [past EXCEPT !.deaths = @ \cup {Blame}]
      BY <1>6 DEF Caught
    <3>3. past'.deaths # {} \/ (past' = past /\ \A j \in 1 .. i : todo[j].who = w)
      BY <3>2 DEF Typed, Flags
    <3> QED BY <3>1, <3>2, <3>3
  <2>3. w \in DOMAIN objs /\ ~IsShell(w) /\ todo[i].op[2] \in Methods
    <3>1. FrameOK(todo[i], objs, pps)
      BY <2>2 DEF Typed, TypedTodo
    <3> QED BY <2>2, <3>1 DEF FrameOK, Starts, ShellOp, CommandOp, PlainSteps, IsShell
  <2>4. Listed(course) /\ Len(course) = 1 /\ course[1] = do(todo[i].op[2])
    BY ListedSingle
  <2> HIDE DEF course, w
  <2>5. \A j \in 1 .. Len(course) :
          ~TopOnly(course[j]) /\ course[j][1] # "pop" /\ course[j][1] # "construct"
    <3>1. \A j \in 1 .. Len(course) : course[j] = do(todo[i].op[2])
      BY <2>4
    <3>2. do(todo[i].op[2])[1] = "do" /\ do(todo[i].op[2])[2] = todo[i].op[2]
      BY DEF do
    <3>3. todo[i].op[2] \notin {"start", "call", "lineReceived"}
      BY <2>3 DEF Methods
    <3> QED BY <3>1, <3>2, <3>3 DEF TopOnly
  <2>6. Nested'
    <3>1. Dropped(w, i)
      <4>1. i \in 1 .. i
        BY <2>2
      <4> QED BY <2>2, <4>1 DEF Dropped, w
    <3>2. Heads(w, course, i)
      BY <3>1 DEF Heads
    <3> QED BY <1>4, <2>1, <3>2, NestedKept DEF Ordered
  <2>7. OnlyTop'
    BY <2>1, <2>2, <2>5, OnlyTopKept DEF Ordered
  <2>8. PopLast'
    <3>1. \A b \in DOMAIN todo : b > i /\ todo[b].op[1] = "pop" => todo[b].who # w
      BY <1>2, <2>2 DEF Ordered, PopLast, w
    <3> QED BY <2>1, <2>5, <3>1, PopLastKept DEF Ordered
  <2>9. Gone'
    BY <1>1, <1>3, <2>1, <2>5, GoneKept DEF Ordered
  <2>10. past'.deaths = {} => \A b \in DOMAIN todo : b <= i => todo[b].who = w
    <3>1. \A b \in DOMAIN todo : b <= i => b \in 1 .. i
      BY <1>2, <2>2
    <3> QED BY <2>2, <3>1
  <2>11. ShellsPopped'
    <3>1. ASSUME past'.deaths = {}, cmdstack # << >>, NEW b \in DOMAIN todo, todo[b].op[1] = "pop", ~(b > i)
          PROVE  FALSE
      <4>1. b \in Nat /\ b >= 1 /\ b <= i
        BY <1>2, <2>2, <3>1
      <4>2. b # 1
        BY <1>1, <1>2, <3>1
      <4>3. 1 < b /\ 1 <= i
        BY <2>2, <4>1, <4>2
      <4>4. todo[b].who = w /\ todo[1].who = w
        BY <1>2, <2>10, <3>1, <4>1, <4>3
      <4>5. todo[1].op[1] = "shell"
        BY <1>2, <3>1, <4>3, <4>4 DEF Ordered, PopLast
      <4> QED BY <1>1, <1>2, <4>5
    <3> QED BY <1>1, <1>3, <2>1, <3>1, ShellsSame DEF Ordered
  <2>12. PendingRuns'
    <3> DEFINE t == Last(cmdstack)
    <3> SUFFICES ASSUME past.strays = {}, past'.deaths = {}, link # "gone", cmdstack # << >>, IsShell(t)',
                        objs'[t].pending # << >>
                 PROVE  \E j \in DOMAIN todo' : todo'[j].who = t /\ todo'[j].op[1] \in Working
      BY <1>1, <1>3 DEF PendingRuns
    <3>1. t \in DOMAIN objs
      BY TopIs
    <3>2. IsShell(t)
      BY <1>1, <3>1 DEF Alike, IsShell
    <3>3. me = w
      BY <1>2, <2>2, <2>10
    <3>4. objs[t].pending # << >>
      BY <1>1, <2>3, <3>1, <3>3
    <3>5. PICK b \in DOMAIN todo : todo[b].who = t /\ todo[b].op[1] \in Working
      BY <1>3, <3>2, <3>4 DEF Ordered, PendingRuns
    <3> HIDE DEF t
    <3>6. b > i
      <4>1. ~(b <= i)
        BY <2>3, <2>10, <3>2, <3>5
      <4>2. b \in Nat
        BY <1>2
      <4> QED BY <2>2, <4>1, <4>2
    <3> QED BY <1>2, <2>1, <3>5, <3>6, FollowsOld
  <2> QED BY <1>4, <2>6, <2>7, <2>8, <2>9, <2>11, <2>12 DEF Ordered
<1> QED BY <1>1, <1>5, <1>6

LEMMA WakesKeeps ==
  ASSUME Typed, Typed', Ordered, Wakes
  PROVE  Ordered'
<1>1. Idle /\ cmdstack' = cmdstack /\ objs' = objs /\ past' = past /\ (link' = "gone" <=> link = "gone")
  BY DEF Wakes
<1>2. PICK w, course :
        /\ Listed(course) /\ todo' = Calls(w, course)
        /\ \A j \in 1 .. Len(course) :
             /\ course[j][1] \notin {"shell", "queue", "pop", "construct"}
             /\ TopOnly(course[j]) => j = 1 /\ cmdstack # << >> /\ w = Last(cmdstack)
  <2>1. CASE todo' = << >>
    <3>1. todo' = Calls(0, << >>) /\ Listed(<< >>) /\ \A j \in 1 .. Len(<< >>) : FALSE
      BY <2>1, NoCalls, ListedEmpty
    <3> QED BY <3>1
  <2>2. ASSUME NEW w, NEW o, todo' = Calls(w, << o >>),
               \/ o[1] = "do" /\ o[2] \in Methods
               \/ /\ cmdstack # << >> /\ w = Last(cmdstack)
                  /\ o[1] \in {"line", "launch"} \/ (o[1] = "do" /\ o[2] = "lineReceived")
        PROVE  \E v, course :
                 /\ Listed(course) /\ todo' = Calls(v, course)
                 /\ \A j \in 1 .. Len(course) :
                      /\ course[j][1] \notin {"shell", "queue", "pop", "construct"}
                      /\ TopOnly(course[j]) => j = 1 /\ cmdstack # << >> /\ v = Last(cmdstack)
    <3> DEFINE course == << o >>
    <3>1. Listed(course) /\ Len(course) = 1 /\ course[1] = o
      BY ListedSingle
    <3>2. todo' = Calls(w, course)
      BY <2>2
    <3> HIDE DEF course
    <3>3. \A j \in 1 .. Len(course) : j = 1 /\ course[j] = o
      BY <3>1
    <3>4. o[1] \notin {"shell", "queue", "pop", "construct"}
      BY <2>2
    <3>5. TopOnly(o) => cmdstack # << >> /\ w = Last(cmdstack)
      BY <2>2 DEF TopOnly, Methods
    <3>6. \A j \in 1 .. Len(course) :
             /\ course[j][1] \notin {"shell", "queue", "pop", "construct"}
             /\ TopOnly(course[j]) => j = 1 /\ cmdstack # << >> /\ w = Last(cmdstack)
      BY <3>3, <3>4, <3>5
    <3> QED BY <3>1, <3>2, <3>6
  <2> QED BY <2>1, <2>2 DEF Wakes
<1>3. Follows(w, course, 0)
  BY <1>1, <1>2, FollowsWake
<1>4. Alike
  <2>1. Listed(objs)
    BY DEF Typed, TypedObjs
  <2> QED BY <1>1, <2>1 DEF Alike
<1>5. /\ Rising' /\ Accounted' /\ Bottom'
      /\ \A x : On(x, cmdstack') <=> On(x, cmdstack)
  BY <1>1, <1>4, SameStack DEF Ordered
<1>6. Len(todo) = 0 /\ DOMAIN todo = {}
  BY <1>1, ListedEmpty DEF Idle
<1>7. Nested'
  <2>1. Heads(w, course, 0)
    BY <1>6 DEF Heads
  <2> QED BY <1>3, <1>5, <2>1, NestedKept DEF Ordered
<1>8. OnlyTop'
  BY <1>1, <1>2, <1>3, OnlyTopKept DEF Ordered
<1>9. PopLast'
  BY <1>2, <1>3, <1>6, PopLastKept DEF Ordered
<1>10. Gone'
  BY <1>1, <1>2, <1>3, GoneKept DEF Ordered
<1>11. ShellsPopped'
  BY <1>1, <1>3, <1>4, <1>6, ShellsSame DEF Ordered
<1>12. PendingRuns'
  BY <1>1, <1>6 DEF Ordered, PendingRuns, IsShell
<1> QED BY <1>5, <1>7, <1>8, <1>9, <1>10, <1>11, <1>12 DEF Ordered

-----------------------------------------------------------------------------
(* Steps that change the stack, in order                                   *)

LEMMA EntersKeeps ==
  ASSUME Typed, Typed', Ordered, NEW e, NEW course, ObjOK(e, pps), Enters(e, course)
  PROVE  Ordered'
<1> DEFINE n == Len(objs) + 1
<1>1. /\ todo # << >> /\ op[1] \in {"construct", "shell"}
      /\ objs' = Append(objs, e) /\ ~e.left /\ e.pending = << >>
      /\ cmdstack' = Append(cmdstack, n)
      /\ Listed(course) /\ todo' = Calls(n, course) \o Tail(todo)
      /\ link' = link /\ past' = past
      /\ \/ op[1] = "construct" /\ e.cls # "shell" /\ course = << do("start"), << "callend" >> >>
         \/ op[1] = "shell" /\ e.cls = "shell" /\ \E l : course = << << "line", l >> >>
  BY DEF Enters
<1>2. /\ Listed(todo) /\ Len(todo) \in Nat /\ DOMAIN todo = 1 .. Len(todo) /\ 1 \in DOMAIN todo
      /\ todo[1].who = me /\ todo[1].op = op /\ me \in DOMAIN objs
      /\ \A b \in DOMAIN todo : b \in Nat /\ b >= 1 /\ (b <= 1 => b = 1)
  BY <1>1, HeadIs
<1>3. Follows(n, course, 1)
  BY <1>1, <1>2, FollowsOn
<1>4. /\ Len(objs) \in Nat /\ DOMAIN objs = 1 .. Len(objs) /\ DOMAIN objs' = 1 .. n
      /\ \A o \in DOMAIN objs : objs'[o] = objs[o] /\ o < n
      /\ objs'[n] = e /\ n \in DOMAIN objs' /\ \A o \in DOMAIN objs' : o \in DOMAIN objs \/ o = n
  <2>1. Listed(objs) /\ Len(objs) \in Nat /\ DOMAIN objs = 1 .. Len(objs)
    BY ListedShape DEF Typed, TypedObjs
  <2>2. /\ Listed(objs') /\ Len(objs') = n /\ \A o \in 1 .. Len(objs) : objs'[o] = objs[o]
        /\ objs'[n] = e
    BY <1>1, <2>1, ListedAppend
  <2>3. DOMAIN objs' = 1 .. n
    BY <2>2, ListedShape
  <2>4. n \in 1 .. n /\ \A o \in 1 .. n : o \in 1 .. Len(objs) \/ o = n
    BY <2>1
  <2>5. \A o \in 1 .. Len(objs) : o < n
    BY <2>1
  <2> QED BY <2>1, <2>2, <2>3, <2>4, <2>5
<1>5. /\ Listed(cmdstack) /\ Len(cmdstack) \in Nat /\ DOMAIN cmdstack = 1 .. Len(cmdstack)
      /\ \A k \in DOMAIN cmdstack : cmdstack[k] \in DOMAIN objs
  BY ListedShape DEF Typed, TypedStack
<1>6. /\ Listed(cmdstack') /\ Len(cmdstack') = Len(cmdstack) + 1
      /\ DOMAIN cmdstack' = 1 .. Len(cmdstack) + 1
      /\ \A k \in DOMAIN cmdstack : cmdstack'[k] = cmdstack[k]
      /\ cmdstack'[Len(cmdstack) + 1] = n
  <2>1. /\ Listed(cmdstack') /\ Len(cmdstack') = Len(cmdstack) + 1
        /\ \A k \in 1 .. Len(cmdstack) : cmdstack'[k] = cmdstack[k]
        /\ cmdstack'[Len(cmdstack) + 1] = n
    BY <1>1, <1>5, ListedAppend
  <2> QED BY <1>5, <2>1, ListedShape
<1>7. /\ cmdstack' # << >> /\ Last(cmdstack') = n
      /\ \A k \in DOMAIN cmdstack' : k \in DOMAIN cmdstack \/ k = Len(cmdstack) + 1
      /\ \A k \in DOMAIN cmdstack : k \in DOMAIN cmdstack' /\ k < Len(cmdstack) + 1
      /\ Len(cmdstack) + 1 \in DOMAIN cmdstack'
  <2>1. Len(cmdstack') # 0
    BY <1>5, <1>6
  <2>2. cmdstack' # << >>
    BY <1>6, <2>1, ListedNone
  <2>3. Last(cmdstack') = cmdstack'[Len(cmdstack')]
    BY <1>6, <2>2, ListedFront
  <2>4. \A k \in DOMAIN cmdstack' : k \in DOMAIN cmdstack \/ k = Len(cmdstack) + 1
    BY <1>5, <1>6
  <2>5. /\ \A k \in DOMAIN cmdstack : k \in DOMAIN cmdstack' /\ k < Len(cmdstack) + 1
        /\ Len(cmdstack) + 1 \in DOMAIN cmdstack'
    BY <1>5, <1>6
  <2> QED BY <1>6, <2>2, <2>3, <2>4, <2>5
<1>8. /\ \A x \in DOMAIN objs : On(x, cmdstack') <=> On(x, cmdstack)
      /\ \A x : On(x, cmdstack') => x \in DOMAIN objs \/ x = n
      /\ On(n, cmdstack')
  <2>1. \A x \in DOMAIN objs : x # n
    BY <1>4
  <2> QED BY <1>5, <1>6, <1>7, <2>1 DEF On
<1>9. Rising'
  <2> SUFFICES ASSUME NEW k \in DOMAIN cmdstack', NEW l \in DOMAIN cmdstack', k < l
               PROVE  cmdstack'[k] < cmdstack'[l]
    BY DEF Rising
  <2>1. k \in DOMAIN cmdstack
    BY <1>5, <1>6
  <2>2. CASE l \in DOMAIN cmdstack
    BY <1>6, <2>1, <2>2 DEF Ordered, Rising
  <2>3. CASE l = Len(cmdstack) + 1
    BY <1>4, <1>5, <1>6, <2>1, <2>3
  <2> QED BY <1>7, <2>2, <2>3
<1>10. Nested'
  <2>1. Highest(n, cmdstack')
    BY <1>4, <1>8 DEF Highest
  <2>2. Heads(n, course, 1)
    BY <2>1 DEF Heads
  <2> QED BY <1>3, <1>8, <2>2, NestedKept DEF Ordered
<1>11. \A j \in 1 .. Len(course) :
         /\ TopOnly(course[j]) => j = 1
         /\ course[j][1] \notin {"shell", "pop", "construct"}
  <2>1. CASE course = << do("start"), << "callend" >> >>
    <3>1. Len(course) = 2 /\ course[1] = do("start") /\ course[2] = << "callend" >>
      BY <2>1
    <3>2. course[1][1] = "do" /\ course[2][1] = "callend"
      BY <3>1 DEF do
    <3>3. ~TopOnly(course[2])
      BY <3>2 DEF TopOnly
    <3>4. \A j \in 1 .. Len(course) : j = 1 \/ j = 2
      BY <3>1
    <3> QED BY <3>2, <3>3, <3>4
  <2>2. ASSUME NEW l, course = << << "line", l >> >>
        PROVE  \A j \in 1 .. Len(course) : j = 1 /\ course[j][1] = "line"
    <3>1. Len(course) = 1 /\ course[1] = << "line", l >>
      BY <2>2, ListedSingle
    <3>2. course[1][1] = "line"
      BY <3>1
    <3>3. \A j \in 1 .. Len(course) : j = 1
      BY <3>1
    <3> QED BY <3>2, <3>3
  <2> QED BY <1>1, <2>1, <2>2
<1>12. OnlyTop'
  BY <1>3, <1>7, <1>11, OnlyTopKept DEF Ordered
<1>13. PopLast'
  <2>1. \A b \in DOMAIN todo : todo[b].who \in DOMAIN objs
    BY DEF Typed, TypedTodo, FrameOK
  <2>2. \A b \in DOMAIN todo : todo[b].who # n
    BY <1>4, <2>1
  <2> HIDE DEF n
  <2> QED BY <1>3, <1>11, <2>2, PopLastKept DEF Ordered
<1>14. link # "gone"
  <2>1. op[1] = "construct" => link # "gone"
    BY <1>2 DEF Ordered, Gone
  <2>2. op[1] = "shell" => cmdstack # << >>
    BY <1>2 DEF Ordered, OnlyTop, TopOnly
  <2> QED BY <1>1, <2>1, <2>2 DEF Ordered, Gone
<1>15. Gone'
  BY <1>1, <1>14 DEF Gone
<1>16. Accounted'
  <2> SUFFICES ASSUME past.strays = {}, NEW o \in DOMAIN objs', objs'[o].cls # "shell"
               PROVE  objs'[o].left \/ On(o, cmdstack')
    BY <1>1 DEF Accounted
  <2>1. CASE o \in DOMAIN objs
    BY <1>4, <1>8, <1>14, <2>1 DEF Ordered, Accounted
  <2>2. CASE o = n
    BY <1>8, <2>2
  <2> QED BY <1>4, <2>1, <2>2
<1>17. Bottom'
  <2> SUFFICES ASSUME past.strays = {}
               PROVE  cmdstack' # << >> /\ cmdstack'[1] = 1 /\ objs'[1].cls = "shell"
    BY <1>1 DEF Bottom
  <2>1. cmdstack # << >> /\ cmdstack[1] = 1 /\ objs[1].cls = "shell"
    BY <1>14 DEF Ordered, Bottom
  <2>2. 1 \in DOMAIN cmdstack
    BY <2>1, TopIs
  <2>3. 1 \in DOMAIN objs
    BY <1>5, <2>1, <2>2
  <2> QED BY <1>4, <1>6, <1>7, <2>1, <2>2, <2>3
<1>18. ShellsPopped'
  <2> SUFFICES ASSUME past.strays = {}, past.deaths = {}, NEW k \in DOMAIN cmdstack', k > 1,
                      objs'[cmdstack'[k]].cls = "shell"
               PROVE  \E i \in DOMAIN todo' : todo'[i].who = cmdstack'[k - 1] /\ todo'[i].op[1] = "pop"
    BY <1>1 DEF ShellsPopped, IsShell
  <2>0. k - 1 \in DOMAIN cmdstack /\ k \in Nat
    BY <1>5, <1>6
  <2>1. CASE k \in DOMAIN cmdstack
    <3>1. IsShell(cmdstack[k])
      BY <1>4, <1>5, <1>6, <2>1 DEF IsShell
    <3>2. PICK i \in DOMAIN todo : todo[i].who = cmdstack[k - 1] /\ todo[i].op[1] = "pop"
      BY <1>14, <2>1, <3>1 DEF Ordered, ShellsPopped
    <3>3. i > 1
      BY <1>1, <1>2, <3>2
    <3>4. cmdstack'[k - 1] = cmdstack[k - 1]
      BY <1>6, <2>0
    <3> QED BY <1>2, <1>3, <3>2, <3>3, <3>4, FollowsOld
  <2>2. CASE k = Len(cmdstack) + 1
    <3>1. e.cls = "shell" /\ op[1] = "shell"
      BY <1>1, <1>4, <1>6, <2>2
    <3>2. /\ cmdstack # << >> /\ me = Last(cmdstack)
          /\ Len(todo) > 1 /\ todo[2].who = todo[1].who /\ todo[2].op[1] = "pop"
      BY <1>2, <3>1 DEF Ordered, OnlyTop, TopOnly
    <3>3. 2 \in DOMAIN todo
      BY <1>2, <3>2
    <3>4. cmdstack'[k - 1] = me
      <4>1. k - 1 = Len(cmdstack)
        BY <1>5, <2>2
      <4> QED BY <1>6, <2>0, <3>2, <4>1, TopIs
    <3> QED BY <1>2, <1>3, <3>2, <3>3, <3>4, FollowsOld
  <2> QED BY <1>7, <2>1, <2>2
<1>19. PendingRuns'
  BY <1>1, <1>4, <1>7 DEF PendingRuns
<1> QED BY <1>9, <1>10, <1>12, <1>13, <1>15, <1>16, <1>17, <1>18, <1>19 DEF Ordered

\* The stack without its top
LEMMA StackLess ==
  ASSUME Typed, Rising, cmdstack # << >>, cmdstack' = Front(cmdstack)
  PROVE  /\ Rising' /\ Listed(cmdstack') /\ Len(cmdstack') = Len(cmdstack) - 1
         /\ DOMAIN cmdstack' = 1 .. Len(cmdstack) - 1
         /\ \A k \in DOMAIN cmdstack' : k \in DOMAIN cmdstack /\ cmdstack'[k] = cmdstack[k]
         /\ \A x : On(x, cmdstack') => On(x, cmdstack)
         /\ \A x : On(x, cmdstack) => On(x, cmdstack') \/ x = Last(cmdstack)
         /\ cmdstack' # << >> => /\ Last(cmdstack') = cmdstack[Len(cmdstack) - 1]
                                 /\ Highest(Last(cmdstack'), cmdstack')
<1>1. /\ Last(cmdstack) = cmdstack[Len(cmdstack)] /\ Len(cmdstack) \in DOMAIN cmdstack
      /\ DOMAIN cmdstack = 1 .. Len(cmdstack) /\ Len(cmdstack) \in Nat /\ Len(cmdstack) >= 1
      /\ Listed(cmdstack)
  BY TopIs
<1>2. /\ Listed(cmdstack') /\ Len(cmdstack') = Len(cmdstack) - 1
      /\ \A i \in 1 .. Len(cmdstack) - 1 : cmdstack'[i] = cmdstack[i]
  BY <1>1, ListedFront
<1>3. DOMAIN cmdstack' = 1 .. Len(cmdstack) - 1
  BY <1>2, ListedShape
<1>4. \A k \in DOMAIN cmdstack' : k \in DOMAIN cmdstack /\ cmdstack'[k] = cmdstack[k]
  BY <1>1, <1>2, <1>3
<1>5. Rising'
  BY <1>4 DEF Rising
<1>6. \A x : On(x, cmdstack') => On(x, cmdstack)
  BY <1>4 DEF On
<1>7. \A x : On(x, cmdstack) => On(x, cmdstack') \/ x = Last(cmdstack)
  <2>1. \A k \in DOMAIN cmdstack : k \in DOMAIN cmdstack' \/ k = Len(cmdstack)
    BY <1>1, <1>3
  <2> QED BY <1>1, <1>4, <2>1 DEF On
<1>8. ASSUME cmdstack' # << >>
      PROVE  Last(cmdstack') = cmdstack[Len(cmdstack) - 1] /\ Highest(Last(cmdstack'), cmdstack')
  <2>1. Last(cmdstack') = cmdstack'[Len(cmdstack')] /\ Len(cmdstack') >= 1
    BY <1>2, <1>8, ListedFront
  <2>2. Len(cmdstack) - 1 \in DOMAIN cmdstack'
    BY <1>1, <1>2, <1>3, <2>1
  <2>3. Last(cmdstack') = cmdstack[Len(cmdstack) - 1]
    BY <1>2, <1>4, <2>1, <2>2
  <2>4. \A k \in DOMAIN cmdstack' : k = Len(cmdstack) - 1 \/ k < Len(cmdstack) - 1
    BY <1>1, <1>3
  <2>5. \A k \in DOMAIN cmdstack' : cmdstack[k] = Last(cmdstack') \/ cmdstack[k] < Last(cmdstack')
    BY <1>4, <2>2, <2>3, <2>4 DEF Rising
  <2>6. Highest(Last(cmdstack'), cmdstack')
    <3> SUFFICES ASSUME NEW x \in Nat, On(x, cmdstack') PROVE x <= Last(cmdstack')
      BY DEF Highest
    <3>1. PICK k \in DOMAIN cmdstack' : cmdstack'[k] = x
      BY DEF On
    <3>2. x = Last(cmdstack') \/ x < Last(cmdstack')
      BY <1>4, <2>5, <3>1
    <3>3. Last(cmdstack') \in Nat
      <4>1. DOMAIN objs = 1 .. Len(objs)
        BY ListedShape DEF Typed, TypedObjs
      <4> QED BY <1>4, <2>2, <2>3, <4>1 DEF Typed, TypedStack
    <3> QED BY <3>2, <3>3
  <2> QED BY <2>3, <2>6
<1> QED BY <1>2, <1>3, <1>4, <1>5, <1>6, <1>7, <1>8

LEMMA LeaveKeeps ==
  ASSUME Typed, Typed', Ordered, Leave
  PROVE  Ordered'
<1>1. /\ todo # << >> /\ op[1] = "leave" /\ objs' = [objs EXCEPT ![me].left = TRUE]
  BY DEF Leave, Is
<1>2. /\ Listed(todo) /\ Len(todo) \in Nat /\ DOMAIN todo = 1 .. Len(todo) /\ 1 \in DOMAIN todo
      /\ todo[1].who = me /\ todo[1].op = op /\ me \in DOMAIN objs
      /\ \A b \in DOMAIN todo : b \in Nat /\ b >= 1 /\ (b <= 1 => b = 1)
      /\ Dropped(me, 1)
  BY <1>1, HeadIs
<1>3. ~IsShell(me)
  BY <1>1, HeadCall
<1>4. /\ DOMAIN objs' = DOMAIN objs
      /\ \A o \in DOMAIN objs : objs'[o].cls = objs[o].cls /\ objs'[o].pending = objs[o].pending
      /\ \A o \in DOMAIN objs : o # me => objs'[o].left = objs[o].left
      /\ objs'[me].left = TRUE
  <2> DEFINE e == [objs[me] EXCEPT !.left = TRUE]
  <2>1. ObjOK(objs[me], pps)
    BY <1>1, HeadCall
  <2>2. e.left = TRUE /\ e.cls = objs[me].cls /\ e.pending = objs[me].pending
    BY <2>1 DEF ObjOK, ObjFields
  <2>3. objs' = [objs EXCEPT ![me] = e]
    BY <1>1, <1>2
  <2> HIDE DEF e
  <2>4. Listed(objs) /\ DOMAIN objs = 1 .. Len(objs)
    BY ListedShape DEF Typed, TypedObjs
  <2>5. /\ DOMAIN objs' = DOMAIN objs /\ objs'[me] = e
        /\ \A o \in DOMAIN objs : o # me => objs'[o] = objs[o]
    BY <1>2, <2>3, <2>4, ListedExcept
  <2> QED BY <2>2, <2>5
<1>5. PICK w, course :
        /\ Listed(course) /\ todo' = Calls(w, course) \o Tail(todo)
        /\ \A j \in 1 .. Len(course) : course[j] = << "runCommand" >>
        /\ \/ course = << >> /\ w = me
           \/ cmdstack' # << >> /\ w = Last(cmdstack') /\ IsShell(w) /\ Len(course) = 1
        /\ cmdstack # << >> /\ cmdstack' # << >> /\ IsShell(Last(cmdstack')) => Len(course) = 1 /\ w = Last(cmdstack')
  <2>1. CASE Skip /\ ~(cmdstack # << >> /\ cmdstack' # << >> /\ IsShell(Last(cmdstack')))
    <3>1. todo' = Calls(me, << >>) \o Tail(todo)
      BY <1>1, <1>2, <2>1, SkipIsGo DEF Skip
    <3>2. Listed(<< >>) /\ \A j \in 1 .. Len(<< >>) : FALSE
      BY ListedEmpty
    <3> QED BY <2>1, <3>1, <3>2
  <2>2. CASE /\ cmdstack # << >> /\ cmdstack' # << >> /\ IsShell(Last(cmdstack'))
             /\ todo' = Calls(Last(cmdstack'), << << "runCommand" >> >>) \o Tail(todo)
    <3> DEFINE c == << << "runCommand" >> >>
    <3>1. Listed(c) /\ Len(c) = 1 /\ c[1] = << "runCommand" >>
      BY ListedSingle
    <3>2. todo' = Calls(Last(cmdstack'), c) \o Tail(todo)
      BY <2>2
    <3> HIDE DEF c
    <3>3. \A j \in 1 .. Len(c) : c[j] = << "runCommand" >>
      BY <3>1
    <3> QED BY <2>2, <3>1, <3>2, <3>3
  <2> QED BY <2>1, <2>2 DEF Leave
<1>6. Follows(w, course, 1)
  BY <1>1, <1>2, <1>5, FollowsOn
<1>7. \A j \in 1 .. Len(course) :
        ~TopOnly(course[j]) /\ course[j][1] \notin {"pop", "construct"}
  BY <1>5 DEF TopOnly
<1>8. /\ Rising' /\ \A x : On(x, cmdstack') => On(x, cmdstack)
      /\ cmdstack' # << >> => Highest(Last(cmdstack'), cmdstack') \/ cmdstack = << >>
      /\ cmdstack = << >> => cmdstack' = << >>
  <2>1. CASE cmdstack = << >>
    <3>1. cmdstack' = cmdstack
      BY <2>1 DEF Leave
    <3> QED BY <2>1, <3>1 DEF Ordered, Rising
  <2>2. CASE cmdstack # << >>
    <3>1. cmdstack' = Front(cmdstack)
      BY <2>2 DEF Leave
    <3> QED BY <2>2, <3>1, StackLess DEF Ordered
  <2> QED BY <2>1, <2>2
<1>9. Nested'
  <2>1. Heads(w, course, 1)
    BY <1>2, <1>5, <1>8 DEF Heads
  <2> QED BY <1>6, <1>8, <2>1, NestedKept DEF Ordered
<1>10. OnlyTop'
  BY <1>6, <1>7, OnlyTopKept DEF Ordered
<1>11. PopLast'
  <2>1. \A b \in DOMAIN todo : todo[b].op[1] = "pop" => ~IsShell(todo[b].who)
    <3> SUFFICES ASSUME NEW b \in DOMAIN todo, todo[b].op[1] = "pop" PROVE ~IsShell(todo[b].who)
      OBVIOUS
    <3>1. FrameOK(todo[b], objs, pps)
      BY DEF Typed, TypedTodo
    <3> QED BY <3>1 DEF FrameOK, Starts, ShellOp, IsShell
  <2>2. course = << >> \/ \A b \in DOMAIN todo : b > 1 /\ todo[b].op[1] = "pop" => todo[b].who # w
    BY <1>5, <2>1
  <2> QED BY <1>6, <1>7, <2>2, PopLastKept DEF Ordered
<1>12. CASE cmdstack = << >>
  <2>1. cmdstack' = << >> /\ past' = past /\ (link' = "gone" <=> link = "gone")
    BY <1>12 DEF Leave
  <2>2. link # "gone" => past.strays # {}
    BY <1>12 DEF Ordered, Bottom
  <2>3. Gone'
    BY <1>6, <1>7, <1>8, <2>1, GoneKept DEF Ordered
  <2>4. Accounted' /\ Bottom' /\ ShellsPopped' /\ PendingRuns'
    BY <2>1, <2>2 DEF Accounted, Bottom, ShellsPopped, PendingRuns
  <2> QED BY <1>8, <1>9, <1>10, <1>11, <2>3, <2>4 DEF Ordered
<1>13. CASE cmdstack # << >>
  <2>1. /\ cmdstack' = Front(cmdstack) /\ link' = link
        /\ past' = IF Last(cmdstack) = me THEN past
                   ELSE [past EXCEPT !.strays = @ \cup {objs[me].cls}]
    BY <1>13 DEF Leave
  <2>2. /\ past'.strays = {} => past.strays = {} /\ Last(cmdstack) = me
        /\ past'.deaths = past.deaths
    BY <2>1 DEF Typed, Flags
  <2>3. /\ Len(cmdstack') = Len(cmdstack) - 1 /\ DOMAIN cmdstack' = 1 .. Len(cmdstack) - 1
        /\ \A k \in DOMAIN cmdstack' : k \in DOMAIN cmdstack /\ cmdstack'[k] = cmdstack[k]
        /\ \A x : On(x, cmdstack) => On(x, cmdstack') \/ x = Last(cmdstack)
        /\ Listed(cmdstack')
    BY <1>13, <2>1, StackLess DEF Ordered
  <2>4. /\ Last(cmdstack) = cmdstack[Len(cmdstack)] /\ Len(cmdstack) \in Nat /\ Len(cmdstack) >= 1
        /\ DOMAIN cmdstack = 1 .. Len(cmdstack)
    BY <1>13, TopIs
  <2>5. link # "gone"
    BY <1>13 DEF Ordered, Gone
  <2>6. Gone'
    BY <2>1, <2>5 DEF Gone
  <2>7. Accounted'
    <3> SUFFICES ASSUME past'.strays = {}, NEW o \in DOMAIN objs', objs'[o].cls # "shell"
                 PROVE  objs'[o].left \/ On(o, cmdstack')
      BY DEF Accounted
    <3>1. CASE o = me
      BY <1>4, <3>1
    <3>2. CASE o # me
      BY <1>4, <2>2, <2>3, <2>5, <3>2 DEF Ordered, Accounted
    <3> QED BY <3>1, <3>2
  <2>8. Bottom'
    <3> SUFFICES ASSUME past'.strays = {}
                 PROVE  cmdstack' # << >> /\ cmdstack'[1] = 1 /\ objs'[1].cls = "shell"
      BY DEF Bottom
    <3>1. cmdstack[1] = 1 /\ objs[1].cls = "shell"
      BY <2>2, <2>5 DEF Ordered, Bottom
    <3>2. Len(cmdstack) # 1
      BY <1>3, <2>2, <2>4, <3>1 DEF IsShell
    <3>3. 1 \in DOMAIN cmdstack'
      BY <2>3, <2>4, <3>2
    <3>4. cmdstack' # << >>
      BY <3>3, ListedEmpty
    <3>5. 1 \in DOMAIN objs
      BY <2>3, <3>1, <3>3 DEF Typed, TypedStack
    <3> QED BY <1>4, <2>3, <3>1, <3>3, <3>4, <3>5
  <2>9. ShellsPopped'
    <3> SUFFICES ASSUME past'.strays = {}, past.deaths = {}, NEW k \in DOMAIN cmdstack', k > 1,
                        objs'[cmdstack'[k]].cls = "shell"
                 PROVE  \E i \in DOMAIN todo' : todo'[i].who = cmdstack'[k - 1] /\ todo'[i].op[1] = "pop"
      BY <2>2 DEF ShellsPopped, IsShell
    <3>1. k \in DOMAIN cmdstack /\ cmdstack'[k] = cmdstack[k] /\ cmdstack[k] \in DOMAIN objs
      BY <2>3 DEF Typed, TypedStack
    <3>2. IsShell(cmdstack[k])
      BY <1>4, <3>1 DEF IsShell
    <3>3. PICK i \in DOMAIN todo : todo[i].who = cmdstack[k - 1] /\ todo[i].op[1] = "pop"
      BY <2>2, <2>5, <3>1, <3>2 DEF Ordered, ShellsPopped
    <3>4. i > 1
      BY <1>1, <1>2, <3>3
    <3>5. k - 1 \in DOMAIN cmdstack'
      BY <2>3, <2>4
    <3>6. cmdstack'[k - 1] = cmdstack[k - 1]
      BY <2>3, <3>5
    <3> QED BY <1>2, <1>6, <3>3, <3>4, <3>6, FollowsOld
  <2>10. PendingRuns'
    <3> SUFFICES ASSUME cmdstack' # << >>, objs'[Last(cmdstack')].cls = "shell"
                 PROVE  \E i \in DOMAIN todo' : todo'[i].who = Last(cmdstack') /\ todo'[i].op[1] \in Working
      BY DEF PendingRuns, IsShell
    <3>1. Last(cmdstack') \in DOMAIN objs
      <4>1. Last(cmdstack') = cmdstack[Len(cmdstack) - 1]
        BY <1>13, <2>1, StackLess DEF Ordered
      <4>2. Len(cmdstack') # 0
        BY <2>3, ListedNone
      <4>3. Len(cmdstack) - 1 \in DOMAIN cmdstack
        BY <2>3, <2>4, <4>2
      <4> QED BY <4>1, <4>3 DEF Typed, TypedStack
    <3>2. IsShell(Last(cmdstack'))
      BY <1>4, <3>1 DEF IsShell
    <3>3. Len(course) = 1 /\ w = Last(cmdstack') /\ 1 \in 1 .. Len(course)
      BY <1>5, <1>13, <3>2
    <3>4. course[1][1] = "runCommand"
      BY <1>5, <3>3
    <3>5. 1 \in DOMAIN todo' /\ todo'[1].who = w /\ todo'[1].op = course[1]
      <4>1. \A j \in 1 .. Len(course) : j \in DOMAIN todo' /\ todo'[j].who = w /\ todo'[j].op = course[j]
        BY <1>2, <1>6, FollowsNew
      <4> QED BY <3>3, <4>1
    <3>6. course[1][1] \in Working
      BY <3>4 DEF Working
    <3> QED BY <3>3, <3>5, <3>6
  <2> QED BY <1>8, <1>9, <1>10, <1>11, <2>6, <2>7, <2>8, <2>9, <2>10 DEF Ordered
<1> QED BY <1>12, <1>13

LEMMA StackNat ==
  ASSUME Typed, NEW k \in DOMAIN cmdstack
  PROVE  cmdstack[k] \in Nat /\ cmdstack[k] \in DOMAIN objs
<1>1. DOMAIN objs = 1 .. Len(objs) /\ cmdstack[k] \in DOMAIN objs
  BY ListedShape DEF Typed, TypedObjs, TypedStack
<1> QED BY <1>1

LEMMA PopsNoShell ==
  ASSUME Typed, NEW b \in DOMAIN todo, todo[b].op[1] = "pop"
  PROVE  ~IsShell(todo[b].who)
<1>1. FrameOK(todo[b], objs, pps)
  BY DEF Typed, TypedTodo
<1> QED BY <1>1 DEF FrameOK, Starts, ShellOp, IsShell

LEMMA PopKeeps ==
  ASSUME Typed, Typed', Ordered, Pop, cmdstack # << >>
  PROVE  Ordered'
<1>1. /\ todo # << >> /\ op[1] = "pop" /\ objs' = objs /\ link' = link /\ todo' = Tail(todo)
      /\ cmdstack' = Front(cmdstack)
      /\ past' = IF IsShell(Last(cmdstack)) /\ Len(cmdstack) > 1 THEN past
                 ELSE [past EXCEPT !.strays = @ \cup {objs[me].cls}]
  BY DEF Pop, Is, Skip
<1>2. /\ Listed(todo) /\ Len(todo) \in Nat /\ DOMAIN todo = 1 .. Len(todo) /\ 1 \in DOMAIN todo
      /\ todo[1].who = me /\ todo[1].op = op /\ me \in DOMAIN objs
      /\ \A b \in DOMAIN todo : b \in Nat /\ b >= 1 /\ (b <= 1 => b = 1)
  BY <1>1, HeadIs
<1>3. Follows(me, << >>, 1)
  <2>1. todo' = Calls(me, << >>) \o Tail(todo)
    BY <1>1, <1>2, SkipIsGo
  <2> QED BY <1>1, <1>2, <2>1, ListedEmpty, FollowsOn
<1>4. Len(<< >>) = 0 /\ \A j \in 1 .. Len(<< >>) : FALSE
  BY ListedEmpty
<1>5. /\ Rising' /\ Len(cmdstack') = Len(cmdstack) - 1
      /\ DOMAIN cmdstack' = 1 .. Len(cmdstack) - 1
      /\ \A k \in DOMAIN cmdstack' : k \in DOMAIN cmdstack /\ cmdstack'[k] = cmdstack[k]
      /\ \A x : On(x, cmdstack') => On(x, cmdstack)
      /\ \A x : On(x, cmdstack) => On(x, cmdstack') \/ x = Last(cmdstack)
      /\ cmdstack' # << >> => Last(cmdstack') = cmdstack[Len(cmdstack) - 1]
      /\ Listed(cmdstack')
  BY <1>1, StackLess DEF Ordered
<1>6. /\ Last(cmdstack) = cmdstack[Len(cmdstack)] /\ Len(cmdstack) \in Nat /\ Len(cmdstack) >= 1
      /\ DOMAIN cmdstack = 1 .. Len(cmdstack) /\ Len(cmdstack) \in DOMAIN cmdstack
  BY TopIs
<1>7. link # "gone"
  BY DEF Ordered, Gone
<1>8. /\ past'.strays = {} => past.strays = {} /\ IsShell(Last(cmdstack)) /\ Len(cmdstack) > 1
      /\ past'.deaths = past.deaths
  BY <1>1 DEF Typed, Flags
<1>9. Nested'
  <2>1. Heads(me, << >>, 1)
    BY DEF Heads
  <2> QED BY <1>3, <1>5, <2>1, NestedKept DEF Ordered
<1>10. OnlyTop'
  BY <1>3, <1>4, OnlyTopKept DEF Ordered
<1>11. PopLast'
  BY <1>3, <1>4, PopLastKept DEF Ordered
<1>12. Gone'
  BY <1>1, <1>7 DEF Gone
<1>13. Accounted'
  <2> SUFFICES ASSUME past'.strays = {}, NEW o \in DOMAIN objs, objs[o].cls # "shell"
               PROVE  objs[o].left \/ On(o, cmdstack')
    BY <1>1 DEF Accounted
  <2>1. o # Last(cmdstack)
    BY <1>8 DEF IsShell
  <2> QED BY <1>5, <1>7, <1>8, <2>1 DEF Ordered, Accounted
<1>14. Bottom'
  <2> SUFFICES ASSUME past'.strays = {}
               PROVE  cmdstack' # << >> /\ cmdstack'[1] = 1 /\ objs[1].cls = "shell"
    BY <1>1 DEF Bottom
  <2>1. cmdstack[1] = 1 /\ objs[1].cls = "shell"
    BY <1>7, <1>8 DEF Ordered, Bottom
  <2>2. 1 \in DOMAIN cmdstack'
    BY <1>5, <1>6, <1>8
  <2>3. cmdstack' # << >>
    BY <2>2, ListedEmpty
  <2> QED BY <1>5, <2>1, <2>2, <2>3
<1>15. ShellsPopped'
  <2> SUFFICES ASSUME past'.strays = {}, past.deaths = {}, NEW k \in DOMAIN cmdstack', k > 1,
                      IsShell(cmdstack'[k])
               PROVE  \E i \in DOMAIN todo' : todo'[i].who = cmdstack'[k - 1] /\ todo'[i].op[1] = "pop"
    BY <1>1, <1>8 DEF ShellsPopped, IsShell
  <2>1. /\ k \in DOMAIN cmdstack /\ cmdstack'[k] = cmdstack[k] /\ k \in Nat
        /\ k - 1 \in DOMAIN cmdstack' /\ k - 1 \in DOMAIN cmdstack
        /\ Len(cmdstack) - 1 \in DOMAIN cmdstack /\ k - 1 < Len(cmdstack) - 1
        /\ Len(cmdstack) > 1
    BY <1>5, <1>6
  <2>2. PICK i \in DOMAIN todo : todo[i].who = cmdstack[k - 1] /\ todo[i].op[1] = "pop"
    BY <1>7, <1>8, <2>1 DEF Ordered, ShellsPopped
  <2>3. cmdstack'[k - 1] = cmdstack[k - 1]
    BY <1>5, <2>1
  <2>4. CASE i > 1
    BY <1>2, <1>3, <2>2, <2>3, <2>4, FollowsOld
  <2>5. CASE i = 1
    <3>1. me = cmdstack[k - 1]
      BY <1>2, <2>2, <2>5
    <3>2. PICK b \in DOMAIN todo : todo[b].who = cmdstack[Len(cmdstack) - 1] /\ todo[b].op[1] = "pop"
      BY <1>6, <1>7, <1>8, <2>1 DEF Ordered, ShellsPopped
    <3>3. cmdstack[k - 1] < cmdstack[Len(cmdstack) - 1]
      BY <2>1 DEF Ordered, Rising
    <3>4. cmdstack[k - 1] \in Nat /\ cmdstack[Len(cmdstack) - 1] \in Nat
      BY <2>1, StackNat
    <3>5. b = 1 \/ 1 < b
      BY <1>2
    <3>6. b # 1
      BY <1>2, <3>1, <3>2, <3>3, <3>4
    <3>7. On(me, cmdstack) /\ On(todo[b].who, cmdstack)
      BY <2>1, <3>1, <3>2 DEF On
    <3>8. todo[1].who >= todo[b].who
      BY <1>2, <3>5, <3>6, <3>7 DEF Ordered, Nested
    <3> QED BY <1>2, <3>1, <3>2, <3>3, <3>4, <3>8
  <2> QED BY <1>2, <2>4, <2>5
<1>16. PendingRuns'
  <2> SUFFICES ASSUME past'.strays = {}, past.deaths = {}, cmdstack' # << >>, IsShell(Last(cmdstack'))
               PROVE  FALSE
    BY <1>1, <1>8 DEF PendingRuns, IsShell
  <2>1. PICK b \in DOMAIN todo : todo[b].who = cmdstack[Len(cmdstack) - 1] /\ todo[b].op[1] = "pop"
    BY <1>6, <1>7, <1>8 DEF Ordered, ShellsPopped
  <2>2. ~IsShell(todo[b].who)
    BY <2>1, PopsNoShell
  <2> QED BY <1>5, <2>1, <2>2
<1> QED BY <1>5, <1>9, <1>10, <1>11, <1>12, <1>13, <1>14, <1>15, <1>16 DEF Ordered

LEMMA LostKeeps ==
  ASSUME Typed, ConnectionLost
  PROVE  Ordered'
<1>1. todo = << >> /\ todo' = todo /\ link' = "gone" /\ cmdstack' = << >>
  BY DEF ConnectionLost, Idle
<1>2. DOMAIN todo' = {} /\ DOMAIN cmdstack' = {}
  BY <1>1, ListedEmpty
<1>3. Rising' /\ Nested' /\ Gone' /\ OnlyTop' /\ PopLast'
  BY <1>1, <1>2 DEF Rising, Nested, Gone, OnlyTop, PopLast
<1>4. Accounted' /\ Bottom' /\ ShellsPopped' /\ PendingRuns'
  BY <1>1 DEF Accounted, Bottom, ShellsPopped, PendingRuns
<1> QED BY <1>3, <1>4 DEF Ordered

LEMMA InitOrdered ==
  ASSUME Init
  PROVE  Ordered
<1> DEFINE e == Shell(~script.exec)
<1>1. e.cls = "shell" /\ e.pending = << >>
  BY DEF Shell
<1>2. objs = << e >> /\ cmdstack = << 1 >> /\ link = "up"
  BY DEF Init
<1> HIDE DEF e
<1>3. Listed(objs) /\ Len(objs) = 1 /\ objs[1] = e /\ Listed(cmdstack) /\ Len(cmdstack) = 1 /\ cmdstack[1] = 1
  BY <1>2, ListedSingle
<1>4. DOMAIN objs = 1 .. 1 /\ DOMAIN cmdstack = 1 .. 1 /\ \A o \in 1 .. 1 : o = 1
  BY <1>3, ListedShape
<1>5. cmdstack # << >> /\ Last(cmdstack) = 1
  <2>1. cmdstack # << >>
    BY <1>3, ListedEmpty
  <2> QED BY <1>3, <2>1, ListedFront
<1>6. \A i \in DOMAIN todo : i = 1 /\ todo[i].who = 1 /\ todo[i].op[1] = "line"
  <2>1. CASE script.exec
    <3> DEFINE c == << << "line", Head(script.lines) >> >>
    <3>1. todo = Calls(1, c)
      BY <2>1 DEF Init
    <3>2. Listed(c) /\ Len(c) = 1 /\ c[1] = << "line", Head(script.lines) >>
      BY ListedSingle
    <3>3. c[1][1] = "line"
      BY <3>2
    <3> HIDE DEF c
    <3>4. /\ Listed(Calls(1, c)) /\ Len(Calls(1, c)) = Len(c)
          /\ \A j \in 1 .. Len(c) : Calls(1, c)[j] = [who |-> 1, op |-> c[j]]
      BY <3>2, Began
    <3>5. DOMAIN todo = 1 .. 1 /\ todo[1] = [who |-> 1, op |-> c[1]]
      BY <1>4, <3>1, <3>2, <3>4, ListedShape
    <3> QED BY <1>4, <3>3, <3>5
  <2>2. CASE ~script.exec
    <3>1. todo = << >>
      BY <2>2 DEF Init
    <3> QED BY <3>1, ListedEmpty
  <2> QED BY <2>1, <2>2
<1>7. Rising /\ Gone /\ Accounted /\ Bottom /\ ShellsPopped /\ PendingRuns
  BY <1>1, <1>2, <1>3, <1>4, <1>5 DEF Rising, Gone, Accounted, Bottom, ShellsPopped, PendingRuns, IsShell
<1>8. Nested /\ OnlyTop /\ PopLast
  BY <1>6 DEF Nested, OnlyTop, PopLast, TopOnly
<1> QED BY <1>7, <1>8 DEF Ordered

LEMMA StutterKeeps ==
  ASSUME Ordered, UNCHANGED vars
  PROVE  Ordered'
<1>1. UNCHANGED << todo, cmdstack, objs, link, past >>
  BY DEF vars, stack
<1> QED BY <1>1 DEF Ordered, Rising, Nested, Gone, Accounted, Bottom, OnlyTop, PopLast, ShellsPopped,
                    PendingRuns, IsShell

\* Whatever the commands of a session do: what is on the stack is in the order it was
\* begun in, the calls in progress are nested as the stack is, and as long as no
\* command has popped another, the stack is the session's shell and every command
\* that has not left, each shell above the first about to be popped by the sh below.
THEOREM AlwaysOrdered == Spec => []Ordered
<1>1. Init => Ordered
  BY InitOrdered
<1>2. Typed /\ Typed' /\ Ordered /\ [Next]_vars => Ordered'
  <2> SUFFICES ASSUME Typed, Typed', Ordered, [Next]_vars PROVE Ordered'
    OBVIOUS
  <2>1. CASE Step
    BY <2>1, SomeStep, ProceedsKeeps, OpensKeeps, ThrownKeeps, LeaveKeeps, PopKeeps, EntersKeeps
  <2>2. CASE Event
    BY <2>2, KeySteps, InputStep, OtherWakes, WakesKeeps, LostKeeps DEF Event
  <2>3. CASE UNCHANGED vars
    BY <2>3, StutterKeeps
  <2> QED BY <2>1, <2>2, <2>3 DEF Next
<1> QED BY <1>1, <1>2, AlwaysTyped, PTL DEF Spec

-----------------------------------------------------------------------------
(* What the runs check                                                     *)

LEMMA DoneAtPrompt ==
  ASSUME Typed, Ordered
  PROVE  PromptMeansDone
<1> SUFFICES ASSUME Idle, past.strays = {}
             PROVE  /\ Connected => cmdstack # << >> /\ Head(cmdstack) = 1
                    /\ Connected /\ past.deaths = {} /\ IsShell(Top) => Top = 1 /\ objs[1].pending = << >>
                    /\ link = "gone" => cmdstack = << >>
  BY DEF PromptMeansDone
<1>1. DOMAIN todo = {}
  BY ListedEmpty DEF Idle
<1>2. ASSUME Connected
      PROVE  cmdstack # << >> /\ Head(cmdstack) = 1
  <2>1. cmdstack # << >> /\ cmdstack[1] = 1
    BY <1>2 DEF Connected, Ordered, Bottom
  <2> QED BY <2>1, TopIs
<1>3. ASSUME Connected, past.deaths = {}, IsShell(Top)
      PROVE  Top = 1 /\ objs[1].pending = << >>
  <2>1. link # "gone" /\ cmdstack # << >> /\ cmdstack[1] = 1
    BY <1>3 DEF Connected, Ordered, Bottom
  <2>2. /\ Top = cmdstack[Len(cmdstack)] /\ Len(cmdstack) \in DOMAIN cmdstack
        /\ Len(cmdstack) \in Nat /\ Len(cmdstack) >= 1
    BY <2>1, TopIs DEF Top
  <2>3. ~(Len(cmdstack) > 1)
    BY <1>1, <1>3, <2>1, <2>2 DEF Ordered, ShellsPopped
  <2>4. Top = 1
    BY <2>1, <2>2, <2>3
  <2>5. objs[Top].pending = << >>
    BY <1>1, <1>3, <2>1 DEF Ordered, PendingRuns, Top
  <2> QED BY <2>4, <2>5
<1>4. link = "gone" => cmdstack = << >>
  BY DEF Ordered, Gone
<1> QED BY <1>2, <1>3, <1>4

LEMMA ExitsInTurn ==
  ASSUME Typed, Ordered
  PROVE  ExitInTurn
<1> SUFFICES ASSUME todo # << >>, op[1] = "leave", past.strays = {}, cmdstack # << >>,
                    Last(cmdstack) # me, ~objs[me].left, NEW i \in DOMAIN todo
             PROVE  todo[i].who # Last(cmdstack)
  BY DEF ExitInTurn, Is
<1>1. /\ DOMAIN todo = 1 .. Len(todo) /\ 1 \in DOMAIN todo /\ todo[1].who = me /\ me \in DOMAIN objs
      /\ \A b \in DOMAIN todo : b \in Nat /\ b >= 1 /\ (b <= 1 => b = 1)
  BY HeadIs
<1>2. ~IsShell(me)
  BY HeadCall
<1>3. link # "gone"
  BY DEF Ordered, Gone
<1>4. On(me, cmdstack)
  BY <1>1, <1>2, <1>3 DEF Ordered, Accounted, IsShell
<1>5. PICK k \in DOMAIN cmdstack : cmdstack[k] = me
  BY <1>4 DEF On
<1>6. /\ Last(cmdstack) = cmdstack[Len(cmdstack)] /\ Len(cmdstack) \in DOMAIN cmdstack
      /\ DOMAIN cmdstack = 1 .. Len(cmdstack) /\ Len(cmdstack) \in Nat
  BY TopIs
<1>7. k < Len(cmdstack)
  <2>1. k # Len(cmdstack)
    BY <1>5, <1>6
  <2> QED BY <1>6, <2>1
<1>8. me < Last(cmdstack)
  BY <1>5, <1>6, <1>7 DEF Ordered, Rising
<1>9. me \in Nat /\ Last(cmdstack) \in Nat
  BY <1>5, <1>6, StackNat
<1>10. SUFFICES ASSUME todo[i].who = Last(cmdstack) PROVE FALSE
  OBVIOUS
<1>11. i = 1 \/ 1 < i
  BY <1>1
<1>12. i # 1
  BY <1>1, <1>10
<1>13. On(todo[i].who, cmdstack)
  BY <1>6, <1>10 DEF On
<1>14. todo[1].who >= todo[i].who
  BY <1>1, <1>4, <1>11, <1>12, <1>13 DEF Ordered, Nested
<1> QED BY <1>1, <1>8, <1>9, <1>10, <1>14

\* The shape of the state, as the run checks it
THEOREM TypesHold == Spec => []TypeOK
<1> QED BY AlwaysTyped, TypedMeans, PTL

\* When nothing is running in a connected session, its shell is at the bottom of the
\* stack, and with the shell on top nothing of any line is left over: HoneyPotCommand
\* pops whoever is on top, and it is still the right one (base.py, exit).
THEOREM PromptIsDone == Spec => []PromptMeansDone
<1>1. Typed /\ Ordered => PromptMeansDone
  BY DoneAtPrompt
<1> QED BY <1>1, AlwaysTyped, AlwaysOrdered, PTL

\* An exit that does not pop its own command, and comes from a command that has not
\* left before, pops one with no call in progress.
THEOREM ExitsAreInTurn == Spec => []ExitInTurn
<1>1. Typed /\ Ordered => ExitInTurn
  BY ExitsInTurn
<1> QED BY <1>1, AlwaysTyped, AlwaysOrdered, PTL

-----------------------------------------------------------------------------
(* Which pipes are still to be started                                     *)

\* Nothing has died and there is no sh: then protocol.pp is the pipe whose command
\* the innermost calls are of.
Undisturbed == past.deaths = {} /\ \A p \in DOMAIN pps : pps[p].stage.cmd # "sh"

\* The calls that bring the shell more to do, those of call_command, and those in
\* which a shell goes on
Feeds(o) == o[1] \in {"line", "queue"} \/ (o[1] = "do" /\ o[2] = "lineReceived")
Begins(o) == o[1] \in {"launch", "construct", "call None"}
Resumes(o) == o[1] \in {"runCommand", "runOrPrompt", "processEnded"}

\* A command whose messages go nowhere: the command after it is started before it.
Failed(o) == o[1] = "construct" /\ o[3] = "failed"

\* A command is of the class its pipe names.
OwnPipe == \A o \in DOMAIN objs : ~IsShell(o) => objs[o].cls = pps[objs[o].pp].stage.cmd

\* Without sh there is one shell.
OneShell == \A o \in DOMAIN objs : IsShell(o) => o = 1

\* The pipe of protocol.pp was started, unless that is what comes next.
Entered ==
  pp # 0 /\ ~pps[pp].ran =>
    todo # << >> /\ (op[1] = "launch" \/ (op[1] = "construct" /\ ~Failed(op) /\ op[2] = pp))

\* A command that can write is made at once, from protocol.pp.
MadeAtOnce ==
  \A i \in DOMAIN todo : todo[i].op[1] = "construct" /\ ~Failed(todo[i].op) => i = 1 /\ todo[i].op[2] = pp

\* Nobody brings the shell more to do inside another call.
FedFirst == \A i \in DOMAIN todo : Feeds(todo[i].op) => i = 1

\* s is about to be started.
Due(s) == \E i \in DOMAIN todo : todo[i].op[1] \in {"launch", "construct"} /\ todo[i].op[2] = s

\* A call of the command of protocol.pp, or one of a shell that resumes
Tame(i) ==
  IF IsShell(todo[i].who) THEN Resumes(todo[i].op)
  ELSE objs[todo[i].who].pp = pp /\ ~Begins(todo[i].op)

\* s comes after protocol.pp, and a call_command will end, with protocol.pp as it is.
Reached(i) == todo[i].op[1] = "callend" /\ \A j \in 1 .. i - 1 : Tame(j)
Following(s) == pp # 0 /\ pps[pp].next = s /\ \E i \in DOMAIN todo : Reached(i)

\* s comes after q, which will start it.  The pipes of an item are in the order of
\* their numbers; one that sudo or busybox inserts comes after all of them.
Ahead(q, s) == IF pps[q].last THEN pps[s].last /\ q < s ELSE pps[s].last \/ q > s
After(q, s) ==
  /\ pps[q].next = s /\ Ahead(q, s)
  /\ \A i \in DOMAIN todo : Failed(todo[i].op) => todo[i].op[2] # q

\* The pipes S have not been started, but each will be: next, at the end of the
\* call_command in progress, or by another of S; among them are those of the last item,
\* and then nothing is pending behind that item.
Unran == {p \in DOMAIN pps : ~pps[p].ran}
Chained(S) ==
  /\ S \subseteq Unran /\ \A p \in Unran : pps[p].last => p \in S
  /\ \A s \in S : Due(s) \/ Following(s) \/ \E q \in S : After(q, s)
  /\ S # {} => objs[1].pending = << >> /\ (todo # << >> => ~Feeds(op))

\* The first stage of an item is no command: what is to be called is None.
CallsNone == \E i \in DOMAIN todo : todo[i].op[1] = "call None"

\* The inductive invariant of LastItemRuns, with Typed
Linked ==
  /\ OwnPipe
  /\ Undisturbed => /\ OneShell /\ Entered /\ MadeAtOnce /\ FedFirst
                    /\ CallsNone \/ \E S : Chained(S)

-----------------------------------------------------------------------------
(* Steps that start no pipe and link none                                  *)

\* Pipes, and whose they are, stay as they are.
SamePipes ==
  /\ DOMAIN pps' = DOMAIN pps /\ DOMAIN objs' = DOMAIN objs
  /\ \A p \in DOMAIN pps : /\ pps'[p].stage = pps[p].stage /\ pps'[p].next = pps[p].next
                           /\ pps'[p].ran = pps[p].ran /\ pps'[p].last = pps[p].last
  /\ \A o \in DOMAIN objs : objs'[o].cls = objs[o].cls /\ objs'[o].pp = objs[o].pp
Settled == pp' = pp /\ SamePipes

\* The shell is brought something to do, or has it: then no pipe of S is left.
Busy == Feeds(op) \/ objs[1].pending # << >>

\* The step drops the first k calls, none of which begins a command, and begins
\* others, none of which makes one.
Moves(w, course, k) ==
  /\ Follows(w, course, k) /\ Settled /\ (k >= 1 \/ todo = << >>)
  /\ past'.deaths = {} => past.deaths = {}
  /\ \A j \in 1 .. k : ~Begins(todo[j].op)
  /\ \A j \in 1 .. Len(course) :
       /\ course[j][1] \notin {"construct", "call None"}
       /\ Feeds(course[j]) => j = 1 /\ (todo # << >> => Feeds(op))
  /\ todo = << >> \/ Busy \/ objs'[1].pending = objs[1].pending

\* No session waits with a pipe of the last item not started.
LEMMA NoneLeft ==
  ASSUME Typed, Idle, NEW S, Chained(S)
  PROVE  S = {}
<1> SUFFICES ASSUME S # {} PROVE FALSE
  OBVIOUS
<1>1. Len(pps) \in Nat /\ DOMAIN pps = 1 .. Len(pps) /\ DOMAIN todo = {}
  BY ListedShape, ListedEmpty DEF Typed, TypedPipes, Idle
<1>2. S \subseteq 1 .. Len(pps)
  BY <1>1 DEF Chained, Unran
<1>3. \A s \in S : \E q \in S : Ahead(q, s)
  BY <1>1 DEF Chained, Due, Following, After
<1> DEFINE Lasts == {s \in S : pps[s].last}
           Others == {s \in S : ~pps[s].last}
<1>4. Others = {}
  <2> SUFFICES ASSUME Others # {} PROVE FALSE
    OBVIOUS
  <2>1. Others \subseteq 1 .. Len(pps)
    BY <1>2
  <2>2. PICK s \in Others : \A j \in Others : j <= s
    <3> HIDE DEF Others
    <3> QED BY <1>1, <2>1, LatestIs
  <2>3. PICK q \in S : Ahead(q, s)
    BY <1>3
  <2>4. q \in Others /\ q > s
    BY <2>3 DEF Ahead
  <2>5. q \in Nat /\ s \in Nat /\ q <= s
    BY <1>2, <2>2, <2>4
  <2> QED BY <2>4, <2>5
<1>5. S = Lasts /\ Lasts \subseteq Nat
  <2>1. \A s \in S : pps[s].last
    <3> SUFFICES ASSUME NEW s \in S, ~pps[s].last PROVE FALSE
      OBVIOUS
    <3>1. s \in Others
      OBVIOUS
    <3> QED BY <1>4, <3>1
  <2>2. S \subseteq Nat
    BY <1>2
  <2> QED BY <2>1, <2>2
<1>6. First(Lasts) \in Lasts /\ \A j \in Lasts : First(Lasts) <= j
  <2> HIDE DEF Lasts
  <2> QED BY <1>5, FirstIs
<1>7. PICK q \in S : Ahead(q, First(Lasts))
  BY <1>3, <1>5, <1>6
<1>8. q < First(Lasts) /\ q \in Lasts
  BY <1>5, <1>6, <1>7 DEF Ahead
<1>9. q \in Nat /\ First(Lasts) \in Nat /\ First(Lasts) <= q
  BY <1>5, <1>6, <1>8
<1> QED BY <1>8, <1>9

\* Every command has a pipe.
LEMMA PipeOf ==
  ASSUME Typed
  PROVE  \A o \in DOMAIN objs : ~IsShell(o) => objs[o].pp \in DOMAIN pps
<1> SUFFICES ASSUME NEW o \in DOMAIN objs, ~IsShell(o) PROVE objs[o].pp \in DOMAIN pps
  OBVIOUS
<1>1. Len(pps) \in Nat /\ DOMAIN pps = 1 .. Len(pps)
  BY ListedShape DEF Typed, TypedPipes
<1>2. objs[o].pp \in 0 .. Len(pps) /\ objs[o].pp # 0
  BY DEF Typed, TypedObjs, ObjOK, IsShell
<1> QED BY <1>1, <1>2

LEMMA OwnPipeKept ==
  ASSUME Typed, Linked, SamePipes
  PROVE  OwnPipe'
<1>1. \A o \in DOMAIN objs : ~IsShell(o) => objs[o].pp \in DOMAIN pps
  BY PipeOf
<1> QED BY <1>1 DEF OwnPipe, Linked, SamePipes, IsShell

LEMMA MovesKeeps ==
  ASSUME Typed, Typed', Linked, NEW w, NEW course, NEW k, Moves(w, course, k),
         Undisturbed => \A s \in DOMAIN pps : Following(s) => Following(s)' \/ Due(s)'
  PROVE  Linked'
<1>1. /\ Follows(w, course, k) /\ Settled /\ Listed(todo)
      /\ DOMAIN todo = 1 .. Len(todo) /\ Len(todo) \in Nat /\ k \in 0 .. Len(todo)
  BY ListedShape DEF Moves, Typed, TypedTodo, Follows
<1>2. \A j \in DOMAIN todo' :
        \/ j \in 1 .. Len(course) /\ todo'[j].op = course[j]
        \/ \E b \in DOMAIN todo : b >= 2 /\ b > k /\ todo'[j] = todo[b]
  <2> TAKE j \in DOMAIN todo'
  <2>1. CASE j \in 1 .. Len(course)
    BY <1>1, <2>1, FollowsNew
  <2>2. CASE j > Len(course) /\ Was(j, j - Len(course) + k, k)
    <3>1. DOMAIN todo # {}
      BY <2>2 DEF Was
    <3>2. k >= 1
      BY <3>1, ListedEmpty DEF Moves
    <3> QED BY <1>1, <2>2, <3>2 DEF Was
  <2> QED BY <1>1, <2>1, <2>2, FollowsOne
<1>3. \A b \in DOMAIN todo : b > k => \E j \in DOMAIN todo' : todo'[j] = todo[b]
  BY <1>1, FollowsOld
<1>4. \A b \in DOMAIN todo : Begins(todo[b].op) => b > k
  <2> SUFFICES ASSUME NEW b \in DOMAIN todo, Begins(todo[b].op), ~(b > k) PROVE FALSE
    OBVIOUS
  <2>1. b \in 1 .. k
    BY <1>1
  <2> QED BY <2>1 DEF Moves
<1>5. OwnPipe'
  BY <1>1, OwnPipeKept DEF Settled
<1> SUFFICES ASSUME Undisturbed'
             PROVE  (OneShell /\ Entered /\ MadeAtOnce /\ FedFirst /\ (CallsNone \/ \E S : Chained(S)))'
  BY <1>5 DEF Linked
<1>6. Undisturbed
  BY <1>1 DEF Undisturbed, Settled, SamePipes, Moves
<1>7. OneShell /\ Entered /\ MadeAtOnce /\ FedFirst /\ (CallsNone \/ \E S : Chained(S))
  BY <1>6 DEF Linked
<1>8. OneShell'
  BY <1>1, <1>7 DEF OneShell, Settled, SamePipes, IsShell
<1>9. pp = 0 \/ pps[pp].ran
  <2> SUFFICES ASSUME pp # 0, ~pps[pp].ran PROVE FALSE
    OBVIOUS
  <2>1. todo # << >> /\ op[1] \in {"launch", "construct"}
    BY <1>7 DEF Entered
  <2>2. k >= 1 /\ todo[1].op = op
    BY <2>1, HeadIs DEF Moves
  <2>3. 1 \in 1 .. k
    BY <1>1, <2>2
  <2> QED BY <2>1, <2>2, <2>3 DEF Moves, Begins
<1>10. Entered'
  <2>1. pp \in 0 .. Len(pps) /\ Len(pps) \in Nat /\ DOMAIN pps = 1 .. Len(pps)
    BY ListedShape DEF Typed, TypedPipes
  <2>2. pp = 0 \/ pp \in DOMAIN pps
    BY <2>1
  <2> QED BY <1>1, <1>9, <2>2 DEF Entered, Settled, SamePipes
<1>11. MadeAtOnce'
  <2> SUFFICES ASSUME NEW j \in DOMAIN todo', todo'[j].op[1] = "construct", ~Failed(todo'[j].op) PROVE FALSE
    BY DEF MadeAtOnce, Failed
  <2>1. PICK b \in DOMAIN todo : b >= 2 /\ todo'[j] = todo[b]
    BY <1>2 DEF Moves
  <2>2. b = 1
    BY <1>7, <2>1 DEF MadeAtOnce
  <2> QED BY <2>1, <2>2
<1>12. FedFirst'
  <2> SUFFICES ASSUME NEW j \in DOMAIN todo', Feeds(todo'[j].op) PROVE j = 1
    BY DEF FedFirst, Feeds
  <2>1. CASE j \in 1 .. Len(course) /\ todo'[j].op = course[j]
    BY <2>1 DEF Moves
  <2>2. ASSUME NEW b \in DOMAIN todo, b >= 2, todo'[j] = todo[b] PROVE FALSE
    <3>1. b = 1
      BY <1>7, <2>2 DEF FedFirst
    <3> QED BY <2>2, <3>1
  <2> QED BY <1>2, <2>1, <2>2
<1>13. CASE CallsNone
  <2>1. PICK b \in DOMAIN todo : todo[b].op[1] = "call None"
    BY <1>13 DEF CallsNone
  <2>2. PICK j \in DOMAIN todo' : todo'[j] = todo[b]
    BY <1>3, <1>4, <2>1 DEF Begins
  <2>3. CallsNone'
    BY <2>1, <2>2 DEF CallsNone
  <2> QED BY <1>8, <1>10, <1>11, <1>12, <2>3
<1>14. ASSUME NEW S, Chained(S) PROVE \E T : Chained(T)'
  <2>1. Unran' = Unran
    BY <1>1 DEF Unran, Settled, SamePipes
  <2>2. CASE todo = << >> \/ Busy
    <3>1. S = {}
      BY <1>14, <2>2, NoneLeft DEF Chained, Idle, Feeds, Busy
    <3>2. Chained({})'
      BY <1>1, <1>14, <2>1, <3>1 DEF Chained, Settled, SamePipes, Unran
    <3> QED BY <3>2
  <2>3. CASE todo # << >> /\ ~Busy
    <3>1. S \subseteq Unran' /\ \A p \in Unran' : pps'[p].last => p \in S
      BY <1>1, <1>14, <2>1 DEF Chained, Unran, Settled, SamePipes
    <3>2. ASSUME NEW s \in S PROVE Due(s)' \/ Following(s)' \/ \E q \in S : After(q, s)'
      <4>1. s \in DOMAIN pps
        BY <1>14 DEF Chained, Unran
      <4>2. CASE Due(s)
        <5>1. PICK b \in DOMAIN todo : todo[b].op[1] \in {"launch", "construct"} /\ todo[b].op[2] = s
          BY <4>2 DEF Due
        <5>2. PICK j \in DOMAIN todo' : todo'[j] = todo[b]
          BY <1>3, <1>4, <5>1 DEF Begins
        <5>3. Due(s)'
          BY <5>1, <5>2 DEF Due
        <5> QED BY <5>3
      <4>3. CASE Following(s)
        BY <1>6, <4>1, <4>3
      <4>4. ASSUME NEW q \in S, After(q, s) PROVE After(q, s)'
        <5>1. q \in DOMAIN pps
          BY <1>14 DEF Chained, Unran
        <5>2. ASSUME NEW j \in DOMAIN todo', Failed(todo'[j].op) PROVE todo'[j].op[2] # q
          <6>1. PICK b \in DOMAIN todo : todo'[j] = todo[b]
            BY <1>2, <5>2 DEF Moves, Failed
          <6> QED BY <4>4, <5>2, <6>1 DEF After
        <5>3. pps'[q].next = s /\ Ahead(q, s)'
          BY <1>1, <4>1, <4>4, <5>1 DEF After, Ahead, Settled, SamePipes
        <5> QED BY <5>2, <5>3 DEF After, Failed
      <4> QED BY <1>14, <4>2, <4>3, <4>4 DEF Chained
    <3>3. S # {} => objs'[1].pending = << >> /\ (todo' # << >> => ~Feeds(op'))
      <4> SUFFICES ASSUME S # {} PROVE objs'[1].pending = << >> /\ (todo' # << >> => ~Feeds(op'))
        OBVIOUS
      <4>1. objs'[1].pending = << >>
        BY <1>14, <2>3 DEF Chained, Moves
      <4>2. ASSUME todo' # << >> PROVE ~Feeds(op')
        <5>1. 1 \in DOMAIN todo' /\ op' = todo'[1].op
          <6>1. Listed(todo')
            BY DEF Typed, TypedTodo
          <6>2. Len(todo') >= 1 /\ Head(todo') = todo'[1]
            BY <4>2, <6>1, ListedTail
          <6> QED BY <6>1, <6>2, ListedShape DEF op
        <5>2. CASE 1 \in 1 .. Len(course) /\ todo'[1].op = course[1]
          BY <2>3, <5>1, <5>2 DEF Moves, Busy
        <5>3. ASSUME NEW b \in DOMAIN todo, b >= 2, todo'[1] = todo[b] PROVE ~Feeds(op')
          <6>1. ~Feeds(todo[b].op)
            BY <1>7, <5>3 DEF FedFirst
          <6> QED BY <5>1, <5>3, <6>1
        <5> QED BY <1>2, <5>1, <5>2, <5>3
      <4> QED BY <4>1, <4>2
    <3>4. Chained(S)'
      BY <3>1, <3>2, <3>3 DEF Chained, Feeds
    <3> QED BY <3>4
  <2> QED BY <2>2, <2>3
<1> QED BY <1>7, <1>8, <1>10, <1>11, <1>12, <1>13, <1>14

-----------------------------------------------------------------------------
(* ... and are of a command of protocol.pp, or resume a shell              *)

\* No call_command ends that would start a pipe.
Calm(w, course, k) ==
  /\ \/ \A j \in 1 .. k : todo[j].op[1] # "callend"
     \/ k = 1 /\ (pp = 0 \/ pps[pp].next = 0)
  /\ \/ course = << >>
     \/ w \in DOMAIN objs /\ IsShell(w) /\ \A j \in 1 .. Len(course) : Resumes(course[j])
     \/ /\ k \in DOMAIN todo /\ w = todo[k].who /\ w \in DOMAIN objs /\ ~IsShell(w)
        /\ \A j \in 1 .. Len(course) : ~Begins(course[j])

LEMMA CalmFollows ==
  ASSUME Typed, Typed', NEW w, NEW course, NEW k, Moves(w, course, k), Calm(w, course, k)
  PROVE  \A s \in DOMAIN pps : Following(s) => Following(s)'
<1> SUFFICES ASSUME NEW s \in DOMAIN pps, Following(s) PROVE Following(s)'
  OBVIOUS
<1>1. /\ Follows(w, course, k) /\ Settled /\ Listed(todo) /\ Len(course) \in Nat
      /\ DOMAIN todo = 1 .. Len(todo) /\ Len(todo) \in Nat /\ k \in 0 .. Len(todo)
      /\ DOMAIN todo' = 1 .. Len(todo') /\ Len(todo') \in Nat
  BY ListedShape, FollowsFrames DEF Moves, Typed, TypedTodo
<1>2. PICK i \in DOMAIN todo : Reached(i)
  BY DEF Following
<1>3. pp # 0 /\ pps[pp].next = s /\ s # 0 /\ pp \in DOMAIN pps
  <2>1. Len(pps) \in Nat /\ DOMAIN pps = 1 .. Len(pps) /\ pp \in 0 .. Len(pps)
    BY ListedShape DEF Typed, TypedPipes
  <2> QED BY <2>1 DEF Following
<1>4. pp' = pp /\ pps'[pp].next = s
  BY <1>1, <1>3 DEF Settled, SamePipes
<1>5. todo[i].op[1] = "callend" /\ \A j \in 1 .. i - 1 : Tame(j)
  BY <1>2 DEF Reached
<1>6. k >= 1 /\ \A o \in DOMAIN objs : o \in DOMAIN objs' /\ objs'[o].cls = objs[o].cls /\ objs'[o].pp = objs[o].pp
  <2>1. todo # << >>
    BY <1>2, ListedEmpty
  <2> QED BY <1>1, <2>1 DEF Moves, Settled, SamePipes
<1>7. i > k
  <2> SUFFICES ASSUME ~(i > k) PROVE FALSE
    OBVIOUS
  <2>1. i \in 1 .. k
    BY <1>1, <1>2
  <2>2. k = 1 /\ (pp = 0 \/ pps[pp].next = 0)
    BY <1>5, <2>1 DEF Calm
  <2> QED BY <1>3, <2>2
<1> DEFINE n == i - k + Len(course)
<1>8. n \in 1 .. Len(todo') /\ todo'[n] = todo[i]
  <2>1. i \in k + 1 .. Len(todo)
    BY <1>1, <1>7
  <2> QED BY <2>1 DEF Moves, Follows
<1>9. ASSUME NEW j \in 1 .. n - 1 PROVE Tame(j)'
  <2>1. j \in DOMAIN todo' /\ j < n
    BY <1>1, <1>8
  <2>2. CASE j \in 1 .. Len(course)
    <3>1. todo'[j].who = w /\ todo'[j].op = course[j] /\ course # << >>
      BY <1>1, <2>2, FollowsNew
    <3>2. CASE w \in DOMAIN objs /\ IsShell(w) /\ Resumes(course[j])
      <4>1. objs'[todo'[j].who].cls = "shell" /\ Resumes(todo'[j].op)
        BY <1>6, <3>1, <3>2 DEF IsShell
      <4> QED BY <4>1 DEF Tame, Resumes, IsShell
    <3>3. CASE k \in DOMAIN todo /\ w = todo[k].who /\ w \in DOMAIN objs /\ ~IsShell(w) /\ ~Begins(course[j])
      <4>1. k \in 1 .. i - 1
        BY <1>1, <1>2, <1>6, <1>7
      <4>2. objs[w].pp = pp
        BY <1>5, <3>3, <4>1 DEF Tame
      <4>3. objs'[todo'[j].who].cls # "shell" /\ objs'[todo'[j].who].pp = pp' /\ ~Begins(todo'[j].op)
        BY <1>4, <1>6, <3>1, <3>3, <4>2 DEF IsShell
      <4> QED BY <4>3 DEF Tame, Begins, IsShell
    <3> QED BY <2>2, <3>1, <3>2, <3>3 DEF Calm
  <2>3. CASE j > Len(course)
    <3> DEFINE b == j - Len(course) + k
    <3>1. b \in k + 1 .. Len(todo) /\ todo'[j] = todo[b]
      BY <1>1, <2>1, <2>3 DEF Follows
    <3>2. b \in 1 .. i - 1 /\ b \in DOMAIN todo
      BY <1>1, <1>6, <2>1, <2>3, <3>1
    <3>3. Tame(b)
      BY <1>5, <3>2
    <3>4. todo[b].who \in DOMAIN objs
      BY <3>2 DEF Typed, TypedTodo, FrameOK
    <3> HIDE DEF b
    <3>5. objs'[todo'[j].who].cls = "shell" <=> IsShell(todo[b].who)
      BY <1>6, <3>1, <3>4 DEF IsShell
    <3> QED BY <1>4, <1>6, <3>1, <3>3, <3>4, <3>5 DEF Tame, Resumes, Begins, IsShell
  <2> QED BY <1>1, <2>1, <2>2, <2>3
<1>10. n \in DOMAIN todo' /\ Reached(n)'
  <2> HIDE DEF n
  <2> QED BY <1>1, <1>5, <1>8, <1>9 DEF Reached
<1> HIDE DEF n
<1> QED BY <1>4, <1>3, <1>10 DEF Following

\* What an exception leaves of a session that has died
LEMMA DeadLinked ==
  ASSUME Typed, Linked, SamePipes, past'.deaths # {}
  PROVE  Linked'
<1>1. OwnPipe'
  BY OwnPipeKept
<1> QED BY <1>1 DEF Linked, Undisturbed

\* An exception, unless all calls up to that which catches it are of one command and
\* none is a call_command
LEMMA RaiseKills ==
  ASSUME Typed, todo # << >>, Raise, past'.deaths = {}
  PROVE  /\ past.deaths = {}
         /\ \E i \in 2 .. Len(todo) : /\ Caught(i)
                                      /\ \A j \in 1 .. i : todo[j].who = todo[i].who /\ ~Starting(todo[j].op)
<1>1. DOMAIN past = {"strays", "deaths", "appended"}
  BY DEF Typed, Flags
<1>2. past' # [past EXCEPT !.deaths = @ \cup {Blame}]
  BY <1>1
<1>3. ~Uncaught
  BY <1>2 DEF Uncaught
<1>4. PICK i \in 2 .. Len(todo) : Caught(i)
  BY <1>3, RaiseEnds
<1>5. past' = past /\ \A j \in 1 .. i : todo[j].who = todo[i].who /\ ~Starting(todo[j].op)
  BY <1>2, <1>4 DEF Caught
<1> QED BY <1>4, <1>5

LEMMA GoesCalmly ==
  ASSUME Typed, Typed', Linked, todo # << >>, Settled, past'.deaths = {} => past.deaths = {},
         NEW w \in DOMAIN objs, NEW course, Listed(course), todo' = Calls(w, course) \o Tail(todo),
         ~Begins(op), op[1] = "callend" => pp = 0 \/ pps[pp].next = 0,
         Busy \/ objs'[1].pending = objs[1].pending,
         \A j \in 1 .. Len(course) :
           /\ Feeds(course[j]) => j = 1 /\ Feeds(op)
           /\ IF IsShell(w) THEN Resumes(course[j]) ELSE w = me /\ ~Begins(course[j])
  PROVE  Linked'
<1>1. Follows(w, course, 1)
  BY FollowsOn DEF Typed, TypedTodo
<1>2. todo[1].op = op /\ todo[1].who = me /\ 1 \in DOMAIN todo
  BY HeadIs
<1>3. \A j \in 1 .. 1 : j = 1
  OBVIOUS
<1>4. \A j \in 1 .. Len(course) : course[j][1] \notin {"construct", "call None"}
  BY DEF Resumes, Begins
<1>5. Moves(w, course, 1)
  <2>1. \A j \in 1 .. 1 : ~Begins(todo[j].op)
    BY <1>2, <1>3
  <2>2. \A j \in 1 .. Len(course) : Feeds(course[j]) => j = 1 /\ (todo # << >> => Feeds(op))
    OBVIOUS
  <2>3. 1 >= 1
    OBVIOUS
  <2>4. todo = << >> \/ Busy \/ objs'[1].pending = objs[1].pending
    OBVIOUS
  <2>5. past'.deaths = {} => past.deaths = {}
    OBVIOUS
  <2> QED BY <1>1, <1>4, <2>1, <2>2, <2>3, <2>4, <2>5 DEF Moves
<1>6. Calm(w, course, 1)
  BY <1>2, <1>3 DEF Calm
<1>7. \A s \in DOMAIN pps : Following(s) => Following(s)'
  BY <1>5, <1>6, CalmFollows
<1> QED BY <1>5, <1>7, MovesKeeps

LEMMA SkipsCalmly ==
  ASSUME Typed, Typed', Linked, todo # << >>, Settled, past'.deaths = {} => past.deaths = {}, Skip,
         ~Begins(op), op[1] = "callend" => pp = 0 \/ pps[pp].next = 0,
         Busy \/ objs'[1].pending = objs[1].pending
  PROVE  Linked'
<1>1. me \in DOMAIN objs
  BY HeadIs
<1>2. todo' = Calls(me, << >>) \o Tail(todo)
  BY SkipIsGo DEF Skip, Typed, TypedTodo
<1>3. Listed(<< >>) /\ \A j \in 1 .. Len(<< >>) : FALSE
  BY ListedEmpty
<1> QED BY <1>1, <1>2, <1>3, GoesCalmly

LEMMA RaisesCalmly ==
  ASSUME Typed, Typed', Linked, todo # << >>, Settled, Raise,
         Busy \/ objs'[1].pending = objs[1].pending
  PROVE  Linked'
<1>1. CASE past'.deaths # {}
  BY <1>1, DeadLinked DEF Settled
<1>2. CASE past'.deaths = {}
  <2>1. past.deaths = {}
    BY <1>2, RaiseKills
  <2>2. PICK i \in 2 .. Len(todo) :
          Caught(i) /\ \A j \in 1 .. i : todo[j].who = todo[i].who /\ ~Starting(todo[j].op)
    BY <1>2, RaiseKills
  <2> DEFINE course == << do(todo[i].op[2]) >>
             w == todo[i].who
  <2>3. Follows(w, course, i)
    BY <2>2, FollowsCaught DEF Typed, TypedTodo
  <2>4. DOMAIN todo = 1 .. Len(todo) /\ Len(todo) \in Nat /\ i \in 1 .. i /\ i \in DOMAIN todo /\ i >= 1
    BY HeadIs
  <2>5. w \in DOMAIN objs /\ ~IsShell(w) /\ todo[i].op[2] \in Methods
    <3>1. FrameOK(todo[i], objs, pps) /\ todo[i].op[1] = "guard"
      BY <2>2, <2>4 DEF Typed, TypedTodo, Caught
    <3> QED BY <3>1 DEF FrameOK, Starts, ShellOp, CommandOp, PlainSteps, IsShell
  <2>6. /\ \A j \in 1 .. i : ~Begins(todo[j].op) /\ todo[j].op[1] # "callend"
        /\ \A j \in 1 .. Len(course) : j = 1 /\ course[j] = do(todo[i].op[2])
    <3>1. \A j \in 1 .. i : ~Begins(todo[j].op) /\ todo[j].op[1] # "callend"
      BY <2>2 DEF Starting, Begins
    <3>2. Len(course) = 1 /\ course[1] = do(todo[i].op[2])
      BY ListedSingle
    <3> HIDE DEF course
    <3> QED BY <3>1, <3>2
  <2>7. LET o == do(todo[i].op[2]) IN ~Begins(o) /\ ~Feeds(o)
    <3>1. "lineReceived" \notin Methods
      BY DEF Methods
    <3> QED BY <2>5, <3>1 DEF do, Begins, Feeds
  <2> HIDE DEF course, w
  <2>8. Moves(w, course, i)
    BY <2>1, <2>3, <2>4, <2>6, <2>7 DEF Moves, Begins
  <2>9. Calm(w, course, i)
    BY <2>4, <2>5, <2>6, <2>7 DEF Calm, w
  <2>10. \A s \in DOMAIN pps : Following(s) => Following(s)'
    BY <2>8, <2>9, CalmFollows
  <2> QED BY <2>8, <2>10, MovesKeeps
<1> QED BY <1>1, <1>2

-----------------------------------------------------------------------------
(* The steps that leave the pipes alone                                    *)

LEMMA StackSettled ==
  ASSUME UNCHANGED stack
  PROVE  Settled /\ objs'[1].pending = objs[1].pending
  BY DEF stack, Settled, SamePipes

\* One command is changed: neither its class nor its pipe, nor what is pending.
LEMMA OneSettled ==
  ASSUME Typed, NEW o \in DOMAIN objs, NEW e, e.cls = objs[o].cls, e.pp = objs[o].pp,
         e.pending = objs[o].pending, objs' = [objs EXCEPT ![o] = e], pps' = pps, pp' = pp
  PROVE  Settled /\ objs'[1].pending = objs[1].pending
<1>1. /\ DOMAIN objs' = DOMAIN objs /\ objs'[o] = e
      /\ \A x \in DOMAIN objs : x # o => objs'[x] = objs[x]
  OBVIOUS
<1>2. Len(objs) \in Nat /\ DOMAIN objs = 1 .. Len(objs)
  BY ListedShape DEF Typed, TypedObjs
<1>3. 1 \in DOMAIN objs
  BY <1>2
<1> QED BY <1>1, <1>3 DEF Settled, SamePipes

\* ... when the change is to a field that matters to neither
LEMMA FieldSettled ==
  ASSUME Typed, todo # << >>, NEW e, DOMAIN e = ObjFields,
         \A f \in {"cls", "pp", "pending"} : e[f] = objs[me][f],
         objs' = [objs EXCEPT ![me] = e], pps' = pps, pp' = pp
  PROVE  Settled /\ objs'[1].pending = objs[1].pending
<1>1. me \in DOMAIN objs /\ e.cls = objs[me].cls /\ e.pp = objs[me].pp /\ e.pending = objs[me].pending
  BY HeadIs
<1> QED BY <1>1, OneSettled

LEMMA StillLinks ==
  ASSUME Typed, Typed', Linked,
         \/ WriteToFile \/ RegisterRedir \/ Guarded \/ Echo \/ ChangeDir \/ Fill
         \/ ProcessEnded \/ UseTerminal \/ RaiseHere \/ OnTree \/ Mkfile \/ Link \/ CallLater \/ Cancel \/ CutHeader
  PROVE  Linked'
<1>1. /\ todo # << >> /\ UNCHANGED stack
      /\ op[1] \in {"write", "redirFiles", "guard", "password_input", "cd", "fill", "processEnded", "terminal",
                    "raise", "file", "mkfile", "link", "callLater", "cancel", "cutHeader"}
  BY DEF WriteToFile, RegisterRedir, Guarded, Echo, ChangeDir, Fill, ProcessEnded, UseTerminal,
         RaiseHere, OnTree, Mkfile, Link, CallLater, Cancel, CutHeader, Is, stack
<1>2. DOMAIN past = {"strays", "deaths", "appended"}
  BY DEF Typed, Flags
<1>3. Raise \/ (Skip /\ past'.deaths = past.deaths)
  BY <1>2 DEF WriteToFile, RegisterRedir, Guarded, Echo, ChangeDir, Fill, ProcessEnded, UseTerminal,
              RaiseHere, OnTree, Mkfile, Link, CallLater, Cancel, CutHeader, Onto
<1>4. Settled /\ objs'[1].pending = objs[1].pending
  BY <1>1, StackSettled
<1>5. ~Begins(op) /\ op[1] # "callend"
  BY <1>1 DEF Begins
<1>6. CASE Raise
  BY <1>1, <1>4, <1>6, RaisesCalmly
<1>7. CASE Skip /\ past'.deaths = past.deaths
  BY <1>1, <1>4, <1>5, <1>7, SkipsCalmly
<1> QED BY <1>3, <1>6, <1>7

LEMMA FileLinks ==
  ASSUME Typed, Typed', Linked, Await \/ Temp \/ Keep \/ Move
  PROVE  Linked'
<1>1. /\ todo # << >> /\ op[1] \in {"await", "temp", "keep", "move"} /\ pps' = pps /\ pp' = pp
  BY DEF Await, Temp, Keep, Move, Is
<1>2. me \in DOMAIN objs /\ DOMAIN objs[me] = ObjFields
  BY <1>1, HeadCall DEF ObjOK
<1>3. ~Begins(op) /\ op[1] # "callend"
  BY <1>1 DEF Begins
<1>4. ASSUME NEW n, objs' = [objs EXCEPT ![me].got = n], Skip, past'.deaths = past.deaths PROVE Linked'
  <2> DEFINE e == [objs[me] EXCEPT !.got = n]
  <2>1. objs' = [objs EXCEPT ![me] = e]
    BY <1>2, <1>4
  <2>2. DOMAIN e = ObjFields /\ \A f \in {"cls", "pp", "pending"} : e[f] = objs[me][f]
    BY <1>2 DEF ObjFields
  <2> HIDE DEF e
  <2>3. Settled /\ objs'[1].pending = objs[1].pending
    BY <1>1, <2>1, <2>2, FieldSettled
  <2> QED BY <1>1, <1>3, <1>4, <2>3, SkipsCalmly
<1>5. CASE Await
  <2> DEFINE e == [objs[me] EXCEPT !.await = op[2]]
  <2>1. objs' = [objs EXCEPT ![me] = e] /\ Skip /\ past' = past
    BY <1>2, <1>5 DEF Await
  <2>2. DOMAIN e = ObjFields /\ \A f \in {"cls", "pp", "pending"} : e[f] = objs[me][f]
    BY <1>2 DEF ObjFields
  <2> HIDE DEF e
  <2>3. Settled /\ objs'[1].pending = objs[1].pending
    BY <1>1, <2>1, <2>2, FieldSettled
  <2> QED BY <1>1, <1>3, <2>1, <2>3, SkipsCalmly
<1>6. CASE Temp
  <2> DEFINE name == IF objs[me].safe # NoFile THEN objs[me].safe ELSE << "tmp", me >>
             e == [objs[me] EXCEPT !.got = name, !.safe = name]
  <2>1. /\ objs' = [objs EXCEPT ![me].got = name, ![me].safe = name]
        /\ Skip /\ past' = past
    BY <1>6 DEF Temp
  <2> HIDE DEF name
  <2>2. objs' = [objs EXCEPT ![me] = e]
    BY <1>2, <2>1
  <2>3. DOMAIN e = ObjFields /\ \A f \in {"cls", "pp", "pending"} : e[f] = objs[me][f]
    BY <1>2 DEF ObjFields
  <2> HIDE DEF e
  <2>4. Settled /\ objs'[1].pending = objs[1].pending
    BY <1>1, <2>2, <2>3, FieldSettled
  <2> QED BY <1>1, <1>3, <2>1, <2>4, SkipsCalmly
<1>7. CASE Keep
  <2>1. \E n : objs' = [objs EXCEPT ![me].got = n]
    BY <1>7 DEF Keep
  <2>2. Skip /\ past'.deaths = past.deaths
    BY <1>7 DEF Keep
  <2> QED BY <1>4, <2>1, <2>2
<1>8. CASE Move
  <2>1. CASE objs[me].got \notin DOMAIN disk
    <3>1. Raise /\ UNCHANGED stack
      BY <1>1, <1>8, <2>1 DEF Move, stack
    <3> QED BY <1>1, <3>1, StackSettled, RaisesCalmly
  <2>2. CASE objs[me].got \in DOMAIN disk
    <3>1. \E n : objs' = [objs EXCEPT ![me].got = n]
      BY <1>8, <2>2 DEF Move
    <3>2. Skip /\ past'.deaths = past.deaths
      BY <1>8, <2>2 DEF Move
    <3> QED BY <1>4, <3>1, <3>2
  <2> QED BY <2>1, <2>2
<1> QED BY <1>5, <1>6, <1>7, <1>8

\* Calls of a command that begin none, and bring the shell nothing
LEMMA OwnCalls ==
  ASSUME Typed, Typed', Linked, todo # << >>, ~IsShell(me), ~Begins(op), op[1] # "callend", Settled,
         objs'[1].pending = objs[1].pending, past'.deaths = past.deaths, NEW course, Listed(course), Go(me, course),
         \A j \in 1 .. Len(course) : ~Begins(course[j]) /\ (Feeds(course[j]) => j = 1 /\ Feeds(op))
  PROVE  Linked'
<1>1. me \in DOMAIN objs
  BY HeadIs
<1>2. todo' = Calls(me, course) \o Tail(todo)
  BY DEF Go
<1> QED BY <1>1, <1>2, GoesCalmly

LEMMA AnswerLinks ==
  ASSUME Typed, Typed', Linked, Answer
  PROVE  Linked'
<1>1. /\ todo # << >> /\ op[1] = "answer" /\ pps' = pps /\ pp' = pp
      /\ objs' = [objs EXCEPT ![me].await = ""]
  BY DEF Answer, Is
<1>2. me \in DOMAIN objs /\ ObjOK(objs[me], pps) /\ ~IsShell(me)
  BY <1>1, HeadCall
<1> DEFINE e == [objs[me] EXCEPT !.await = ""]
<1>3. objs' = [objs EXCEPT ![me] = e]
  BY <1>1, <1>2
<1>4. DOMAIN e = ObjFields /\ \A f \in {"cls", "pp", "pending"} : e[f] = objs[me][f]
  BY <1>2 DEF ObjFields, ObjOK
<1> HIDE DEF e
<1>5. Settled /\ objs'[1].pending = objs[1].pending
  BY <1>1, <1>3, <1>4, FieldSettled
<1>6. CASE objs[me].await = ""
  BY <1>1, <1>5, <1>6, RaisesCalmly DEF Answer
<1>7. CASE objs[me].await # ""
  <2> DEFINE course == << do(objs[me].await) >>
  <2>1. Go(me, course) /\ past' = past
    BY <1>7 DEF Answer
  <2>2. Listed(course) /\ Len(course) = 1 /\ course[1] = do(objs[me].await)
    BY ListedSingle
  <2>3. LET o == do(objs[me].await) IN ~Begins(o) /\ ~Feeds(o)
    <3>1. objs[me].await \in Methods /\ "lineReceived" \notin Methods
      BY <1>2, <1>7 DEF ObjOK, IsShell, Methods
    <3> QED BY <3>1 DEF do, Begins, Feeds
  <2> HIDE DEF course
  <2>4. \A j \in 1 .. Len(course) : ~Begins(course[j]) /\ (Feeds(course[j]) => j = 1 /\ Feeds(op))
    BY <2>2, <2>3
  <2>5. ~Begins(op) /\ op[1] # "callend"
    BY <1>1 DEF Begins
  <2> QED BY <1>1, <1>2, <1>5, <2>1, <2>2, <2>4, <2>5, OwnCalls
<1> QED BY <1>6, <1>7

LEMMA CourseLinks ==
  ASSUME Typed, Typed', Linked, Course
  PROVE  Linked'
<1>1. todo # << >> /\ op[1] = "do" /\ UNCHANGED stack /\ past' = past
  BY DEF Course, Is
<1>2. PICK course \in Courses(objs[me].cls, op[2], objs[me].fed) : Go(me, course)
  BY DEF Course
<1>3. /\ me \in DOMAIN objs /\ ObjOK(objs[me], pps) /\ ~IsShell(me)
      /\ op[2] \in Methods \cup {"start", "call", "lineReceived"}
  BY <1>1, HeadCall
<1>4. objs[me].cls \in DOMAIN commands
  BY <1>3 DEF ObjOK, IsShell
<1>5. /\ Listed(course)
      /\ \A j \in 1 .. Len(course) : CommandOp(objs[me].cls, course[j])
      /\ \/ \A j \in 1 .. Len(course) : Quiet(course[j])
         \/ op[2] = "start" /\ course = << do("call"), exit >>
         \/ op[2] = "call" /\ course = << shell, pop >>
         \/ op[2] = "lineReceived" /\ course = << queue >>
  BY <1>2, <1>3, <1>4, CourseTyped
<1>6. \A j \in 1 .. Len(course) : ~Begins(course[j])
  BY <1>5 DEF Begins, CommandOp, PlainSteps
<1>7. \A j \in 1 .. Len(course) : Feeds(course[j]) => j = 1 /\ Feeds(op)
  <2>1. CASE \A j \in 1 .. Len(course) : Quiet(course[j])
    BY <1>5, <2>1 DEF Quiet, Feeds, CommandOp, PlainSteps
  <2>2. CASE op[2] = "start" /\ course = << do("call"), exit >>
    <3>1. ~Feeds(do("call")) /\ ~Feeds(exit)
      BY DEF Feeds, do, exit
    <3>2. \A j \in 1 .. Len(course) : course[j] \in {do("call"), exit}
      BY <2>2
    <3> QED BY <3>1, <3>2
  <2>3. CASE op[2] = "call" /\ course = << shell, pop >>
    <3>1. ~Feeds(shell) /\ ~Feeds(pop)
      BY DEF Feeds, shell, pop
    <3>2. \A j \in 1 .. Len(course) : course[j] \in {shell, pop}
      BY <2>3
    <3> QED BY <3>1, <3>2
  <2>4. CASE op[2] = "lineReceived" /\ course = << queue >>
    <3>1. Len(course) = 1 /\ Feeds(op)
      BY <1>1, <2>4 DEF Feeds
    <3> QED BY <3>1
  <2> QED BY <1>5, <2>1, <2>2, <2>3, <2>4
<1>8. ~Begins(op) /\ op[1] # "callend"
  BY <1>1 DEF Begins
<1>9. Settled /\ objs'[1].pending = objs[1].pending
  BY <1>1, StackSettled
<1> QED BY <1>1, <1>2, <1>3, <1>5, <1>6, <1>7, <1>8, <1>9, OwnCalls

-----------------------------------------------------------------------------
(* The steps of a shell, and the end of a command                          *)

LEMMA ShellLinks ==
  ASSUME Typed, Typed', Linked, RunNothing \/ RunOrPrompt
  PROVE  Linked'
<1>1. todo # << >> /\ op[1] \in {"runCommand", "runOrPrompt"} /\ UNCHANGED stack /\ past' = past
  BY DEF RunNothing, RunOrPrompt, Is
<1>2. IsShell(me) /\ me \in DOMAIN objs
  BY <1>1, HeadCall
<1>3. ~Begins(op) /\ op[1] # "callend"
  BY <1>1 DEF Begins
<1>4. Settled /\ objs'[1].pending = objs[1].pending
  BY <1>1, StackSettled
<1>5. ASSUME NEW o, Resumes(o), Go(me, << o >>) PROVE Linked'
  <2> DEFINE course == << o >>
  <2>1. Listed(course) /\ Len(course) = 1 /\ course[1] = o
    BY ListedSingle
  <2>2. todo' = Calls(me, course) \o Tail(todo)
    BY <1>5 DEF Go
  <2> HIDE DEF course
  <2>3. ~Feeds(o)
    BY <1>5 DEF Resumes, Feeds
  <2>4. \A j \in 1 .. Len(course) : Resumes(course[j]) /\ ~Feeds(course[j])
    BY <1>5, <2>1, <2>3
  <2> QED BY <1>1, <1>2, <1>3, <1>4, <2>1, <2>2, <2>4, GoesCalmly
<1>6. Skip => Linked'
  BY <1>1, <1>3, <1>4, SkipsCalmly
<1>7. Go(me, << >>) => Linked'
  BY <1>1, <1>6, SkipIsGo DEF Go, Skip, Typed, TypedTodo
<1>8. Resumes(processEnded) /\ Resumes(<< "runCommand" >>)
  BY DEF Resumes, processEnded
<1>9. \/ Skip \/ Go(me, << >>) \/ Go(me, << processEnded >>) \/ Go(me, << << "runCommand" >> >>)
  BY DEF RunNothing, RunOrPrompt
<1> QED BY <1>5, <1>6, <1>7, <1>8, <1>9

LEMMA LeaveLinks ==
  ASSUME Typed, Typed', Linked, Leave
  PROVE  Linked'
<1>1. /\ todo # << >> /\ op[1] = "leave" /\ pps' = pps /\ pp' = pp
      /\ objs' = [objs EXCEPT ![me].left = TRUE]
  BY DEF Leave, Is
<1> DEFINE e == [objs[me] EXCEPT !.left = TRUE]
<1>2. me \in DOMAIN objs /\ ObjOK(objs[me], pps)
  BY <1>1, HeadCall
<1>3. objs' = [objs EXCEPT ![me] = e]
  BY <1>1, <1>2
<1>4. DOMAIN e = ObjFields /\ \A f \in {"cls", "pp", "pending"} : e[f] = objs[me][f]
  BY <1>2 DEF ObjFields, ObjOK
<1> HIDE DEF e
<1>5. Settled /\ objs'[1].pending = objs[1].pending
  BY <1>1, <1>3, <1>4, FieldSettled
<1>6. past'.deaths = past.deaths /\ ~Begins(op) /\ op[1] # "callend"
  <2>1. DOMAIN past = {"strays", "deaths", "appended"}
    BY DEF Typed, Flags
  <2> QED BY <1>1, <2>1 DEF Leave, Begins
<1>7. Skip => Linked'
  BY <1>1, <1>5, <1>6, SkipsCalmly
<1>8. ASSUME cmdstack # << >>, cmdstack' # << >>, IsShell(Last(cmdstack')),
             todo' = Calls(Last(cmdstack'), << << "runCommand" >> >>) \o Tail(todo)
      PROVE  Linked'
  <2> DEFINE course == << << "runCommand" >> >>
             w == Last(cmdstack')
  <2>1. Listed(course) /\ Len(course) = 1 /\ course[1] = << "runCommand" >>
    BY ListedSingle
  <2>2. w \in DOMAIN objs
    <3>1. Listed(cmdstack') /\ \A i \in DOMAIN cmdstack' : cmdstack'[i] \in DOMAIN objs'
      BY DEF Typed, TypedStack
    <3>2. Last(cmdstack') = cmdstack'[Len(cmdstack')] /\ Len(cmdstack') >= 1
      BY <1>8, <3>1, ListedFront
    <3>3. Len(cmdstack') \in DOMAIN cmdstack'
      BY <3>1, <3>2, ListedShape
    <3> QED BY <1>5, <3>1, <3>2, <3>3 DEF Settled, SamePipes
  <2>3. todo' = Calls(w, course) \o Tail(todo) /\ IsShell(w)
    BY <1>8
  <2> HIDE DEF course, w
  <2>4. \A j \in 1 .. Len(course) : Resumes(course[j]) /\ ~Feeds(course[j])
    BY <2>1 DEF Resumes, Feeds
  <2> QED BY <1>1, <1>5, <1>6, <2>1, <2>2, <2>3, <2>4, GoesCalmly
<1>9. \/ Skip
      \/ /\ cmdstack # << >> /\ cmdstack' # << >> /\ IsShell(Last(cmdstack'))
         /\ todo' = Calls(Last(cmdstack'), << << "runCommand" >> >>) \o Tail(todo)
  BY DEF Leave
<1> QED BY <1>7, <1>8, <1>9

\* What is pending at a shell is another.
LEMMA PendingSettled ==
  ASSUME Typed, NEW o \in DOMAIN objs, NEW x, objs' = [objs EXCEPT ![o].pending = x], pps' = pps, pp' = pp
  PROVE  Settled
<1>1. /\ DOMAIN objs' = DOMAIN objs /\ objs'[o] = [objs[o] EXCEPT !.pending = x]
      /\ \A y \in DOMAIN objs : y # o => objs'[y] = objs[y]
  OBVIOUS
<1>2. DOMAIN objs[o] = ObjFields
  BY DEF Typed, TypedObjs, ObjOK
<1>3. objs'[o].cls = objs[o].cls /\ objs'[o].pp = objs[o].pp
  BY <1>1, <1>2 DEF ObjFields
<1> QED BY <1>1, <1>3 DEF Settled, SamePipes

LEMMA LineLinks ==
  ASSUME Typed, Typed', Linked, LineReceived
  PROVE  Linked'
<1> DEFINE pending == IF op[2].unclosed THEN << >> ELSE objs[me].pending \o op[2].items
<1>1. /\ todo # << >> /\ op[1] = "line" /\ pps' = pps /\ pp' = pp /\ past' = past
      /\ objs' = [objs EXCEPT ![me].pending = pending]
      /\ Go(me, IF pending = << >> THEN << >> ELSE << << "runCommand" >> >>)
  BY DEF LineReceived, Is
<1> HIDE DEF pending
<1>2. IsShell(me) /\ me \in DOMAIN objs
  BY <1>1, HeadCall
<1>3. ~Begins(op) /\ op[1] # "callend" /\ Feeds(op) /\ Busy
  BY <1>1 DEF Begins, Feeds, Busy
<1>4. Settled
  BY <1>1, <1>2, PendingSettled
<1>5. CASE pending = << >>
  <2>1. Skip
    BY <1>1, <1>5, SkipIsGo DEF Go, Skip, Typed, TypedTodo
  <2> QED BY <1>1, <1>3, <1>4, <2>1, SkipsCalmly
<1>6. CASE pending # << >>
  <2> DEFINE course == << << "runCommand" >> >>
  <2>1. Listed(course) /\ Len(course) = 1 /\ course[1] = << "runCommand" >>
    BY ListedSingle
  <2>2. todo' = Calls(me, course) \o Tail(todo)
    BY <1>1, <1>6 DEF Go
  <2> HIDE DEF course
  <2>3. \A j \in 1 .. Len(course) : Resumes(course[j]) /\ ~Feeds(course[j])
    BY <2>1 DEF Resumes, Feeds
  <2> QED BY <1>1, <1>2, <1>3, <1>4, <2>1, <2>2, <2>3, GoesCalmly
<1> QED BY <1>5, <1>6

LEMMA QueueLinks ==
  ASSUME Typed, Typed', Linked, Queue
  PROVE  Linked'
<1>1. todo # << >> /\ op[1] = "queue" /\ pps' = pps /\ pp' = pp
  BY DEF Queue, Is
<1>2. ~Begins(op) /\ op[1] # "callend" /\ Feeds(op) /\ Busy
  BY <1>1 DEF Begins, Feeds, Busy
<1>3. CASE Raise /\ objs' = objs
  <2>1. Settled
    BY <1>1, <1>3 DEF Settled, SamePipes
  <2> QED BY <1>1, <1>2, <1>3, <2>1, RaisesCalmly
<1>4. CASE /\ cmdstack # << >> /\ Skip /\ past' = past
           /\ objs' = [objs EXCEPT ![Head(cmdstack)].pending = Append(@, Queued(typed))]
  <2>1. Head(cmdstack) \in DOMAIN objs
    BY <1>4, TopIs DEF Typed, TypedStack
  <2>2. objs' = [objs EXCEPT ![Head(cmdstack)].pending = Append(objs[Head(cmdstack)].pending, Queued(typed))]
    BY <1>4
  <2>3. Settled
    BY <1>1, <2>1, <2>2, PendingSettled
  <2> QED BY <1>1, <1>2, <1>4, <2>3, SkipsCalmly
<1> QED BY <1>3, <1>4 DEF Queue

-----------------------------------------------------------------------------
(* The steps that start the next pipe                                      *)

\* The next pipe of protocol.pp, if it is from it that one is started
LEMMA LaunchesNext ==
  ASSUME Typed, Typed', Linked, todo # << >>, Settled, past' = past, objs'[1].pending = objs[1].pending,
         NEW n, Go(me, << << "launch", n >> >>), ~Begins(op),
         pp # 0 /\ (op[1] = "callend" \/ Tame(1)) => n = pps[pp].next
  PROVE  Linked'
<1> DEFINE course == << << "launch", n >> >>
<1>1. Listed(course) /\ Len(course) = 1 /\ course[1] = << "launch", n >>
  BY ListedSingle
<1>2. todo' = Calls(me, course) \o Tail(todo)
  BY DEF Go
<1> HIDE DEF course
<1>3. Follows(me, course, 1)
  BY <1>1, <1>2, FollowsOn DEF Typed, TypedTodo
<1>4. todo[1].op = op /\ 1 \in DOMAIN todo /\ DOMAIN todo = 1 .. Len(todo) /\ Len(todo) \in Nat
  BY HeadIs
<1>5. Moves(me, course, 1)
  <2>1. \A j \in 1 .. 1 : ~Begins(todo[j].op)
    BY <1>4
  <2>2. \A j \in 1 .. Len(course) : course[j] = << "launch", n >>
    BY <1>1
  <2>3. << "launch", n >>[1] = "launch"
    OBVIOUS
  <2>4. \A j \in 1 .. Len(course) : course[j][1] \notin {"construct", "call None"} /\ ~Feeds(course[j])
    BY <2>2, <2>3 DEF Feeds
  <2>5. past'.deaths = {} => past.deaths = {}
    OBVIOUS
  <2>6. 1 >= 1 /\ (todo = << >> \/ Busy \/ objs'[1].pending = objs[1].pending)
    OBVIOUS
  <2>7. \A j \in 1 .. Len(course) :
          /\ course[j][1] \notin {"construct", "call None"}
          /\ Feeds(course[j]) => j = 1 /\ (todo # << >> => Feeds(op))
    BY <2>4
  <2> QED BY <1>3, <2>1, <2>5, <2>6, <2>7 DEF Moves
<1>6. ASSUME NEW s \in DOMAIN pps, Following(s) PROVE Due(s)'
  <2>1. PICK i \in DOMAIN todo : Reached(i)
    BY <1>6 DEF Following
  <2>2. op[1] = "callend" \/ Tame(1)
    <3>1. CASE i = 1
      BY <1>4, <2>1, <3>1 DEF Reached
    <3>2. CASE i # 1
      <4>1. 1 \in 1 .. i - 1
        BY <1>4, <3>2
      <4> QED BY <2>1, <4>1 DEF Reached
    <3> QED BY <3>1, <3>2
  <2>3. n = s
    BY <1>6, <2>2 DEF Following
  <2>4. 1 \in DOMAIN todo' /\ todo'[1].op = << "launch", n >>
    <3>1. 1 \in 1 .. Len(course)
      BY <1>1
    <3> QED BY <1>1, <1>3, <3>1, FollowsNew DEF Typed, TypedTodo
  <2> QED BY <2>3, <2>4 DEF Due
<1> QED BY <1>5, <1>6, MovesKeeps

\* One pipe is given data, or has said something.
LEMMA PipesSettled ==
  ASSUME Typed, objs' = objs, pp' = pp, DOMAIN pps' = DOMAIN pps,
         \A q \in DOMAIN pps : \/ pps'[q] = pps[q]
                               \/ \E x : pps'[q] = [pps[q] EXCEPT !.said = x]
                               \/ \E x : pps'[q] = [pps[q] EXCEPT !.fed = x]
  PROVE  Settled /\ objs'[1].pending = objs[1].pending
<1>1. ASSUME NEW q \in DOMAIN pps
      PROVE  /\ pps'[q].stage = pps[q].stage /\ pps'[q].next = pps[q].next
             /\ pps'[q].ran = pps[q].ran /\ pps'[q].last = pps[q].last
  <2>1. DOMAIN pps[q] = PipeFields
    BY DEF Typed, TypedPipes, PipeOK
  <2> QED BY <2>1 DEF PipeFields
<1> QED BY <1>1 DEF Settled, SamePipes

LEMMA CallEndLinks ==
  ASSUME Typed, Typed', Linked, CallEnd
  PROVE  Linked'
<1> DEFINE next == IF pp = 0 THEN 0 ELSE pps[pp].next
<1>1. /\ todo # << >> /\ op[1] \in {"callend", "outConnectionLost"}
      /\ past' = past /\ objs' = objs /\ pp' = pp /\ ~Begins(op)
  BY DEF CallEnd, Is, Begins
<1>2. CASE next = 0
  <2>1. Skip /\ pps' = pps
    BY <1>2 DEF CallEnd
  <2>2. Settled /\ objs'[1].pending = objs[1].pending
    BY <1>1, <2>1 DEF Settled, SamePipes
  <2>3. pp = 0 \/ pps[pp].next = 0
    BY <1>2
  <2> QED BY <1>1, <2>1, <2>2, <2>3, SkipsCalmly
<1>3. CASE next # 0
  <2>1. Go(me, << << "launch", next >> >>) /\ pps' = [pps EXCEPT ![next].fed = pps[pp].said]
    BY <1>3 DEF CallEnd
  <2>2. pp # 0 => next = pps[pp].next
    OBVIOUS
  <2> HIDE DEF next
  <2>3. DOMAIN pps' = DOMAIN pps /\ \A q \in DOMAIN pps : \/ pps'[q] = pps[q]
                                                           \/ \E x : pps'[q] = [pps[q] EXCEPT !.fed = x]
    BY <2>1
  <2>4. Settled /\ objs'[1].pending = objs[1].pending
    BY <1>1, <2>3, PipesSettled
  <2> QED BY <1>1, <2>1, <2>2, <2>4, LaunchesNext
<1> QED BY <1>2, <1>3

LEMMA WriteLinks ==
  ASSUME Typed, Typed', Linked, WriteToPipe
  PROVE  Linked'
<1> DEFINE p == objs[me].pp
           next == pps[p].next
<1>1. /\ todo # << >> /\ op[1] = "write" /\ past' = past /\ objs' = objs /\ pp' = pp /\ ~Begins(op)
      /\ Go(me, IF next = 0 THEN << >> ELSE << << "launch", next >> >>)
      /\ pps' = [q \in DOMAIN pps |->
                   IF q = p THEN [pps[q] EXCEPT !.said = TRUE]
                   ELSE IF q = next THEN [pps[q] EXCEPT !.fed = TRUE] ELSE pps[q]]
  BY DEF WriteToPipe, Is, Begins
<1>2. Tame(1) => objs[me].pp = pp
  <2>1. ~IsShell(me) /\ todo[1].who = me
    BY <1>1, HeadCall, HeadIs
  <2> QED BY <2>1 DEF Tame
<1>3. Settled /\ objs'[1].pending = objs[1].pending
  <2>1. DOMAIN pps' = DOMAIN pps
        /\ \A q \in DOMAIN pps : \/ pps'[q] = pps[q]
                                 \/ \E x : pps'[q] = [pps[q] EXCEPT !.said = x]
                                 \/ \E x : pps'[q] = [pps[q] EXCEPT !.fed = x]
    <3> HIDE DEF p, next
    <3> QED BY <1>1
  <2> QED BY <1>1, <2>1, PipesSettled
<1>4. CASE next = 0
  <2>1. Skip
    BY <1>1, <1>4, SkipIsGo DEF Go, Skip, Typed, TypedTodo
  <2> QED BY <1>1, <1>3, <2>1, SkipsCalmly
<1>5. CASE next # 0
  <2>1. Go(me, << << "launch", next >> >>) /\ op[1] # "callend"
    BY <1>1, <1>5
  <2>2. pp # 0 /\ (op[1] = "callend" \/ Tame(1)) => next = pps[pp].next
    BY <1>2, <2>1
  <2> HIDE DEF next
  <2> QED BY <1>1, <1>3, <2>1, <2>2, LaunchesNext
<1> QED BY <1>4, <1>5

-----------------------------------------------------------------------------
(* Events, and the end of a session that is lost                           *)

\* Between two events no pipe of the last item is left, and after one none but that
\* of an exit typed as a key.
LEMMA EventKeeps ==
  ASSUME Typed, Typed', Linked, Idle, objs' = objs, past' = past, pp' = pp \/ pp' = 0,
         \/ todo' = << >>
         \/ \E w, o : todo' = Calls(w, << o >>) /\ o[1] \in {"line", "launch", "do"},
         \A p \in DOMAIN pps : p \in DOMAIN pps' /\ pps'[p] = pps[p],
         \A p \in DOMAIN pps' : p \in DOMAIN pps \/ ~pps'[p].last
  PROVE  Linked'
<1>1. OwnPipe'
  <2>1. \A o \in DOMAIN objs : ~IsShell(o) => objs[o].pp \in DOMAIN pps
    BY PipeOf
  <2> QED BY <2>1 DEF OwnPipe, Linked, IsShell
<1> SUFFICES ASSUME Undisturbed'
             PROVE  (OneShell /\ Entered /\ MadeAtOnce /\ FedFirst /\ (CallsNone \/ \E S : Chained(S)))'
  BY <1>1 DEF Linked
<1>2. Undisturbed
  BY DEF Undisturbed
<1>3. OneShell /\ Entered /\ (CallsNone \/ \E S : Chained(S))
  BY <1>2 DEF Linked
<1>4. \A j \in DOMAIN todo' : j = 1 /\ todo'[j].op[1] \in {"line", "launch", "do"}
  <2>1. CASE todo' = << >>
    BY <2>1, ListedEmpty
  <2>2. ASSUME NEW w, NEW o, todo' = Calls(w, << o >>), o[1] \in {"line", "launch", "do"}
        PROVE  \A j \in DOMAIN todo' : j = 1 /\ todo'[j].op[1] \in {"line", "launch", "do"}
    <3> DEFINE course == << o >>
    <3>1. Listed(course) /\ Len(course) = 1 /\ course[1] = o
      BY ListedSingle
    <3>2. todo' = Calls(w, course)
      BY <2>2
    <3> HIDE DEF course
    <3>3. DOMAIN todo' = DOMAIN course /\ DOMAIN course = 1 .. 1
      BY <3>1, <3>2, ListedShape DEF Calls
    <3>4. \A j \in 1 .. 1 : j = 1
      OBVIOUS
    <3>5. todo'[1].op = o
      BY <3>1, <3>2, <3>3, <3>4 DEF Calls
    <3> QED BY <2>2, <3>3, <3>4, <3>5
  <2> QED BY <2>1, <2>2
<1>5. OneShell'
  BY <1>3 DEF OneShell, IsShell
<1>6. Entered'
  <2>1. pp \in 0 .. Len(pps) /\ Len(pps) \in Nat /\ DOMAIN pps = 1 .. Len(pps)
    BY ListedShape DEF Typed, TypedPipes
  <2>2. pp = 0 \/ pp \in DOMAIN pps
    BY <2>1
  <2> QED BY <1>3, <2>2 DEF Entered, Idle
<1>7. MadeAtOnce' /\ FedFirst'
  BY <1>4 DEF MadeAtOnce, FedFirst
<1>8. ~CallsNone
  BY ListedEmpty DEF CallsNone, Idle
<1>9. Chained({})
  BY <1>3, <1>8, NoneLeft
<1>10. Chained({})'
  BY <1>9 DEF Chained, Unran
<1> QED BY <1>5, <1>6, <1>7, <1>10

LEMMA EventLinks ==
  ASSUME Typed, Typed', Linked, Event
  PROVE  Linked'
<1>1. Idle /\ objs' = objs /\ past' = past /\ (pp' = pp \/ pp' = 0)
  BY DEF Event, TypeLine, TypeInput, InterruptKey, EndKey, EndOfSession, Tick, ConnectionLost, stack, store
<1>2. \/ todo' = << >>
      \/ \E w, o : todo' = Calls(w, << o >>) /\ o[1] \in {"line", "launch", "do"}
  <2>1. ASSUME NEW course, NEW m, Deliver(course, m),
               course = << >> \/ \E o : course = << o >> /\ o[1] \in {"line", "launch"}
        PROVE  \/ todo' = << >>
               \/ \E w, o : todo' = Calls(w, << o >>) /\ o[1] \in {"line", "launch", "do"}
    <3>1. CASE cmdstack = << >>
      BY <1>1, <2>1, <3>1 DEF Deliver, Idle
    <3>2. CASE cmdstack # << >> /\ IsShell(Top)
      <4>1. todo' = Calls(Top, course)
        BY <2>1, <3>2 DEF Deliver
      <4> QED BY <2>1, <4>1, NoCalls
    <3>3. CASE cmdstack # << >> /\ ~IsShell(Top)
      <4>1. todo' = Calls(Top, << do(m) >>)
        BY <2>1, <3>3 DEF Deliver
      <4>2. do(m)[1] = "do"
        BY DEF do
      <4> QED BY <4>1, <4>2
    <3> QED BY <3>1, <3>2, <3>3
  <2>2. CASE TypeLine
    <3> DEFINE o == << "line", typed' >>
    <3>1. Deliver(<< o >>, "lineReceived") /\ o[1] = "line"
      BY <2>2 DEF TypeLine
    <3> HIDE DEF o
    <3> QED BY <2>1, <3>1
  <2>3. CASE InterruptKey
    <3>1. Deliver(<< >>, "handle_CTRL_C")
      BY <2>3 DEF InterruptKey
    <3> QED BY <2>1, <3>1
  <2>4. CASE EndKey
    <3> DEFINE o == << "launch", Len(pps) + 1 >>
    <3>1. Deliver(<< o >>, "handle_CTRL_D") /\ o[1] = "launch"
      BY <2>4 DEF EndKey
    <3> HIDE DEF o
    <3> QED BY <2>1, <3>1
  <2>5. CASE TypeInput \/ EndOfSession \/ ConnectionLost
    BY <1>1, <2>5 DEF TypeInput, EndOfSession, ConnectionLost, Idle
  <2>6. CASE Tick
    <3>1. PICK i \in DOMAIN timers : todo' = Calls(timers[i][1], << do(timers[i][2]) >>)
      BY <2>6 DEF Tick
    <3>2. do(timers[i][2])[1] = "do"
      BY DEF do
    <3> QED BY <3>1, <3>2
  <2> QED BY <2>2, <2>3, <2>4, <2>5, <2>6 DEF Event
<1>3. /\ \A p \in DOMAIN pps : p \in DOMAIN pps' /\ pps'[p] = pps[p]
      /\ \A p \in DOMAIN pps' : p \in DOMAIN pps \/ ~pps'[p].last
  <2>1. CASE pps' = pps
    BY <2>1
  <2>2. CASE pps' = Append(pps, Pipe(ExitStage, 0, FALSE))
    <3> DEFINE e == Pipe(ExitStage, 0, FALSE)
    <3>1. Listed(pps) /\ Len(pps) \in Nat /\ DOMAIN pps = 1 .. Len(pps)
      BY ListedShape DEF Typed, TypedPipes
    <3>2. e.last = FALSE
      BY DEF Pipe
    <3>3. pps' = Append(pps, e)
      BY <2>2
    <3> HIDE DEF e
    <3>4. /\ Listed(pps') /\ Len(pps') = Len(pps) + 1 /\ pps'[Len(pps) + 1] = e
          /\ \A i \in 1 .. Len(pps) : pps'[i] = pps[i]
      BY <3>1, <3>3, ListedAppend
    <3>5. DOMAIN pps' = 1 .. Len(pps) + 1
      BY <3>4, ListedShape
    <3>6. \A p \in 1 .. Len(pps) + 1 : p \in 1 .. Len(pps) \/ p = Len(pps) + 1
      BY <3>1
    <3>7. \A p \in 1 .. Len(pps) : p \in 1 .. Len(pps) + 1
      BY <3>1
    <3> QED BY <3>1, <3>2, <3>4, <3>5, <3>6, <3>7
  <2> QED BY <2>1, <2>2
      DEF Event, TypeLine, TypeInput, InterruptKey, EndKey, EndOfSession, Tick, ConnectionLost, stack
<1> QED BY <1>1, <1>2, <1>3, EventKeeps

-----------------------------------------------------------------------------
(* Steps of sh, and of a session that dies                                 *)

LEMMA CallNoneLinks ==
  ASSUME Typed, Linked, CallNone
  PROVE  Linked'
<1>1. todo # << >> /\ op[1] = "call None" /\ Raise /\ objs' = objs /\ pps' = pps
  BY DEF CallNone, Is
<1>2. past'.deaths # {}
  <2> SUFFICES ASSUME past'.deaths = {} PROVE FALSE
    OBVIOUS
  <2>1. PICK i \in 2 .. Len(todo) : \A j \in 1 .. i : ~Starting(todo[j].op)
    BY <1>1, RaiseKills
  <2>2. todo[1].op = op /\ Len(todo) \in Nat
    BY <1>1, HeadIs
  <2>3. 1 \in 1 .. i
    BY <2>2
  <2> QED BY <1>1, <2>1, <2>2, <2>3 DEF Starting
<1>3. SamePipes
  BY <1>1 DEF SamePipes
<1> QED BY <1>2, <1>3, DeadLinked

LEMMA ShLinks ==
  ASSUME Typed, Linked, PushShell \/ Pop
  PROVE  Linked'
<1>1. todo # << >> /\ op[1] \in {"shell", "pop"} /\ pps' = pps
  BY DEF PushShell, Pop, Is
<1>2. me \in DOMAIN objs /\ objs[me].cls = "sh" /\ ~IsShell(me)
  BY <1>1, HeadCall
<1>3. objs[me].pp \in DOMAIN pps /\ pps[objs[me].pp].stage.cmd = "sh"
  BY <1>2, PipeOf DEF Linked, OwnPipe
<1>4. ~Undisturbed'
  BY <1>1, <1>3 DEF Undisturbed
<1>5. OwnPipe'
  <2>1. CASE objs' = objs
    BY <1>1, <2>1 DEF OwnPipe, Linked, IsShell
  <2>2. CASE objs' = Append(objs, Shell(FALSE))
    <3> DEFINE e == Shell(FALSE)
    <3>1. e.cls = "shell"
      BY DEF Shell
    <3>2. objs' = Append(objs, e)
      BY <2>2
    <3> HIDE DEF e
    <3>3. Listed(objs) /\ Len(objs) \in Nat /\ DOMAIN objs = 1 .. Len(objs)
      BY ListedShape DEF Typed, TypedObjs
    <3>4. /\ Listed(objs') /\ Len(objs') = Len(objs) + 1 /\ objs'[Len(objs) + 1] = e
          /\ \A i \in 1 .. Len(objs) : objs'[i] = objs[i]
      BY <3>2, <3>3, ListedAppend
    <3>5. DOMAIN objs' = 1 .. Len(objs) + 1
      BY <3>4, ListedShape
    <3>6. \A o \in 1 .. Len(objs) + 1 : o \in 1 .. Len(objs) \/ o = Len(objs) + 1
      BY <3>3
    <3> QED BY <1>1, <3>1, <3>3, <3>4, <3>5, <3>6 DEF OwnPipe, Linked, IsShell
  <2> QED BY <2>1, <2>2 DEF PushShell, Pop
<1> QED BY <1>4, <1>5 DEF Linked

-----------------------------------------------------------------------------
(* Steps that start a pipe, or say what is to be started                   *)

\* The calls of a step that went on with others: those of its course, and all but the
\* first of those there were.
Continues(w, course) ==
  /\ \A j \in 1 .. Len(course) : j \in DOMAIN todo' /\ todo'[j].who = w /\ todo'[j].op = course[j]
  /\ \A j \in DOMAIN todo' :
       \/ j \in 1 .. Len(course) /\ todo'[j].op = course[j]
       \/ \E b \in DOMAIN todo : b >= 2 /\ todo'[j] = todo[b]
  /\ \A b \in DOMAIN todo : b >= 2 => \E j \in DOMAIN todo' : todo'[j] = todo[b]
  /\ \A b \in DOMAIN todo : b = 1 \/ b >= 2

LEMMA OneStep ==
  ASSUME Typed, todo # << >>, NEW w, NEW course, Listed(course), todo' = Calls(w, course) \o Tail(todo)
  PROVE  Continues(w, course)
<1>1. Listed(todo) /\ Follows(w, course, 1) /\ DOMAIN todo = 1 .. Len(todo) /\ Len(todo) \in Nat
  BY FollowsOn, ListedShape DEF Typed, TypedTodo
<1>2. \A j \in 1 .. Len(course) : j \in DOMAIN todo' /\ todo'[j].who = w /\ todo'[j].op = course[j]
  BY <1>1, FollowsNew
<1>3. ASSUME NEW j \in DOMAIN todo'
      PROVE  \/ j \in 1 .. Len(course) /\ todo'[j].op = course[j]
             \/ \E b \in DOMAIN todo : b >= 2 /\ todo'[j] = todo[b]
  <2>1. CASE j \in 1 .. Len(course)
    BY <1>2, <2>1
  <2>2. ASSUME NEW b, Was(j, b, 1) PROVE b \in DOMAIN todo /\ b >= 2 /\ todo'[j] = todo[b]
    BY <1>1, <2>2 DEF Was
  <2> QED BY <1>1, <2>1, <2>2, FollowsOne
<1>4. ASSUME NEW b \in DOMAIN todo, b >= 2 PROVE \E j \in DOMAIN todo' : todo'[j] = todo[b]
  <2>1. b > 1
    BY <1>1, <1>4
  <2> QED BY <1>1, <2>1, FollowsOld
<1>5. \A b \in DOMAIN todo : b = 1 \/ b >= 2
  BY <1>1
<1> QED BY <1>2, <1>3, <1>4, <1>5 DEF Continues

\* While a command begins, or a shell goes on, what comes next is not that of protocol.pp.
LEMMA FollowsNot ==
  ASSUME Typed, todo # << >>, Begins(op), NEW s
  PROVE  ~Following(s)
<1> SUFFICES ASSUME NEW i \in DOMAIN todo, Reached(i) PROVE FALSE
  BY DEF Following
<1>1. todo[1].op = op /\ DOMAIN todo = 1 .. Len(todo) /\ Len(todo) \in Nat
  BY HeadIs
<1>2. i # 1
  BY <1>1 DEF Reached, Begins
<1>3. 1 \in 1 .. i - 1
  BY <1>1, <1>2
<1>4. Tame(1)
  BY <1>3 DEF Reached
<1> QED BY <1>1, <1>4 DEF Tame, Resumes, Begins

LEMMA ConstructLinks ==
  ASSUME Typed, Typed', Linked, Construct
  PROVE  Linked'
<1> DEFINE p == op[2]
           new == Len(objs) + 1
           stage == pps[p].stage
           e == [Shell(FALSE) EXCEPT !.cls = stage.cmd, !.pp = p, !.fed = pps[p].fed,
                                     !.stage = stage, !.sink = op[3], !.safe = op[4],
                                     !.dst = IF op[3] = "file" THEN op[5]
                                             ELSE resolve_path(stage.c.dst, cwd)]
           course == << do("start"), << "callend" >> >>
<1>1. /\ todo # << >> /\ op[1] = "construct" /\ objs' = Append(objs, e)
      /\ pps' = [pps EXCEPT ![p].ran = TRUE] /\ todo' = Calls(new, course) \o Tail(todo)
      /\ past' = past /\ pp' = pp
  BY DEF Construct, Is, Go
<1>2. KnownPipe(p, pps)
  BY <1>1, HeadCall
<1>3. p \in DOMAIN pps /\ \A q \in DOMAIN pps : PipeOK(pps[q], pps)
  BY <1>2 DEF KnownPipe, Typed, TypedPipes
<1>4. e.cls = stage.cmd /\ e.pp = p /\ stage.cmd # "shell"
  BY <1>2, PlainStages DEF Shell, KnownPipe
<1> HIDE DEF e
<1>5. /\ DOMAIN pps' = DOMAIN pps /\ pps'[p].ran = TRUE
      /\ \A q \in DOMAIN pps : /\ pps'[q].stage = pps[q].stage /\ pps'[q].next = pps[q].next
                               /\ pps'[q].last = pps[q].last /\ (q # p => pps'[q].ran = pps[q].ran)
  BY <1>1, <1>3 DEF PipeOK, PipeFields
<1>6. /\ new \in DOMAIN objs' /\ objs'[new] = e
      /\ \A o \in DOMAIN objs : o \in DOMAIN objs' /\ objs'[o] = objs[o]
      /\ \A o \in DOMAIN objs' : o \in DOMAIN objs \/ o = new
  <2>1. Listed(objs) /\ Len(objs) \in Nat /\ DOMAIN objs = 1 .. Len(objs)
    BY ListedShape DEF Typed, TypedObjs
  <2>2. /\ Listed(objs') /\ Len(objs') = new /\ objs'[new] = e
        /\ \A i \in 1 .. Len(objs) : objs'[i] = objs[i]
    BY <1>1, <2>1, ListedAppend
  <2>3. DOMAIN objs' = 1 .. new
    BY <2>2, ListedShape
  <2>4. \A o \in 1 .. new : o \in 1 .. Len(objs) \/ o = new
    BY <2>1
  <2>5. new \in 1 .. new /\ \A o \in 1 .. Len(objs) : o \in 1 .. new
    BY <2>1
  <2> QED BY <2>1, <2>2, <2>3, <2>4, <2>5
<1>7. \A o \in DOMAIN objs : ~IsShell(o) => objs[o].pp \in DOMAIN pps
  BY PipeOf
<1>8. OwnPipe'
  BY <1>3, <1>4, <1>5, <1>6, <1>7 DEF OwnPipe, Linked, IsShell
<1> SUFFICES ASSUME Undisturbed'
             PROVE  (OneShell /\ Entered /\ MadeAtOnce /\ FedFirst /\ (CallsNone \/ \E S : Chained(S)))'
  BY <1>8 DEF Linked
<1>9. OneShell /\ Entered /\ MadeAtOnce /\ FedFirst /\ (CallsNone \/ \E S : Chained(S))
  BY <1>1, <1>5 DEF Linked, Undisturbed
<1>10. Listed(course) /\ Len(course) = 2 /\ course[1] = do("start") /\ course[2] = << "callend" >>
  <2>1. ASSUME NEW a, NEW b PROVE Listed(<< a, b >>)
    <3>1. << a, b >> \in Seq({a, b})
      OBVIOUS
    <3> QED BY <3>1 DEF Listed
  <2>2. \A a, b : Len(<< a, b >>) = 2 /\ << a, b >>[1] = a /\ << a, b >>[2] = b
    OBVIOUS
  <2> QED BY <2>1, <2>2
<1> HIDE DEF course
<1>11. /\ \A j \in DOMAIN todo' :
             \/ j \in 1 .. 2 /\ todo'[j].op = course[j]
             \/ \E b \in DOMAIN todo : b >= 2 /\ todo'[j] = todo[b]
       /\ \A b \in DOMAIN todo : b >= 2 => \E j \in DOMAIN todo' : todo'[j] = todo[b]
       /\ \A b \in DOMAIN todo : b = 1 \/ b >= 2
       /\ \A j \in 1 .. 2 : j \in DOMAIN todo' /\ todo'[j].who = new /\ todo'[j].op = course[j]
  <2>1. todo # << >> /\ Listed(course) /\ todo' = Calls(new, course) \o Tail(todo)
    BY <1>1, <1>10
  <2> HIDE DEF new
  <2>2. Continues(new, course)
    BY <2>1, OneStep
  <2> QED BY <1>10, <2>2 DEF Continues
<1>12. \A j \in 1 .. 2 : ~Begins(course[j]) /\ ~Feeds(course[j])
  <2>1. \A j \in 1 .. 2 : j = 1 \/ j = 2
    OBVIOUS
  <2>2. ~Begins(course[1]) /\ ~Feeds(course[1]) /\ ~Begins(course[2]) /\ ~Feeds(course[2])
    BY <1>10 DEF do, Begins, Feeds
  <2> QED BY <2>1, <2>2
<1>13. todo[1].op = op /\ \A b \in DOMAIN todo : todo[b].op[1] # "construct" => b # 1
  BY <1>1, HeadIs
<1>14. OneShell'
  BY <1>4, <1>6, <1>9 DEF OneShell, IsShell
<1>15. Entered'
  <2> SUFFICES ASSUME pp # 0, ~pps'[pp].ran PROVE FALSE
    BY <1>1 DEF Entered
  <2>1. pp \in DOMAIN pps
    <3>1. pp \in 0 .. Len(pps) /\ Len(pps) \in Nat /\ DOMAIN pps = 1 .. Len(pps)
      BY ListedShape DEF Typed, TypedPipes
    <3> QED BY <3>1
  <2>2. pp # p /\ ~pps[pp].ran
    BY <1>5, <2>1
  <2> QED BY <1>1, <1>9, <2>2 DEF Entered
<1>16. \A j \in DOMAIN todo' : Begins(todo'[j].op) => \E b \in DOMAIN todo : b >= 2 /\ todo'[j] = todo[b]
  BY <1>11, <1>12
<1>17. MadeAtOnce'
  <2> SUFFICES ASSUME NEW j \in DOMAIN todo', todo'[j].op[1] = "construct", ~Failed(todo'[j].op) PROVE FALSE
    BY DEF MadeAtOnce, Failed
  <2>1. PICK b \in DOMAIN todo : b >= 2 /\ todo'[j] = todo[b]
    BY <1>16 DEF Begins
  <2>2. b = 1
    BY <1>9, <2>1 DEF MadeAtOnce
  <2> QED BY <2>1, <2>2
<1>18. \A j \in DOMAIN todo' : ~Feeds(todo'[j].op)
  <2> SUFFICES ASSUME NEW j \in DOMAIN todo', Feeds(todo'[j].op) PROVE FALSE
    OBVIOUS
  <2>1. PICK b \in DOMAIN todo : b >= 2 /\ todo'[j] = todo[b]
    BY <1>11, <1>12
  <2>2. b = 1
    BY <1>9, <2>1 DEF FedFirst
  <2> QED BY <2>1, <2>2
<1>19. FedFirst'
  BY <1>18 DEF FedFirst, Feeds
<1>20. CallsNone => CallsNone'
  <2> SUFFICES ASSUME NEW b \in DOMAIN todo, todo[b].op[1] = "call None" PROVE CallsNone'
    BY DEF CallsNone
  <2>1. PICK j \in DOMAIN todo' : todo'[j] = todo[b]
    BY <1>11, <1>13
  <2> QED BY <2>1 DEF CallsNone
<1>21. ASSUME NEW S, Chained(S) PROVE \E T : Chained(T)'
  <2> PICK T : T = S \ {p}
    OBVIOUS
  <2>1. S \subseteq DOMAIN pps
    BY <1>21 DEF Chained, Unran
  <2>2. T \subseteq Unran' /\ \A q \in Unran' : pps'[q].last => q \in T
    <3>1. T \subseteq Unran'
      BY <1>5, <1>21 DEF Chained, Unran
    <3>2. \A q \in Unran' : q \in Unran /\ q # p /\ pps'[q].last = pps[q].last
      BY <1>5 DEF Unran
    <3> QED BY <1>21, <3>1, <3>2 DEF Chained
  <2>3. ASSUME NEW s \in T PROVE Due(s)' \/ Following(s)' \/ \E q \in T : After(q, s)'
    <3>1. CASE Due(s)
      <4>1. PICK b \in DOMAIN todo : todo[b].op[1] \in {"launch", "construct"} /\ todo[b].op[2] = s
        BY <3>1 DEF Due
      <4>2. b # 1
        BY <1>13, <4>1
      <4>3. PICK j \in DOMAIN todo' : todo'[j] = todo[b]
        BY <1>11, <4>2
      <4>4. Due(s)'
        BY <4>1, <4>3 DEF Due
      <4> QED BY <4>4
    <3>2. ~Following(s)
      BY <1>1, FollowsNot DEF Begins
    <3>3. ASSUME NEW q \in S, After(q, s), q # p PROVE After(q, s)'
      <4>1. q \in DOMAIN pps /\ s \in DOMAIN pps
        BY <2>1
      <4>2. ASSUME NEW j \in DOMAIN todo', Failed(todo'[j].op) PROVE todo'[j].op[2] # q
        <5>1. PICK b \in DOMAIN todo : todo'[j] = todo[b]
          BY <1>16, <4>2 DEF Begins, Failed
        <5> QED BY <3>3, <4>2, <5>1 DEF After
      <4>3. pps'[q].next = s /\ Ahead(q, s)'
        BY <1>5, <3>3, <4>1 DEF After, Ahead
      <4> QED BY <4>2, <4>3 DEF After, Failed
    <3>4. ASSUME After(p, s) PROVE Following(s)'
      <4>1. pps[p].next = s /\ ~Failed(op)
        BY <1>1, <1>13, <3>4, HeadIs DEF After
      <4>2. p = pp
        BY <1>1, <1>9, <1>13, <4>1, HeadIs DEF MadeAtOnce
      <4>3. pp' # 0 /\ pps'[pp'].next = s
        <5>1. DOMAIN pps = 1 .. Len(pps) /\ Len(pps) \in Nat
          BY ListedShape DEF Typed, TypedPipes
        <5>2. p # 0
          BY <1>3, <5>1
        <5> QED BY <1>1, <1>3, <1>5, <4>1, <4>2, <5>2
      <4>4. 1 \in 1 .. 2 /\ 2 \in 1 .. 2
        OBVIOUS
      <4>5. Tame(1)'
        <5>1. objs'[todo'[1].who].cls # "shell" /\ objs'[todo'[1].who].pp = pp' /\ ~Begins(todo'[1].op)
          BY <1>1, <1>4, <1>6, <1>11, <1>12, <4>2, <4>4
        <5> QED BY <5>1 DEF Tame, Begins, IsShell
      <4>6. \A j \in 1 .. 2 - 1 : j = 1
        OBVIOUS
      <4>7. 2 \in DOMAIN todo' /\ todo'[2].op[1] = "callend"
        BY <1>10, <1>11, <4>4
      <4>8. Reached(2)'
        BY <4>5, <4>6, <4>7 DEF Reached
      <4> QED BY <4>3, <4>7, <4>8 DEF Following
    <3> QED BY <1>21, <3>1, <3>2, <3>3, <3>4 DEF Chained
  <2>4. ASSUME T # {} PROVE objs'[1].pending = << >> /\ (todo' # << >> => ~Feeds(op'))
    <3>1. objs[1].pending = << >>
      BY <1>21, <2>4 DEF Chained
    <3>2. 1 \in DOMAIN objs
      <4>1. me \in DOMAIN objs /\ DOMAIN objs = 1 .. Len(objs) /\ Len(objs) \in Nat
        BY <1>1, HeadCall
      <4> QED BY <4>1
    <3>3. op' = todo'[1].op /\ 1 \in DOMAIN todo'
      <4>1. 1 \in 1 .. 2
        OBVIOUS
      <4>2. 1 \in DOMAIN todo' /\ Listed(todo')
        BY <1>11, <4>1 DEF Typed, TypedTodo
      <4>3. todo' # << >>
        BY <4>2, ListedEmpty
      <4> QED BY <4>2, <4>3, ListedTail DEF op
    <3> QED BY <1>6, <1>18, <3>1, <3>2, <3>3
  <2>5. Chained(T)'
    BY <2>2, <2>3, <2>4 DEF Chained, Feeds
  <2> QED BY <2>5
<1> QED BY <1>9, <1>14, <1>15, <1>17, <1>19, <1>20, <1>21

\* What is the same for every step of call_command and of insert_command that goes on:
\* no command is made by what was already to be done, and nobody feeds the shell.
LEMMA OldFrames ==
  ASSUME Typed, Undisturbed, Linked
  PROVE  \A b \in DOMAIN todo : b >= 2 => /\ todo[b].op[1] = "construct" => Failed(todo[b].op)
                                          /\ ~Feeds(todo[b].op)
<1> SUFFICES ASSUME NEW b \in DOMAIN todo, b >= 2
             PROVE  (todo[b].op[1] = "construct" => Failed(todo[b].op)) /\ ~Feeds(todo[b].op)
  OBVIOUS
<1>1. b # 1
  BY ListedShape DEF Typed, TypedTodo
<1> QED BY <1>1 DEF Linked, MadeAtOnce, FedFirst

\* The pipe of protocol.pp is started: by then it is, or nothing is.
LEMMA PipeOfPP ==
  ASSUME Typed
  PROVE  pp = 0 \/ pp \in DOMAIN pps
<1>1. pp \in 0 .. Len(pps) /\ Len(pps) \in Nat /\ DOMAIN pps = 1 .. Len(pps)
  BY ListedShape DEF Typed, TypedPipes
<1> QED BY <1>1

LEMMA CallsNoneStays ==
  ASSUME Typed, todo # << >>, op[1] # "call None", NEW w, NEW course, Continues(w, course), CallsNone
  PROVE  CallsNone'
<1>1. PICK b \in DOMAIN todo : todo[b].op[1] = "call None"
  BY DEF CallsNone
<1>2. b # 1
  BY <1>1, HeadIs
<1>3. PICK j \in DOMAIN todo' : todo'[j] = todo[b]
  BY <1>2 DEF Continues
<1> QED BY <1>1, <1>3 DEF CallsNone

\* op is that of the first call.
LEMMA HeadNext ==
  ASSUME Typed', \A j \in DOMAIN todo' : ~Feeds(todo'[j].op)
  PROVE  todo' # << >> => ~Feeds(op')
<1> SUFFICES ASSUME todo' # << >> PROVE ~Feeds(op')
  OBVIOUS
<1>1. Listed(todo')
  BY DEF Typed, TypedTodo
<1>2. Len(todo') >= 1 /\ Head(todo') = todo'[1]
  BY <1>1, ListedTail
<1>3. 1 \in DOMAIN todo' /\ op' = todo'[1].op
  BY <1>1, <1>2, ListedShape DEF op
<1> QED BY <1>3

LEMMA LaunchLinks ==
  ASSUME Typed, Typed', Linked, Launch
  PROVE  Linked'
<1> DEFINE p == op[2]
           next == pps[p].next
<1>1. todo # << >> /\ op[1] = "launch" /\ objs' = objs /\ pp' = op[2]
  BY DEF Launch, Is
<1>2. p \in DOMAIN pps /\ PipeOK(pps[p], pps)
  BY <1>1, HeadCall DEF KnownPipe, Typed, TypedPipes
<1>3. CASE Raise /\ pps' = pps
  <2>1. SamePipes
    BY <1>1, <1>3 DEF SamePipes
  <2>2. past'.deaths # {}
    <3> SUFFICES ASSUME past'.deaths = {} PROVE FALSE
      OBVIOUS
    <3>1. PICK i \in 2 .. Len(todo) : \A j \in 1 .. i : ~Starting(todo[j].op)
      BY <1>1, <1>3, RaiseKills
    <3>2. todo[1].op = op /\ Len(todo) \in Nat
      BY <1>1, HeadIs
    <3>3. 1 \in 1 .. i
      BY <3>2
    <3> QED BY <1>1, <3>1, <3>2, <3>3 DEF Starting
  <2> QED BY <2>1, <2>2, DeadLinked
<1>4. ASSUME NEW failed \in BOOLEAN, NEW first, NEW made,
             failed => next # 0,
             first = IF failed THEN << << "launch", next >> >> ELSE << >>,
             made[1] = "construct", made[2] = p, Failed(made) <=> failed,
             Go(me, first \o << made >>),
             pps' = IF failed THEN [pps EXCEPT ![next].fed = TRUE] ELSE pps,
             past' = past
      PROVE  Linked'
  <2> DEFINE course == first \o << made >>
  <2>1. SamePipes
    <3>1. failed => next \in DOMAIN pps /\ PipeOK(pps[next], pps)
      BY <1>2, <1>4 DEF PipeOK, KnownPipe, Typed, TypedPipes
    <3> QED BY <1>1, <1>4, <3>1 DEF SamePipes, PipeOK, PipeFields
  <2>2. OwnPipe'
    BY <2>1, OwnPipeKept
  <2> SUFFICES ASSUME Undisturbed'
               PROVE  (OneShell /\ Entered /\ MadeAtOnce /\ FedFirst /\ (CallsNone \/ \E S : Chained(S)))'
    BY <2>2 DEF Linked
  <2>3. Undisturbed
    BY <1>4, <2>1 DEF Undisturbed, SamePipes
  <2>4. OneShell /\ Entered /\ MadeAtOnce /\ FedFirst /\ (CallsNone \/ \E S : Chained(S))
    BY <2>3 DEF Linked
  <2>5. /\ Listed(first) /\ Len(first) = IF failed THEN 1 ELSE 0
        /\ failed => first[1] = << "launch", next >>
    BY <1>4, ListedSingle, ListedEmpty
  <2>6. /\ Listed(course) /\ Len(course) = Len(first) + 1
        /\ \A j \in 1 .. Len(first) : course[j] = first[j]
        /\ course[Len(first) + 1] = made
    <3> DEFINE s == << made >>
    <3>1. Listed(s) /\ Len(s) = 1 /\ s[1] = made
      BY ListedSingle
    <3>2. course = first \o s /\ 1 \in 1 .. 1
      OBVIOUS
    <3> HIDE DEF s, course
    <3> QED BY <2>5, <3>1, <3>2, ListedConcat
  <2>7. Go(me, course)
    BY <1>4
  <2> HIDE DEF course
  <2>8. \/ failed /\ Len(course) = 2 /\ course[1] = << "launch", next >> /\ course[2] = made
        \/ ~failed /\ Len(course) = 1 /\ course[1] = made
    <3>1. 1 \in 1 .. 1
      OBVIOUS
    <3>2. CASE failed
      BY <2>5, <2>6, <3>1, <3>2
    <3>3. CASE ~failed
      BY <2>5, <2>6, <3>3
    <3> QED BY <3>2, <3>3
  <2>9. Continues(me, course)
    BY <1>1, <2>6, <2>7, OneStep DEF Go
  <2>10. \A j \in 1 .. Len(course) : \/ failed /\ j = 1 /\ course[j] = << "launch", next >>
                                     \/ course[j] = made /\ (~failed => j = 1)
    <3>1. \A j \in 1 .. 2 : j = 1 \/ j = 2
      OBVIOUS
    <3>2. \A j \in 1 .. 1 : j = 1
      OBVIOUS
    <3> QED BY <2>8, <3>1, <3>2
  <2>11. \E j \in DOMAIN todo' : todo'[j].op = made
    <3>1. 1 \in 1 .. 1 /\ 2 \in 1 .. 2
      OBVIOUS
    <3> QED BY <2>8, <2>9, <3>1 DEF Continues
  <2>12. failed => \E j \in DOMAIN todo' : todo'[j].op = << "launch", next >>
    <3>1. 1 \in 1 .. 2
      OBVIOUS
    <3> QED BY <2>8, <2>9, <3>1 DEF Continues
  <2>13. \A b \in DOMAIN todo : b >= 2 => /\ todo[b].op[1] = "construct" => Failed(todo[b].op)
                                          /\ ~Feeds(todo[b].op)
    BY <2>3, OldFrames
  <2>14. \A j \in DOMAIN todo' : ~Feeds(todo'[j].op)
    <3>1. ~Feeds(made) /\ ~Feeds(<< "launch", next >>)
      BY <1>4 DEF Feeds
    <3> QED BY <2>9, <2>10, <2>13, <3>1 DEF Continues
  <2>15. OneShell' /\ FedFirst'
    BY <1>1, <2>4, <2>14 DEF OneShell, FedFirst, Feeds, IsShell
  <2>16. MadeAtOnce'
    <3> SUFFICES ASSUME NEW j \in DOMAIN todo', todo'[j].op[1] = "construct", ~Failed(todo'[j].op)
                 PROVE  j = 1 /\ todo'[j].op[2] = pp'
      BY DEF MadeAtOnce, Failed
    <3>1. j \in 1 .. Len(course) /\ todo'[j].op = course[j]
      BY <2>9, <2>13 DEF Continues
    <3>2. course[j] = made
      BY <2>10, <3>1
    <3>3. ~failed
      BY <1>4, <3>1, <3>2
    <3> QED BY <1>1, <1>4, <2>10, <3>1, <3>2, <3>3
  <2>17. Entered'
    <3>1. 1 \in 1 .. Len(course)
      BY <2>8
    <3>2. 1 \in DOMAIN todo' /\ todo'[1].op = course[1] /\ Listed(todo')
      BY <2>9, <3>1 DEF Continues, Typed, TypedTodo
    <3>3. todo' # << >>
      BY <3>2, ListedEmpty
    <3>4. op' = course[1]
      BY <3>2, <3>3, ListedTail DEF op
    <3>5. op'[1] = "launch" \/ (op'[1] = "construct" /\ ~Failed(op') /\ op'[2] = pp')
      BY <1>1, <1>4, <2>8, <3>4
    <3> QED BY <3>3, <3>5 DEF Entered, Failed
  <2>18. CallsNone => CallsNone'
    BY <1>1, <2>9, CallsNoneStays
  <2>19. ASSUME NEW S, Chained(S) PROVE Chained(S)'
    <3>1. S \subseteq DOMAIN pps
      BY <2>19 DEF Chained, Unran
    <3>2. S \subseteq Unran' /\ \A q \in Unran' : pps'[q].last => q \in S
      BY <2>1, <2>19 DEF Chained, Unran, SamePipes
    <3>3. ASSUME NEW s \in S PROVE Due(s)' \/ Following(s)' \/ \E q \in S : After(q, s)'
      <4>1. CASE Due(s)
        <5>1. PICK b \in DOMAIN todo : todo[b].op[1] \in {"launch", "construct"} /\ todo[b].op[2] = s
          BY <4>1 DEF Due
        <5>2. CASE b >= 2
          <6>1. PICK j \in DOMAIN todo' : todo'[j] = todo[b]
            BY <2>9, <5>2 DEF Continues
          <6>2. Due(s)'
            BY <5>1, <6>1 DEF Due
          <6> QED BY <6>2
        <5>3. CASE b = 1
          <6>1. s = p
            BY <1>1, <5>1, <5>3, HeadIs
          <6>2. Due(s)'
            BY <1>4, <2>11, <6>1 DEF Due
          <6> QED BY <6>2
        <5> QED BY <2>9, <5>2, <5>3 DEF Continues
      <4>2. ~Following(s)
        BY <1>1, FollowsNot DEF Begins
      <4>3. ASSUME NEW q \in S, After(q, s), ~failed \/ q # p PROVE After(q, s)'
        <5>1. q \in DOMAIN pps /\ s \in DOMAIN pps
          BY <3>1
        <5>2. ASSUME NEW j \in DOMAIN todo', Failed(todo'[j].op) PROVE todo'[j].op[2] # q
          <6>1. ASSUME NEW b \in DOMAIN todo, todo'[j] = todo[b] PROVE todo'[j].op[2] # q
            BY <4>3, <5>2, <6>1 DEF After
          <6>2. CASE j \in 1 .. Len(course) /\ todo'[j].op = course[j]
            <7>1. course[j] = made
              BY <2>10, <5>2, <6>2 DEF Failed
            <7> QED BY <1>4, <4>3, <5>2, <6>2, <7>1
          <6> QED BY <2>9, <6>1, <6>2 DEF Continues
        <5>3. pps'[q].next = s /\ Ahead(q, s)'
          BY <2>1, <4>3, <5>1 DEF After, Ahead, SamePipes
        <5> QED BY <5>2, <5>3 DEF After, Failed
      <4>4. ASSUME After(p, s), failed PROVE Due(s)'
        <5>1. s = next
          BY <4>4 DEF After
        <5> QED BY <2>12, <4>4, <5>1 DEF Due
      <4> QED BY <2>19, <4>1, <4>2, <4>3, <4>4 DEF Chained
    <3>4. S # {} => objs'[1].pending = << >> /\ (todo' # << >> => ~Feeds(op'))
      BY <1>1, <2>14, <2>19, HeadNext DEF Chained
    <3> QED BY <3>2, <3>3, <3>4 DEF Chained, Feeds
  <2> QED BY <2>4, <2>15, <2>16, <2>17, <2>18, <2>19
<1>5. CASE cmdstack = << >>
  BY <1>3, <1>5 DEF Launch
<1>6. CASE cmdstack # << >>
  <2>1. PICK r \in Redirect(pps[op[2]].stage) :
          IF r.err # "" \/ (r.sink = "failed" /\ next = 0) THEN Raise /\ UNCHANGED pps
          ELSE /\ Go(me, (IF r.sink = "failed" THEN << << "launch", next >> >> ELSE << >>)
                         \o << << "construct", op[2], r.sink, r.safe, r.path >> >>)
               /\ pps' = IF r.sink = "failed" THEN [pps EXCEPT ![next].fed = TRUE] ELSE pps
               /\ UNCHANGED << link, past >>
    BY <1>6 DEF Launch
  <2>2. CASE r.err # "" \/ (r.sink = "failed" /\ next = 0)
    BY <1>3, <2>1, <2>2
  <2>3. CASE ~(r.err # "" \/ (r.sink = "failed" /\ next = 0))
    <3> DEFINE failed == r.sink = "failed"
               first == IF failed THEN << << "launch", next >> >> ELSE << >>
               made == << "construct", op[2], r.sink, r.safe, r.path >>
    <3>1. /\ Go(me, first \o << made >>) /\ past' = past
          /\ pps' = IF failed THEN [pps EXCEPT ![next].fed = TRUE] ELSE pps
      BY <2>1, <2>3
    <3>2. made[1] = "construct" /\ made[2] = p /\ (Failed(made) <=> failed)
      BY DEF Failed
    <3>3. (failed => next # 0) /\ failed \in BOOLEAN
      BY <2>3
    <3>4. first = IF failed THEN << << "launch", next >> >> ELSE << >>
      OBVIOUS
    <3> HIDE DEF failed, first, made
    <3> QED BY <1>4, <3>1, <3>2, <3>3, <3>4
  <2> QED BY <2>2, <2>3
<1> QED BY <1>5, <1>6

LEMMA InsertLinks ==
  ASSUME Typed, Typed', Linked, InsertCommand
  PROVE  Linked'
<1> DEFINE s0 == objs[me].stage
           applet == [s0 EXCEPT !.cmd = s0.app, !.redir = ""]
           n == Len(pps) + 1
           e == [pps[pp] EXCEPT !.next = n]
           new == Pipe(applet, pps[pp].next, FALSE)
           ps == [pps EXCEPT ![pp] = e]
<1>1. todo # << >> /\ op[1] = "insert" /\ objs' = objs /\ pp' = pp
  BY DEF InsertCommand, Is
<1>2. CASE pp = 0
  <2>1. Raise /\ pps' = pps
    BY <1>2 DEF InsertCommand
  <2>2. Settled /\ objs'[1].pending = objs[1].pending
    BY <1>1, <2>1 DEF Settled, SamePipes
  <2> QED BY <1>1, <2>1, <2>2, RaisesCalmly
<1>3. CASE pp # 0
  <2>1. pps' = Append([pps EXCEPT ![pp].next = n], new) /\ Skip /\ past' = past
    BY <1>3 DEF InsertCommand
  <2>2. /\ Listed(pps) /\ DOMAIN pps = 1 .. Len(pps) /\ Len(pps) \in Nat
        /\ \A q \in DOMAIN pps : PipeOK(pps[q], pps)
    BY ListedShape DEF Typed, TypedPipes
  <2>3. pp \in DOMAIN pps
    BY <1>3, PipeOfPP
  <2>4. /\ new.next = pps[pp].next /\ new.last = FALSE /\ new.ran = FALSE
        /\ e.next = n /\ e.stage = pps[pp].stage /\ e.ran = pps[pp].ran /\ e.last = pps[pp].last
    <3>1. DOMAIN pps[pp] = PipeFields
      BY <2>2, <2>3 DEF PipeOK
    <3> QED BY <3>1 DEF Pipe, PipeFields
  <2>5. pps' = Append(ps, new)
    BY <2>1, <2>3
  <2> HIDE DEF new, e
  <2>6. /\ Listed(ps) /\ Len(ps) = Len(pps) /\ DOMAIN ps = DOMAIN pps /\ ps[pp] = e
        /\ \A q \in DOMAIN pps : q # pp => ps[q] = pps[q]
    BY <2>2, <2>3, ListedExcept
  <2> HIDE DEF ps
  <2>7. /\ Listed(pps') /\ Len(pps') = n /\ pps'[n] = new
        /\ \A q \in 1 .. Len(pps) : pps'[q] = ps[q]
    BY <2>5, <2>6, ListedAppend
  <2>8. DOMAIN pps' = 1 .. n /\ \A q \in 1 .. n : q \in DOMAIN pps \/ q = n
    BY <2>2, <2>7, ListedShape
  <2>9. /\ n \in DOMAIN pps' /\ n \notin DOMAIN pps /\ \A q \in DOMAIN pps : q \in DOMAIN pps' /\ n > q
        /\ \A q \in DOMAIN pps : /\ pps'[q].stage = pps[q].stage /\ pps'[q].ran = pps[q].ran
                                 /\ pps'[q].last = pps[q].last /\ (q # pp => pps'[q].next = pps[q].next)
    <3>1. \A q \in DOMAIN pps : q # n /\ n > q /\ q \in 1 .. n
      BY <2>2
    <3>2. n \in 1 .. n
      BY <2>2
    <3> QED BY <2>2, <2>4, <2>6, <2>7, <2>8, <3>1, <3>2
  <2>10. pps'[pp].next = n
    BY <2>2, <2>3, <2>4, <2>6, <2>7
  <2>11. OwnPipe'
    <3>1. \A o \in DOMAIN objs : ~IsShell(o) => objs[o].pp \in DOMAIN pps
      BY PipeOf
    <3> QED BY <1>1, <2>9, <3>1 DEF OwnPipe, Linked, IsShell
  <2> SUFFICES ASSUME Undisturbed'
               PROVE  (OneShell /\ Entered /\ MadeAtOnce /\ FedFirst /\ (CallsNone \/ \E S : Chained(S)))'
    BY <2>11 DEF Linked
  <2>12. Undisturbed
    BY <2>1, <2>9 DEF Undisturbed
  <2>13. OneShell /\ Entered /\ MadeAtOnce /\ FedFirst /\ (CallsNone \/ \E S : Chained(S))
    BY <2>12 DEF Linked
  <2>14. pps[pp].ran
    BY <1>1, <1>3, <2>13 DEF Entered
  <2>15. Continues(me, << >>) /\ Len(<< >>) = 0
    <3>1. todo' = Calls(me, << >>) \o Tail(todo)
      BY <1>1, <2>1, SkipIsGo DEF Skip, Typed, TypedTodo
    <3>2. Listed(<< >>) /\ Len(<< >>) = 0
      BY ListedEmpty
    <3> HIDE DEF Continues
    <3> QED BY <1>1, <3>1, <3>2, OneStep
  <2>16. \A j \in DOMAIN todo' : \E b \in DOMAIN todo : b >= 2 /\ todo'[j] = todo[b]
    <3>1. \A j : j \notin 1 .. 0
      OBVIOUS
    <3> QED BY <2>15, <3>1 DEF Continues
  <2>17. \A b \in DOMAIN todo : b >= 2 => /\ todo[b].op[1] = "construct" => Failed(todo[b].op)
                                          /\ ~Feeds(todo[b].op)
    BY <2>12, OldFrames
  <2>18. OneShell' /\ Entered' /\ MadeAtOnce' /\ FedFirst'
    <3>1. OneShell'
      BY <1>1, <2>13 DEF OneShell, IsShell
    <3>2. Entered'
      BY <1>1, <2>3, <2>9, <2>14 DEF Entered
    <3>3. MadeAtOnce' /\ FedFirst'
      BY <2>16, <2>17 DEF MadeAtOnce, FedFirst, Failed, Feeds
    <3> QED BY <3>1, <3>2, <3>3
  <2>19. CallsNone => CallsNone'
    BY <1>1, <2>15, CallsNoneStays
  <2>20. \A j \in DOMAIN todo' : ~Feeds(todo'[j].op)
    BY <2>16, <2>17
  <2>21. \A b \in DOMAIN todo : Failed(todo[b].op) => todo[b].op[2] \in DOMAIN pps
    <3> SUFFICES ASSUME NEW b \in DOMAIN todo, Failed(todo[b].op) PROVE todo[b].op[2] \in DOMAIN pps
      OBVIOUS
    <3>1. FrameOK(todo[b], objs, pps) /\ todo[b].op[1] = "construct"
      BY DEF Typed, TypedTodo, Failed
    <3> QED BY <3>1 DEF FrameOK, Starts, ShellOp, CommandOp, PlainSteps, KnownPipe
  <2>22. ASSUME NEW S, Chained(S) PROVE \E T : Chained(T)'
    <3> PICK T : T = S \cup {t \in {n} : \E s \in S : Following(s)}
      OBVIOUS
    <3>1. S \subseteq DOMAIN pps /\ pp \notin S
      BY <2>14, <2>22 DEF Chained, Unran
    <3>2. S \subseteq T /\ (\A t \in T : t \in S \/ t = n) /\ ((\E s \in S : Following(s)) => n \in T)
      OBVIOUS
    <3>3. T \subseteq Unran' /\ \A q \in Unran' : pps'[q].last => q \in T
      <4>1. \A s \in S : s \in Unran'
        BY <2>9, <2>22, <3>1 DEF Chained, Unran
      <4>2. n \in Unran'
        BY <2>4, <2>7, <2>9 DEF Unran
      <4>3. ASSUME NEW q \in Unran', pps'[q].last PROVE q \in T
        <5>1. q \in DOMAIN pps
          BY <2>4, <2>7, <2>8, <4>3 DEF Unran
        <5>2. q \in Unran /\ pps[q].last
          BY <2>9, <4>3, <5>1 DEF Unran
        <5> QED BY <2>22, <3>2, <5>2 DEF Chained
      <4> QED BY <3>2, <4>1, <4>2, <4>3
    <3>4. ASSUME NEW t \in T PROVE Due(t)' \/ Following(t)' \/ \E q \in T : After(q, t)'
      <4>1. CASE t \in S /\ Due(t)
        <5>1. PICK b \in DOMAIN todo : todo[b].op[1] \in {"launch", "construct"} /\ todo[b].op[2] = t
          BY <4>1 DEF Due
        <5>2. b # 1
          BY <1>1, <5>1, HeadIs
        <5>3. PICK j \in DOMAIN todo' : todo'[j] = todo[b]
          BY <2>15, <5>2 DEF Continues
        <5>4. Due(t)'
          BY <5>1, <5>3 DEF Due
        <5> QED BY <5>4
      <4>2. CASE t \in S /\ Following(t)
        <5>1. n \in T /\ pps[pp].next = t /\ t \in DOMAIN pps
          BY <3>1, <3>2, <4>2 DEF Following
        <5>2. pps'[n].next = t /\ ~pps'[n].last /\ n > t
          BY <2>4, <2>7, <2>9, <5>1
        <5>3. \A j \in DOMAIN todo' : Failed(todo'[j].op) => todo'[j].op[2] # n
          BY <2>9, <2>16, <2>21
        <5>4. \E q \in T : After(q, t)'
          <6>1. PICK m \in T : m = n
            BY <5>1
          <6>2. pps'[m].next = t /\ Ahead(m, t)'
            BY <5>2, <6>1 DEF Ahead
          <6>3. After(m, t)'
            BY <5>3, <6>1, <6>2 DEF After, Failed
          <6> QED BY <6>3
        <5> QED BY <5>4
      <4>3. ASSUME t \in S, NEW q \in S, After(q, t) PROVE After(q, t)'
        <5>1. q \in DOMAIN pps /\ t \in DOMAIN pps /\ q # pp
          BY <3>1, <4>3
        <5>2. \A j \in DOMAIN todo' : Failed(todo'[j].op) => todo'[j].op[2] # q
          BY <2>16, <4>3 DEF After
        <5>3. pps'[q].next = t /\ Ahead(q, t)'
          BY <2>9, <4>3, <5>1 DEF After, Ahead
        <5> QED BY <5>2, <5>3 DEF After, Failed
      <4>4. ASSUME t = n, NEW s \in S, Following(s) PROVE Following(t)'
        <5>1. PICK i \in DOMAIN todo : Reached(i)
          BY <4>4 DEF Following
        <5>2. /\ DOMAIN todo = 1 .. Len(todo) /\ Len(todo) \in Nat /\ todo[1].op = op
              /\ DOMAIN todo' = 1 .. Len(todo) - 1 /\ \A j \in 1 .. Len(todo) - 1 : todo'[j] = todo[j + 1]
          <6>1. Listed(todo) /\ todo' = Tail(todo)
            BY <2>1 DEF Skip, Typed, TypedTodo
          <6> QED BY <1>1, <6>1, HeadIs, ListedTail, ListedShape
        <5>3. i # 1
          BY <1>1, <5>1, <5>2 DEF Reached
        <5>4. i - 1 \in 1 .. Len(todo) - 1 /\ todo'[i - 1] = todo[i]
          BY <5>2, <5>3
        <5>5. ASSUME NEW j \in 1 .. (i - 1) - 1 PROVE Tame(j)'
          <6>1. j \in 1 .. Len(todo) - 1 /\ j + 1 \in 1 .. i - 1
            BY <5>2, <5>4
          <6>2. todo'[j] = todo[j + 1] /\ Tame(j + 1)
            BY <5>1, <5>2, <6>1 DEF Reached
          <6> QED BY <1>1, <6>2 DEF Tame, Resumes, Begins, IsShell
        <5>6. PICK k \in DOMAIN todo' : k = i - 1
          BY <5>2, <5>4
        <5>7. Reached(k)'
          BY <5>1, <5>4, <5>5, <5>6 DEF Reached
        <5> QED BY <1>1, <1>3, <2>10, <4>4, <5>7 DEF Following
      <4>5. CASE t \in S
        BY <2>22, <3>2, <4>1, <4>2, <4>3, <4>5 DEF Chained
      <4>6. CASE t \notin S
        <5>1. t = n /\ \E s \in S : Following(s)
          BY <4>6
        <5> QED BY <4>4, <5>1
      <4> QED BY <4>5, <4>6
    <3>5. T # {} => objs'[1].pending = << >> /\ (todo' # << >> => ~Feeds(op'))
      <4>1. T # {} => S # {}
        OBVIOUS
      <4> QED BY <1>1, <2>20, <2>22, <4>1, HeadNext DEF Chained
    <3> QED BY <3>3, <3>4, <3>5 DEF Chained, Feeds
  <2> QED BY <2>13, <2>18, <2>19, <2>22
<1> QED BY <1>2, <1>3

\* The pipes of an item, of which nothing is started: if the first stage is a command,
\* each of the other commands is the next one of another.
Adds(ps, item, last) ==
  /\ DOMAIN ps = 1 .. Len(pps) + Len(item)
  /\ \A p \in DOMAIN pps : ps[p] = pps[p] /\ p \in DOMAIN ps
  /\ \A k \in 1 .. Len(item) : /\ Len(pps) + k \in DOMAIN ps /\ ps[Len(pps) + k].ran = FALSE
                               /\ ps[Len(pps) + k].last <=> (last /\ k \in Known(item))
  /\ 1 \in Known(item) => \A k \in Known(item) \ {1} :
       \E j \in Known(item) : j < k /\ ps[Len(pps) + j].next = Len(pps) + k

LEMMA PipesChained ==
  ASSUME Typed, NEW item, ItemOK(item), NEW last
  PROVE  Adds(pps \o PipesOf(item, last), item, last)
<1> DEFINE new == PipesOf(item, last)
           ps == pps \o new
<1>1. /\ Listed(item) /\ Len(item) \in Nat /\ DOMAIN item = 1 .. Len(item) /\ Known(item) \subseteq 1 .. Len(item)
  BY KnownOf
<1>2. Listed(pps) /\ Len(pps) \in Nat /\ DOMAIN pps = 1 .. Len(pps)
  BY ListedShape DEF Typed, TypedPipes
<1>3. Listed(new) /\ Len(new) = Len(item)
  <2>1. DOMAIN new = 1 .. Len(item) /\ new = [i \in DOMAIN new |-> new[i]]
    BY <1>1 DEF PipesOf
  <2> HIDE DEF new
  <2> QED BY <1>1, <2>1, ListedFunction
<1>4. ASSUME NEW k \in 1 .. Len(item)
      PROVE  new[k].ran = FALSE /\ (new[k].last <=> (last /\ k \in Known(item)))
  BY <1>1 DEF PipesOf, Pipe
<1>5. ASSUME 1 \in Known(item), NEW k \in Known(item) \ {1}
      PROVE  \E j \in Known(item) : j < k /\ new[j].next = Len(pps) + k
  <2> DEFINE before == {j \in Known(item) : j < k}
  <2>1. before \subseteq 1 .. Len(item) /\ before # {} /\ k \in Nat
    BY <1>1, <1>5
  <2>2. PICK j \in before : \A i \in before : i <= j
    <3> HIDE DEF before
    <3> QED BY <1>1, <2>1, LatestIs
  <2> DEFINE later == {i \in Known(item) : j < i}
  <2>3. k \in later /\ later \subseteq Nat /\ j \in Nat
    BY <1>1, <2>1, <2>2
  <2>4. First(later) \in later /\ \A i \in later : First(later) <= i
    <3> HIDE DEF later
    <3> QED BY <2>3, FirstIs
  <2>5. First(later) = k
    <3>1. PICK f \in later : f = First(later)
      BY <2>4
    <3>2. f <= k /\ f \in Nat /\ j < f
      BY <2>3, <2>4, <3>1
    <3>3. f \notin before
      <4> SUFFICES ASSUME f \in before PROVE FALSE
        OBVIOUS
      <4>1. f <= j
        BY <2>2
      <4> QED BY <2>3, <3>2, <4>1
    <3>4. ~(f < k)
      BY <3>1, <3>3
    <3> QED BY <2>1, <3>1, <3>2, <3>4
  <2>6. j \in DOMAIN item /\ j \in Known(item) /\ j < k /\ later # {}
    BY <1>1, <2>2, <2>3
  <2>7. new[j] = Pipe(item[j], Len(pps) + First(later), last /\ j \in Known(item))
    BY <2>6 DEF PipesOf
  <2> HIDE DEF later
  <2>8. new[j].next = Len(pps) + First(later)
    BY <2>7 DEF Pipe
  <2> QED BY <2>5, <2>6, <2>8
<1> HIDE DEF new
<1>6. /\ Listed(ps) /\ Len(ps) = Len(pps) + Len(item)
      /\ \A i \in 1 .. Len(pps) : ps[i] = pps[i]
      /\ \A k \in 1 .. Len(item) : ps[Len(pps) + k] = new[k]
  BY <1>2, <1>3, ListedConcat
<1> HIDE DEF ps
<1>7. DOMAIN ps = 1 .. Len(pps) + Len(item)
  BY <1>6, ListedShape
<1>8. \A p \in DOMAIN pps : ps[p] = pps[p] /\ p \in DOMAIN ps
  BY <1>1, <1>2, <1>6, <1>7
<1>9. ASSUME NEW k \in 1 .. Len(item)
      PROVE  /\ Len(pps) + k \in DOMAIN ps /\ ps[Len(pps) + k].ran = FALSE
             /\ ps[Len(pps) + k].last <=> (last /\ k \in Known(item))
  <2>1. Len(pps) + k \in DOMAIN ps
    BY <1>1, <1>2, <1>7
  <2>2. ps[Len(pps) + k] = new[k]
    BY <1>6
  <2> QED BY <1>4, <2>1, <2>2
<1>10. 1 \in Known(item) => \A k \in Known(item) \ {1} :
         \E j \in Known(item) : j < k /\ ps[Len(pps) + j].next = Len(pps) + k
  BY <1>1, <1>5, <1>6
<1>11. Adds(ps, item, last)
  BY <1>7, <1>8, <1>9, <1>10 DEF Adds
<1> QED BY <1>11 DEF ps, new

LEMMA ItemLinks ==
  ASSUME Typed, Typed', Linked, RunItem
  PROVE  Linked'
<1> DEFINE item == Head(objs[me].pending)
           left == Tail(objs[me].pending)
           last == Len(objs[me].pending) = 1
           pipes == PipesOf(item, last)
<1>1. /\ todo # << >> /\ op[1] = "runCommand" /\ objs[me].pending # << >>
      /\ pp' = pp /\ objs' = [objs EXCEPT ![me].pending = left]
  BY DEF RunItem, Is
<1>2. me \in DOMAIN objs /\ ObjOK(objs[me], pps) /\ IsShell(me)
  BY <1>1, HeadCall
<1>3. /\ ItemOK(item) /\ (last => left = << >>)
  <2>1. ItemOK(item)
    BY <1>1, <1>2, PendingTail DEF ObjOK
  <2>2. Listed(objs[me].pending)
    BY <1>2 DEF ObjOK, PendingOK
  <2>3. Listed(left) /\ Len(left) = Len(objs[me].pending) - 1
    BY <1>1, <2>2, ListedTail
  <2> HIDE DEF left
  <2>4. last => left = << >>
    BY <2>3, ListedNone
  <2> QED BY <2>1, <2>4
<1>4. /\ DOMAIN objs' = DOMAIN objs /\ objs'[me].pending = left
      /\ \A o \in DOMAIN objs : objs'[o].cls = objs[o].cls /\ objs'[o].pp = objs[o].pp
  BY <1>1, <1>2 DEF ObjOK, ObjFields
<1>5. \/ pps' = pps
      \/ pps' = pps \o pipes
  BY DEF RunItem
<1>6. \A p \in DOMAIN pps : pps'[p] = pps[p] /\ p \in DOMAIN pps'
  <2> DEFINE ps == pps \o pipes
  <2> HIDE DEF item, last
  <2>1. \A p \in DOMAIN pps : ps[p] = pps[p] /\ p \in DOMAIN ps
    BY <1>3, PipesChained DEF Adds
  <2> HIDE DEF pipes
  <2>2. pps' = pps \/ pps' = ps
    BY <1>5
  <2> HIDE DEF ps
  <2> QED BY <2>1, <2>2
<1> HIDE DEF item, last
<1>7. OwnPipe'
  <2>1. \A o \in DOMAIN objs : ~IsShell(o) => objs[o].pp \in DOMAIN pps
    BY PipeOf
  <2> QED BY <1>4, <1>6, <2>1 DEF OwnPipe, Linked, IsShell
<1> SUFFICES ASSUME Undisturbed'
             PROVE  (OneShell /\ Entered /\ MadeAtOnce /\ FedFirst /\ (CallsNone \/ \E S : Chained(S)))'
  BY <1>7 DEF Linked
<1>8. past'.deaths = {} => past.deaths = {}
  <2>1. CASE past' = past
    BY <2>1
  <2>2. CASE Raise
    BY <1>1, <2>2, RaiseKills
  <2> QED BY <2>1, <2>2 DEF RunItem
<1>9. Undisturbed
  BY <1>6, <1>8 DEF Undisturbed
<1>10. OneShell /\ Entered /\ MadeAtOnce /\ FedFirst /\ (CallsNone \/ \E S : Chained(S))
  BY <1>9 DEF Linked
<1>11. me = 1 /\ Busy /\ 1 \in DOMAIN objs
  BY <1>1, <1>2, <1>10 DEF OneShell, Busy
<1>12. ASSUME Linked' PROVE (OneShell /\ Entered /\ MadeAtOnce /\ FedFirst /\ (CallsNone \/ \E S : Chained(S)))'
  BY <1>12 DEF Linked
<1>13. pps' = pps => Settled
  BY <1>1, <1>4 DEF Settled, SamePipes
<1>14. CASE item = << >>
  <2> DEFINE course == << << "runOrPrompt" >> >>
  <2>1. Go(me, course) /\ pps' = pps
    BY <1>14 DEF RunItem, item
  <2>2. Listed(course) /\ Len(course) = 1 /\ course[1] = << "runOrPrompt" >>
    BY ListedSingle
  <2>3. << "runOrPrompt" >>[1] = "runOrPrompt"
    OBVIOUS
  <2> HIDE DEF course
  <2>4. \A j \in 1 .. Len(course) : Resumes(course[j]) /\ ~Feeds(course[j])
    <3>1. \A j \in 1 .. 1 : j = 1
      OBVIOUS
    <3> QED BY <2>2, <2>3, <3>1 DEF Resumes, Feeds
  <2>5. ~Begins(op) /\ op[1] # "callend"
    BY <1>1 DEF Begins
  <2>6. Settled /\ todo' = Calls(me, course) \o Tail(todo)
    BY <1>13, <2>1 DEF Go
  <2>7. Linked'
    BY <1>1, <1>2, <1>8, <1>11, <2>2, <2>4, <2>5, <2>6, GoesCalmly
  <2> QED BY <1>12, <2>7
<1>15. CASE item # << >> /\ \E i \in 2 .. Len(item) : item[i].cmd = ""
  <2>1. Raise /\ pps' = pps
    BY <1>15 DEF RunItem, item
  <2>2. Linked'
    BY <1>1, <1>11, <1>13, <2>1, RaisesCalmly
  <2> QED BY <1>12, <2>2
<1>16. CASE item # << >> /\ ~\E i \in 2 .. Len(item) : item[i].cmd = ""
  <2> DEFINE n == Cardinality(DOMAIN item \ Known(item))
             rest == [i \in 1 .. n |-> << "runOrPrompt" >>]
             next == IF 1 \in Known(item) THEN << "launch", Len(pps) + 1 >>
                     ELSE << "call None", Len(pps) + First(Known(item)) >>
             first == IF Known(item) = {} THEN << >>
                      ELSE IF 1 \in Known(item) THEN << << "launch", Len(pps) + 1 >> >>
                      ELSE << << "call None", Len(pps) + First(Known(item)) >> >>
             course == rest \o first
  <2>1. Go(me, course) /\ pps' = pps \o pipes
    BY <1>16 DEF RunItem, item, last
  <2>2. /\ Listed(item) /\ Len(item) \in Nat /\ Known(item) \subseteq 1 .. Len(item) /\ n \in Nat
    BY <1>3, <1>16, KnownOf
  <2>3. Len(pps) \in Nat /\ DOMAIN pps = 1 .. Len(pps)
    BY ListedShape DEF Typed, TypedPipes
  <2>4. /\ DOMAIN pps' = 1 .. Len(pps) + Len(item)
        /\ \A k \in 1 .. Len(item) : /\ Len(pps) + k \in DOMAIN pps' /\ pps'[Len(pps) + k].ran = FALSE
                                     /\ pps'[Len(pps) + k].last <=> (last /\ k \in Known(item))
        /\ 1 \in Known(item) => \A k \in Known(item) \ {1} :
             \E j \in Known(item) : j < k /\ pps'[Len(pps) + j].next = Len(pps) + k
    <3> HIDE DEF n
    <3> DEFINE ps == pps \o pipes
    <3>1. Adds(ps, item, last)
      BY <1>3, PipesChained
    <3>2. pps' = ps
      BY <2>1
    <3> HIDE DEF ps
    <3> QED BY <3>1, <3>2 DEF Adds
  <2>5. first = (IF Known(item) = {} THEN << >> ELSE << next >>) /\ next[1] \in {"launch", "call None"}
        /\ (1 \in Known(item) => next = << "launch", Len(pps) + 1 >>)
        /\ (1 \notin Known(item) => next[1] = "call None")
    OBVIOUS
  <2> HIDE DEF n, pipes, next
  <2>6. Listed(rest) /\ Len(rest) = n /\ \A j \in 1 .. n : rest[j] = << "runOrPrompt" >>
    <3>1. DOMAIN rest = 1 .. n /\ rest = [i \in DOMAIN rest |-> rest[i]]
      OBVIOUS
    <3>2. \A j \in 1 .. n : rest[j] = << "runOrPrompt" >>
      OBVIOUS
    <3> HIDE DEF rest
    <3> QED BY <2>2, <3>1, <3>2, ListedFunction
  <2> HIDE DEF rest, first
  <2>7. /\ Listed(first) /\ Len(first) = IF Known(item) = {} THEN 0 ELSE 1
        /\ \A j \in 1 .. Len(first) : first[j] = next
    <3>1. CASE Known(item) = {}
      <4>1. first = << >>
        BY <2>5, <3>1
      <4>2. Listed(first) /\ Len(first) = 0
        BY <4>1, ListedEmpty
      <4> QED BY <3>1, <4>2
    <3>2. CASE Known(item) # {}
      <4>1. Listed(first) /\ Len(first) = 1 /\ first[1] = next
        BY <2>5, <3>2, ListedSingle
      <4>2. \A j \in 1 .. 1 : j = 1
        OBVIOUS
      <4> QED BY <3>2, <4>1, <4>2
    <3> QED BY <3>1, <3>2
  <2>8. /\ Listed(course) /\ Len(course) = n + Len(first)
        /\ \A j \in 1 .. n : course[j] = rest[j]
        /\ \A j \in 1 .. Len(first) : course[n + j] = first[j]
    <3>1. Listed(rest) /\ Listed(first) /\ Len(rest) = n
      BY <2>6, <2>7
    <3>2. /\ Listed(course) /\ Len(course) = Len(rest) + Len(first)
          /\ \A j \in 1 .. Len(rest) : course[j] = rest[j]
          /\ \A j \in 1 .. Len(first) : course[Len(rest) + j] = first[j]
      BY <3>1, ListedConcat
    <3> HIDE DEF course
    <3> QED BY <3>1, <3>2
  <2>9. Go(me, course)
    BY <2>1
  <2> HIDE DEF course
  <2>10. Continues(me, course)
    BY <1>1, <2>8, <2>9, OneStep DEF Go
  <2>11. ASSUME NEW j \in 1 .. Len(course)
         PROVE  course[j] = << "runOrPrompt" >> \/ course[j] = next
    <3>1. Len(first) \in Nat
      BY <2>7
    <3>2. CASE j \in 1 .. n
      BY <2>6, <2>8, <3>2
    <3>3. CASE j \notin 1 .. n
      <4>1. j - n \in 1 .. Len(first) /\ n + (j - n) = j
        BY <2>2, <2>8, <3>1, <3>3
      <4>2. course[n + (j - n)] = first[j - n]
        BY <2>8, <4>1
      <4> QED BY <2>7, <4>1, <4>2
    <3> QED BY <3>2, <3>3
  <2>12. Known(item) # {} => \E j \in DOMAIN todo' : todo'[j].op = next
    <3> SUFFICES ASSUME Known(item) # {} PROVE \E j \in DOMAIN todo' : todo'[j].op = next
      OBVIOUS
    <3>1. 1 \in 1 .. Len(first) /\ n + 1 \in 1 .. Len(course)
      BY <2>2, <2>7, <2>8
    <3>2. course[n + 1] = next
      BY <2>7, <2>8, <3>1
    <3> QED BY <2>10, <3>1, <3>2 DEF Continues
  <2>13. \A b \in DOMAIN todo : b >= 2 => /\ todo[b].op[1] = "construct" => Failed(todo[b].op)
                                          /\ ~Feeds(todo[b].op)
    BY <1>9, OldFrames
  <2>14. \A j \in 1 .. Len(course) : course[j][1] \in {"runOrPrompt", "launch", "call None"}
    <3>1. << "runOrPrompt" >>[1] = "runOrPrompt"
      OBVIOUS
    <3> QED BY <2>5, <2>11, <3>1
  <2>15. /\ \A j \in DOMAIN todo' : ~Feeds(todo'[j].op)
         /\ \A j \in DOMAIN todo' : todo'[j].op[1] = "construct" => \E b \in DOMAIN todo : b >= 2 /\ todo'[j] = todo[b]
    BY <2>10, <2>13, <2>14 DEF Continues, Feeds
  <2>16. OneShell' /\ FedFirst' /\ MadeAtOnce' /\ Entered'
    <3>1. OneShell' /\ FedFirst'
      BY <1>4, <1>10, <2>15 DEF OneShell, FedFirst, Feeds, IsShell
    <3>2. MadeAtOnce'
      BY <2>13, <2>15 DEF MadeAtOnce, Failed
    <3>3. Entered'
      <4>1. pp = 0 \/ (pp \in DOMAIN pps /\ pps[pp].ran)
        BY <1>1, <1>10, PipeOfPP DEF Entered
      <4> QED BY <1>1, <1>6, <4>1 DEF Entered
    <3> QED BY <3>1, <3>2, <3>3
  <2>17. CASE CallsNone
    BY <1>1, <2>10, <2>16, <2>17, CallsNoneStays
  <2>18. CASE 1 \notin Known(item) /\ Known(item) # {}
    BY <2>5, <2>12, <2>16, <2>18 DEF CallsNone
  <2>19. ASSUME NEW S, Chained(S) PROVE \A p \in Unran : ~pps[p].last
    <3>1. objs[1].pending # << >>
      BY <1>1, <1>11
    <3> QED BY <2>19, <3>1 DEF Chained
  <2>20. ASSUME \A p \in Unran : ~pps[p].last, Known(item) = {} \/ 1 \in Known(item)
         PROVE  \E T : Chained(T)'
    <3> DEFINE on == last /\ 1 \in Known(item)
    <3>1. PICK T : T = {q \in DOMAIN pps' : on /\ q > Len(pps) /\ q - Len(pps) \in Known(item)}
      OBVIOUS
    <3>2. ASSUME NEW q \in DOMAIN pps'
          PROVE  q \in DOMAIN pps \/ (q - Len(pps) \in 1 .. Len(item) /\ q > Len(pps) /\ q = Len(pps) + (q - Len(pps)))
      BY <2>2, <2>3, <2>4
    <3>3. T \subseteq Unran'
      <4> SUFFICES ASSUME NEW q \in T PROVE q \in Unran'
        OBVIOUS
      <4>1. q \in DOMAIN pps' /\ q - Len(pps) \in 1 .. Len(item) /\ q = Len(pps) + (q - Len(pps))
        BY <2>2, <2>3, <2>4, <3>1
      <4>2. pps'[q].ran = FALSE
        BY <2>4, <4>1
      <4> QED BY <4>1, <4>2 DEF Unran
    <3>4. ASSUME NEW q \in Unran', pps'[q].last PROVE q \in T
      <4>1. q \in DOMAIN pps' /\ ~pps'[q].ran
        BY DEF Unran
      <4>2. CASE q \in DOMAIN pps
        BY <1>6, <2>20, <3>4, <4>1, <4>2 DEF Unran
      <4>3. CASE q \notin DOMAIN pps
        <5>1. q - Len(pps) \in 1 .. Len(item) /\ q > Len(pps) /\ q = Len(pps) + (q - Len(pps))
          BY <3>2, <4>1, <4>3
        <5>2. last /\ q - Len(pps) \in Known(item)
          BY <2>4, <3>4, <5>1
        <5> QED BY <2>20, <3>1, <4>1, <5>1, <5>2
      <4> QED BY <4>2, <4>3
    <3>5. ASSUME NEW t \in T PROVE Due(t)' \/ Following(t)' \/ \E q \in T : After(q, t)'
      <4>1. PICK k \in Known(item) : t = Len(pps) + k
        <5>1. t - Len(pps) \in Known(item) /\ t \in DOMAIN pps'
          BY <3>1
        <5>2. t = Len(pps) + (t - Len(pps))
          BY <2>3, <2>4, <5>1
        <5> QED BY <5>1, <5>2
      <4>2. last /\ 1 \in Known(item) /\ k \in 1 .. Len(item)
        BY <2>2, <3>1
      <4>3. CASE k = 1
        <5>1. PICK j \in DOMAIN todo' : todo'[j].op = << "launch", Len(pps) + 1 >>
          BY <2>5, <2>12, <4>2
        <5>2. Due(t)'
          BY <4>1, <4>3, <5>1 DEF Due
        <5> QED BY <5>2
      <4>4. CASE k # 1
        <5>1. PICK i \in Known(item) : i < k /\ pps'[Len(pps) + i].next = Len(pps) + k
          BY <2>4, <4>2, <4>4
        <5>2. i \in 1 .. Len(item)
          BY <2>2
        <5>3. PICK m : m = Len(pps) + i
          OBVIOUS
        <5>4. m \in T /\ m > Len(pps) /\ m < t /\ m \notin DOMAIN pps
          <6>1. i \in Nat /\ k \in Nat /\ i >= 1 /\ i < k
            BY <2>2, <4>2, <5>1, <5>2
          <6>2. m > Len(pps) /\ m < t /\ m \notin DOMAIN pps /\ m - Len(pps) = i
            BY <2>3, <4>1, <5>3, <6>1
          <6>3. m \in DOMAIN pps'
            BY <2>4, <5>2, <5>3
          <6> QED BY <3>1, <4>2, <6>2, <6>3
        <5>5. pps'[m].next = t /\ pps'[m].last /\ pps'[t].last
          BY <2>4, <4>1, <4>2, <5>1, <5>2, <5>3
        <5>6. ASSUME NEW j \in DOMAIN todo', Failed(todo'[j].op) PROVE todo'[j].op[2] # m
          <6>1. PICK b \in DOMAIN todo : todo'[j] = todo[b]
            BY <2>15, <5>6 DEF Failed
          <6>2. FrameOK(todo[b], objs, pps) /\ todo[b].op[1] = "construct"
            BY <5>6, <6>1 DEF Typed, TypedTodo, Failed
          <6>3. todo[b].op[2] \in DOMAIN pps
            BY <6>2 DEF FrameOK, Starts, ShellOp, CommandOp, PlainSteps, KnownPipe
          <6> QED BY <5>4, <6>1, <6>3
        <5>7. After(m, t)'
          BY <5>4, <5>5, <5>6 DEF After, Ahead, Failed
        <5> QED BY <5>4, <5>7
      <4> QED BY <4>3, <4>4
    <3>6. T # {} => objs'[1].pending = << >> /\ (todo' # << >> => ~Feeds(op'))
      <4>1. T # {} => last
        BY <3>1
      <4> QED BY <1>3, <1>4, <1>11, <2>15, <4>1, HeadNext
    <3> QED BY <3>3, <3>4, <3>5, <3>6 DEF Chained, Feeds
  <2> QED BY <1>10, <2>16, <2>17, <2>18, <2>19, <2>20
<1> QED BY <1>14, <1>15, <1>16

-----------------------------------------------------------------------------
(* The commands of a last item are started                                 *)

LEMMA StepLinks ==
  ASSUME Typed, Typed', Linked, Step
  PROVE  Linked'
<1>1. CASE LineReceived \/ RunItem \/ RunNothing \/ RunOrPrompt \/ CallNone
  BY <1>1, LineLinks, ItemLinks, ShellLinks, CallNoneLinks
<1>2. CASE Launch \/ Construct \/ CallEnd \/ Course \/ WriteToPipe
  BY <1>2, LaunchLinks, ConstructLinks, CallEndLinks, CourseLinks, WriteLinks
<1>3. CASE \/ WriteToFile \/ RegisterRedir \/ Guarded \/ Echo \/ ChangeDir \/ Fill
           \/ ProcessEnded \/ UseTerminal \/ RaiseHere \/ OnTree \/ Mkfile \/ Link \/ CallLater \/ Cancel \/ CutHeader
  BY <1>3, StillLinks
<1>4. CASE Leave \/ Await \/ Answer \/ Queue \/ PushShell \/ Pop \/ InsertCommand \/ Temp \/ Keep \/ Move
  BY <1>4, LeaveLinks, FileLinks, AnswerLinks, QueueLinks, ShLinks, InsertLinks
<1> QED BY <1>1, <1>2, <1>3, <1>4 DEF Step

LEMMA InitLinked ==
  ASSUME Init
  PROVE  Linked
<1> DEFINE e == Shell(~script.exec)
<1>1. e.cls = "shell" /\ e.pending = << >>
  BY DEF Shell
<1>2. objs = << e >> /\ pps = << >> /\ pp = 0
  BY DEF Init
<1> HIDE DEF e
<1>3. Listed(objs) /\ Len(objs) = 1 /\ objs[1] = e
  BY <1>2, ListedSingle
<1>4. DOMAIN objs = 1 .. 1 /\ (\A o \in 1 .. 1 : o = 1) /\ DOMAIN pps = {}
  BY <1>2, <1>3, ListedShape, ListedEmpty
<1>5. \A i \in DOMAIN todo : i = 1 /\ todo[i].op[1] = "line"
  <2>1. CASE script.exec
    <3> DEFINE o == << "line", Head(script.lines) >>
    <3>1. todo = Calls(1, << o >>) /\ o[1] = "line"
      BY <2>1 DEF Init
    <3> HIDE DEF o
    <3>2. Listed(<< o >>) /\ Len(<< o >>) = 1 /\ << o >>[1] = o
      BY ListedSingle
    <3>3. DOMAIN << o >> = 1 .. 1
      BY <3>2, ListedShape
    <3>4. DOMAIN todo = 1 .. 1 /\ \A i \in 1 .. 1 : todo[i].op = << o >>[i]
      BY <3>1, <3>3 DEF Calls
    <3>5. todo[1].op = o
      BY <1>4, <3>2, <3>4
    <3> QED BY <1>4, <3>1, <3>4, <3>5
  <2>2. CASE ~script.exec
    <3>1. todo = << >>
      BY <2>2 DEF Init
    <3> QED BY <3>1, ListedEmpty
  <2> QED BY <2>1, <2>2
<1>6. OwnPipe /\ OneShell
  BY <1>1, <1>3, <1>4 DEF OwnPipe, OneShell, IsShell
<1>7. Entered /\ MadeAtOnce /\ FedFirst
  BY <1>2, <1>5 DEF Entered, MadeAtOnce, FedFirst
<1>8. Chained({})
  BY <1>4 DEF Chained, Unran
<1> QED BY <1>6, <1>7, <1>8 DEF Linked

LEMMA StutterLinks ==
  ASSUME Linked, UNCHANGED vars
  PROVE  Linked'
<1>1. UNCHANGED << todo, objs, pps, pp, past >>
  BY DEF vars, stack
<1>2. Undisturbed' => Undisturbed
  BY <1>1 DEF Undisturbed
<1>3. OwnPipe => OwnPipe'
  BY <1>1 DEF OwnPipe, IsShell
<1>4. OneShell /\ Entered /\ MadeAtOnce /\ FedFirst => OneShell' /\ Entered' /\ MadeAtOnce' /\ FedFirst'
  BY <1>1 DEF OneShell, Entered, MadeAtOnce, FedFirst, IsShell, Failed, Feeds, op
<1>5. CallsNone => CallsNone'
  BY <1>1 DEF CallsNone
<1>6. ASSUME NEW S, Chained(S) PROVE Chained(S)'
  <2>1. S \subseteq Unran' /\ \A p \in Unran' : pps'[p].last => p \in S
    BY <1>1, <1>6 DEF Chained, Unran
  <2>2. ASSUME NEW s, Due(s) PROVE Due(s)'
    BY <1>1, <2>2 DEF Due
  <2>3. ASSUME NEW s, Following(s) PROVE Following(s)'
    <3>1. \A j : Tame(j) => Tame(j)'
      BY <1>1 DEF Tame, IsShell, Resumes, Begins
    <3>2. \A i : Reached(i) => Reached(i)'
      BY <1>1, <3>1 DEF Reached
    <3> QED BY <1>1, <2>3, <3>2 DEF Following
  <2>4. ASSUME NEW q, NEW s, After(q, s) PROVE After(q, s)'
    BY <1>1, <2>4 DEF After, Ahead, Failed
  <2>5. S # {} => objs'[1].pending = << >> /\ (todo' # << >> => ~Feeds(op'))
    BY <1>1, <1>6 DEF Chained, Feeds, op
  <2> QED BY <1>6, <2>1, <2>2, <2>3, <2>4, <2>5 DEF Chained, Feeds
<1> QED BY <1>2, <1>3, <1>4, <1>5, <1>6 DEF Linked

\* As long as nothing has died and there is no sh: every command of the last item that
\* has not been started will be, by what is in progress (call_command) or by another
\* such command, and it is known which one comes first.
THEOREM AlwaysLinked == Spec => []Linked
<1>1. Init => Linked
  BY InitLinked
<1>2. Typed /\ Typed' /\ Linked /\ [Next]_vars => Linked'
  BY StepLinks, EventLinks, StutterLinks DEF Next
<1> QED BY <1>1, <1>2, AlwaysTyped, PTL DEF Spec

LEMMA AllStarted ==
  ASSUME Typed, Linked
  PROVE  LastItemRuns
<1> SUFFICES ASSUME Idle, past.deaths = {}, \A p \in DOMAIN pps : pps[p].stage.cmd # "sh",
                    NEW p \in DOMAIN pps, pps[p].last, ~pps[p].ran
             PROVE  FALSE
  BY DEF LastItemRuns
<1>1. CallsNone \/ \E S : Chained(S)
  BY DEF Linked, Undisturbed
<1>2. ~CallsNone
  BY ListedEmpty DEF CallsNone, Idle
<1>3. PICK S : Chained(S)
  BY <1>1, <1>2
<1>4. S = {}
  BY <1>3, NoneLeft
<1> QED BY <1>3, <1>4 DEF Chained, Unran

\* When a session waits, every command of the last item of its lines has been started,
\* whatever the commands before it did, unless there was an exception or an sh
\* (honeypot.py, runCommand; protocol.py, call_command).
THEOREM LastItemStarts == Spec => []LastItemRuns
<1>1. Typed /\ Linked => LastItemRuns
  BY AllStarted
<1> QED BY <1>1, AlwaysTyped, AlwaysLinked, PTL
=============================================================================
