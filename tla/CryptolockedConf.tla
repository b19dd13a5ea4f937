-------------------------- MODULE CryptolockedConf --------------------------
(***************************************************************************)
(* How cryptolocked-ng arrives at its configuration: the flags of __main__,*)
(* cli_override and parse_conf.  Only the switches that decide what the    *)
(* two modules do are kept.                                                *)
(***************************************************************************)
EXTENDS TLC

CONSTANTS
  Flags,     \* command line flags given, without their dashes
  FileConf   \* what cl.conf sets, a function from switches to BOOLEAN


Switches == {"tentacles", "hunter", "armed_state", "only_arm_hunter",
             "no_failsafe", "no_hunter", "alerts_enabled"}

AllFlags == {"tentacles", "armed", "no-failsafe", "no-hunter",
             "only-arm-hunter"}

ASSUME ConfAssumption ==
  Flags \subseteq AllFlags /\ FileConf \in [Switches -> BOOLEAN]

\* __main__: each flag that is present starts from an empty dictionary again,
\* so that only the last one counts.
Overrides ==
  CASE "only-arm-hunter" \in Flags ->
         ("only_arm_hunter" :> TRUE) @@ ("armed_state" :> FALSE)
    [] "only-arm-hunter" \notin Flags /\ "no-hunter" \in Flags ->
         "no_hunter" :> TRUE
    [] Flags \intersect {"only-arm-hunter", "no-hunter"} = {}
         /\ "no-failsafe" \in Flags -> "no_failsafe" :> TRUE
    [] Flags \in {{"armed"}, {"armed", "tentacles"}} -> "armed" :> TRUE
    [] Flags = {"tentacles"} -> "tentacles" :> TRUE
    [] OTHER -> << >>

\* cli_override drops a key that conf does not have; parse_conf keeps what the
\* command line has set.
Conf ==
  [key \in Switches |->
     IF key \in DOMAIN Overrides THEN Overrides[key] ELSE FileConf[key]]
=============================================================================
