---------------------------- MODULE MCSshMonitor ----------------------------
(***************************************************************************)
(* Two attackers, the text of one a part of the other's; a whitelisted     *)
(* address, and an IPv6 one.                                               *)
(***************************************************************************)
EXTENDS SshMonitor

CONSTANTS
  short, long,    \* 10.0.0.1 and 10.0.0.12
  friend,         \* in WHITELIST_IP
  v6              \* an IPv6 address

MCIPs   == {short, long, friend}
MCHosts == MCIPs \union {v6}
MCLike  == [a \in MCIPs |-> IF a = short THEN {short, long} ELSE {a}]
=============================================================================
