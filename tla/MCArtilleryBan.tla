--------------------------- MODULE MCArtilleryBan ---------------------------
(***************************************************************************)
(* ArtilleryBan for TLC: the config that ships, with the honeypot's bans   *)
(* and the recycling of addresses on.  "long" is 192.168.123.45; the last  *)
(* seven characters of its line are "part", 123.45, which inet_aton takes  *)
(* for "full", 123.0.0.45.  "b" is 8.8.8.8 and "w" 9.9.9.9: a line of      *)
(* theirs, written over that of "long", leaves "part".  What is left of a  *)
(* line in other cases is not looked at.                                   *)
(***************************************************************************)
EXTENDS ArtilleryBan

CONSTANTS long, part, full, b, w

AllIPs == {long, part, full, b, w}

Sizes ==
  (long :> 15) @@ (part :> 7) @@ (full :> 11) @@ (b :> 8) @@ (w :> 8)

AllEnds ==
  [a \in AllIPs |-> [n \in 1 .. Sizes[a] - 1 |-> IF a = long /\ n = 7 THEN part ELSE NoIP]]

Parts == [a \in AllIPs |-> IF a = long THEN {long, part} ELSE {a}]

InFull == [a \in AllIPs |-> IF a = part THEN full ELSE a]

Numbers == (b :> 1) @@ (w :> 2) @@ (part :> 3) @@ (full :> 3) @@ (long :> 4)

BanOn ==
  [key \in {"HONEYPOT_BAN", "HONEYPOT_AUTOACCEPT", "SOURCE_FEEDS",
            "THREAT_INTELLIGENCE_FEED", "RECYCLE_IPS", "ARTILLERY_REFRESH"} |->
     IF key = "ARTILLERY_REFRESH" THEN "604800" ELSE "on"]

NoNets == [c \in {} |-> {}]
=============================================================================
