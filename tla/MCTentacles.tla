---------------------------- MODULE MCTentacles ----------------------------
(* Tentacles for TLC: the cl.conf that ships, with mail alerts on.          *)
EXTENDS Tentacles

ShippedMail ==
  [key \in Switches |-> key \in {"tentacles", "hunter", "alerts_enabled"}]

=============================================================================
