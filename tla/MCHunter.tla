------------------------------ MODULE MCHunter ------------------------------
(* Hunter for TLC: two tracked files, one of them with a key file.          *)
EXTENDS Hunter

Shipped ==
  [key \in Switches |-> key \in {"tentacles", "hunter"}]

OneKey == [f \in {"secret"} |-> "key"]

PidSet == 1 .. 2

=============================================================================
