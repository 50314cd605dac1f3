------------------------------ MODULE MCTransfer ------------------------------
(* Instances of Transfer for TLC. *)
EXTENDS Transfer

\* recv_socks in the order of the receivers' ids.
InIdOrder ==
  [r \in Receivers |-> [j \in Slots |-> IF j < r THEN j ELSE j + 1]]

\* Even receivers hold their connections in the opposite order.
Mixed ==
  [r \in Receivers |->
     [j \in Slots |-> InIdOrder[r][IF r % 2 = 0 THEN N - 2 - j ELSE j]]]

=============================================================================
