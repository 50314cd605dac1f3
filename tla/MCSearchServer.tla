--------------------------- MODULE MCSearchServer ---------------------------
(* An instance of SearchServer: two words that contain the letter users type, *)
(* and none that contains it twice. *)
EXTENDS SearchServer

MCDict == <<[word |-> <<0>>, cnt |-> 1], [word |-> <<1, 0>>, cnt |-> 2]>>

=============================================================================
