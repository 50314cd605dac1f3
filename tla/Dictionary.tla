----------------------------- MODULE Dictionary -----------------------------
(***************************************************************************)
(* practice/hw4: what the trie keeps, whatever its shape: a count for each *)
(* word.  A word may be put, which replaces its count, or taken away;      *)
(* nothing ever happens to two words at once.                              *)
(***************************************************************************)
CONSTANTS
  Words,    \* the words that may be put
  Counts    \* the counts they may have

VARIABLE dict   \* dict[w]: the count of word w

Init == dict = [w \in {} |-> 0]

Put(w, c) == dict' = [v \in DOMAIN dict \cup {w} |-> IF v = w THEN c ELSE dict[v]]

TakeAway(w) == dict' = [v \in DOMAIN dict \ {w} |-> dict[v]]

Next == \E w \in Words : TakeAway(w) \/ \E c \in Counts : Put(w, c)

Spec == Init /\ [][Next]_dict

=============================================================================
