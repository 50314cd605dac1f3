------------------------------- MODULE MCTrie -------------------------------
(* Instances of Trie: letters 0 and 1 and the space, 2. *)
EXTENDS Trie

MCWords == {<<0>>, <<0, 1>>, <<0, 1, 0>>, <<0, 0, 1>>, <<0, 2, 1>>}

MCLines == [word : MCWords, cnt : {1, 2}]

MCFiles == {<<a, b, c>> : a, b, c \in MCLines}

MCStrings == {<< >>, <<2>>, <<0, 2>>} \cup MCWords \cup UNION {[1 .. k -> {0, 1}] : k \in 1 .. 2}

=============================================================================
