-------------------------------- MODULE Trie --------------------------------
(***************************************************************************)
(* practice/hw4: the trie of the search server and the data file it is     *)
(* loaded from.  file.c reads lines of a word and a count and inserts      *)
(* them; after that words are looked for, by search() or by the strings    *)
(* they contain, and deleted.                                              *)
(*                                                                         *)
(* A node is named by the word that leads to it from the root, so the      *)
(* nodes that can be reached are a set of words.  childNum, isTerminal and *)
(* search_cnt are kept beside it, as in the code: nothing makes them agree *)
(* with it but the operations.                                             *)
(***************************************************************************)
EXTENDS SearchResults, FiniteSets, FiniteSetsExt

CONSTANTS
  Letters,   \* the letters, in the order of their index: 0 .. ALPHABET_SIZE - 1
  Files,     \* the data files: sequences of lines, each a word and a count
  Strings    \* the strings that search(), deletion() and queries are given

space == Max(Letters)

FileWords == {line.word : line \in UNION {ToSet(f) : f \in Files}}

ASSUME TrieAssumption ==
  /\ IsFiniteSet(Letters) /\ Letters = 0 .. Cardinality(Letters) - 1
  /\ Files \subseteq Seq([word : Seq(Letters), cnt : Int]) /\ << >> \notin Files
  /\ Strings \subseteq Seq(Letters)
  /\ << >> \notin FileWords
  /\ \A w \in FileWords : w[1] # space

VARIABLES
  lines,       \* the lines of the file that are not read yet
  buffer,      \* the word of the line that was read last
  newline,     \* the file ends with a newline
  loaded,      \* openFileAndSaveTrie has returned
  nodes,       \* the nodes that are linked, as paths from the root
  childNum,    \* childNum[p]
  isTerminal,  \* the nodes that are marked as the end of a word
  search_cnt,  \* search_cnt[p]
  freed,       \* the nodes that have been freed
  written,     \* history: written[w], the count the file gives w, so far
  deleted      \* history: the words in the trie that deletion() was called for

fileVars == <<lines, buffer, newline, loaded>>
trieVars == <<nodes, childNum, isTerminal, search_cnt, freed>>

vars == <<fileVars, trieVars, written, deleted>>

Init ==
  /\ lines \in Files
  /\ buffer = << >>
  /\ newline \in BOOLEAN
  /\ loaded = FALSE
  /\ nodes = {<< >>}
  /\ childNum = [p \in nodes |-> 0]
  /\ isTerminal = {}
  /\ search_cnt = [p \in nodes |-> 0]
  /\ freed = {}
  /\ written = [w \in {} |-> 0]
  /\ deleted = {}

-------------------------------------------------------------------------------
(* Loading. *)

\* Bug for a mutant run: childNum is raised although the child is there.
GetsChildAlways(p, w) == p \in Prefixes(w) \ {w}

\* insert() links a new child to node p.
GetsChild(p, w) == p \in Prefixes(w) \ {w} /\ SubSeq(w, 1, Len(p) + 1) \notin nodes

\* Bug for a mutant run: the counts on the way are overwritten.
CountAfterPath(p, w, c) == IF p \in Prefixes(w) THEN c ELSE search_cnt[p]

\* search_cnt of node p after an insert().
CountAfter(p, w, c) ==
  IF p = w THEN c ELSE IF p \in nodes THEN search_cnt[p] ELSE 0

insert(w, c) ==
  /\ nodes' = nodes \cup Prefixes(w)
  /\ childNum' = [p \in nodes' |-> (IF p \in nodes THEN childNum[p] ELSE 0)
                                    + (IF GetsChild(p, w) THEN 1 ELSE 0)]
  /\ isTerminal' = isTerminal \cup {w}
  /\ search_cnt' = [p \in nodes' |-> CountAfter(p, w, c)]

\* One turn of the loop of openFileAndSaveTrie.  It is the last if the end of
\* the file has been seen, which a newline before it prevents.
LoadLine ==
  /\ ~ loaded
  /\ lines # << >>
  /\ insert(Head(lines).word, Head(lines).cnt)
  /\ written' = [w \in DOMAIN written \cup {Head(lines).word} |->
                   IF w = Head(lines).word THEN Head(lines).cnt ELSE written[w]]
  /\ buffer' = Head(lines).word
  /\ lines' = Tail(lines)
  /\ loaded' = (lines' = << >> /\ ~ newline)
  /\ UNCHANGED <<newline, freed, deleted>>

\* What strtok() has left of a line: its first token.
FirstToken(w) ==
  LET ends == {k \in 1 .. Len(w) : w[k] = space} IN
  IF ends = {} THEN w ELSE SubSeq(w, 1, Min(ends) - 1)

\* The turn after the last newline: fgets() fails, and the buffer, cut up as it
\* is, is taken for a line once more: a word that is not a number counts 0.
LoadLastAgain ==
  /\ ~ loaded
  /\ lines = << >>
  /\ insert(FirstToken(buffer), 0)
  /\ loaded' = TRUE
  /\ UNCHANGED <<lines, buffer, newline, freed, written, deleted>>

-------------------------------------------------------------------------------
(* Looking for words, and deleting them. *)

\* search()
search(w) == childNum[<< >>] > 0 /\ w \in nodes /\ w \in isTerminal

\* traverseAndFindChar from the root: a node before its children, these in the
\* order of their index; n letters of str have been found in a row at node p.
Found(str) ==
  LET walk[p \in nodes] == [n \in 0 .. Len(str) |->
        (IF n = Len(str) /\ p \in isTerminal
           THEN <<[word |-> p, cnt |-> search_cnt[p]]>> ELSE << >>)
        \o (IF childNum[p] = 0 THEN << >>
            ELSE FlattenSeq([k \in 1 .. Cardinality(Letters) |->
                   IF Append(p, k - 1) \in nodes
                     THEN walk[Append(p, k - 1)][Advance(str, n, k - 1)] ELSE << >>]))]
  IN walk[<< >>][0]

\* What is sent of what was found.
Answer(found) == TopList(BubbleSort(found, Len(found)), Len(found))

\* Bug for a mutant run: deletion() does not return early at a leaf.
AtLeafNever(p) == FALSE

\* deletion() returns at once.
AtLeaf(p) == childNum[p] = 0

\* Bug for a mutant run: the whole path is unmarked.
UnmarkedPath(w) == Prefixes(w)

\* The node deletion() takes the mark from.
Unmarked(w) == {w}

\* A call of deletion() that does nothing.
Nothing == [ret |-> 0, free |-> {}, unmark |-> {}]

\* What deletion(node, rest of w) does at node k of the path to w, below being
\* what it does from the next node on: the return value, what it frees and what
\* it unmarks.
DeletionAt(w, k, below) ==
  LET cur == SubSeq(w, 1, k) IN
  CASE cur \notin nodes -> Nothing
    [] cur \in nodes /\ AtLeaf(cur) -> Nothing
    [] cur \in nodes /\ ~ AtLeaf(cur) /\ k < Len(w) ->
         IF below.ret = 1 /\ cur \notin isTerminal /\ childNum[cur] = 0
           THEN [below EXCEPT !.free = @ \cup {cur}]
           ELSE [below EXCEPT !.ret = 0]
    [] cur \in nodes /\ ~ AtLeaf(cur) /\ k = Len(w) ->
         CASE cur \notin isTerminal -> Nothing
           [] cur \in isTerminal /\ childNum[cur] = 0 ->
                [ret |-> 1, free |-> {cur}, unmark |-> {}]
           [] cur \in isTerminal /\ childNum[cur] > 0 ->
                [Nothing EXCEPT !.unmark = Unmarked(w)]

\* The whole call, from the end of the path upwards.
Deletion(w) ==
  LET del[k \in 0 .. Len(w)] ==
        DeletionAt(w, k, IF k = Len(w) THEN Nothing ELSE del[k + 1])
  IN del[0]

deletion(w) ==
  /\ loaded
  /\ freed' = freed \cup Deletion(w).free
  /\ isTerminal' = isTerminal \ Deletion(w).unmark
  /\ deleted' = deleted \cup ({w} \cap isTerminal)
  /\ UNCHANGED <<fileVars, nodes, childNum, search_cnt, written>>

Next ==
  \/ LoadLine
  \/ LoadLastAgain
  \/ \E w \in Strings : deletion(w)

Spec == Init /\ [][Next]_vars

-------------------------------------------------------------------------------
(* Properties *)

\* What is kept beside the links agrees with them: childNum, on which a search
\* turns back, is the number of children, every leaf is a word, so that no
\* search goes down for nothing, and no node that is linked has been freed.
TrieShape ==
  /\ << >> \in nodes
  /\ \A p \in nodes : Prefixes(p) \subseteq nodes
  /\ \A p \in nodes :
       /\ childNum[p] = Cardinality({x \in Letters : Append(p, x) \in nodes})
       /\ childNum[p] = 0 /\ p # << >> => p \in isTerminal
  /\ freed \cap nodes = {}

\* What the last line is inserted for once more: a file that ends with a newline.
Again == IF loaded /\ newline THEN {FirstToken(buffer)} ELSE {}

\* After loading search() finds the words of the file, except for those that
\* deletion() was called for, whether it deleted them or not, and no others, and
\* they have their last counts.  A newline at the end of the file does no more
\* than this: the first word of the last line is found too, with count 0 even if
\* a line gives it another.
LoadedAsWritten ==
  loaded =>
    /\ \A w \in FileWords \cup Strings \cup Again :
         /\ search(w) => w \in DOMAIN written \cup Again
         /\ w \in DOMAIN written \cup Again => search(w) \/ w \in deleted
    /\ \A w \in isTerminal : search_cnt[w] = IF w \in Again THEN 0 ELSE written[w]

\* Position k of w is the beginning of an occurrence of str.
OccursAt(str, w, k) == IsPrefix(str, SubSeq(w, k, Len(w)))

\* No string before the first occurrence of str in w begins like str.
NoFalseStart(str, w) ==
  \E k \in 1 .. Len(w) : OccursAt(str, w, k) /\ \A j \in 1 .. k - 1 : w[j] # str[1]

\* A query finds only words that contain it, each once, in dictionary order, and
\* among them all in which no letter before the first occurrence of the query is
\* the query's first letter; so all words that begin with the query.
FindsWhatContains ==
  loaded => \A str \in Strings \ {<< >>} :
    LET found == Found(str)
        words == {found[i].word : i \in DOMAIN found}
    IN
    /\ words \subseteq {w \in isTerminal : \E k \in 1 .. Len(w) : OccursAt(str, w, k)}
    /\ {w \in isTerminal : NoFalseStart(str, w)} \subseteq words
    /\ \A i, j \in DOMAIN found : i < j =>
         LET v == found[i].word
             w == found[j].word
         IN \/ IsStrictPrefix(v, w)
            \/ \E k \in 1 .. Len(v) : /\ k <= Len(w) /\ v[k] < w[k]
                                      /\ SubSeq(v, 1, k - 1) = SubSeq(w, 1, k - 1)

\* An answer has what was found, best first, words of equal count in dictionary
\* order, and nothing that is left out has a greater count than what is sent.
AnswerIsTop ==
  loaded => \A str \in Strings :
    LET found  == Found(str)
        answer == Answer(found)
        Place(r) == CHOOSE i \in DOMAIN found : found[i] = r
    IN
    /\ Len(answer) = Min({MaxLines, Len(found)})
    /\ ToSet(answer) \subseteq ToSet(found)
    /\ \A i, j \in DOMAIN answer : i < j =>
         \/ answer[i].cnt > answer[j].cnt
         \/ answer[i].cnt = answer[j].cnt /\ Place(answer[i]) < Place(answer[j])
    /\ \A r \in ToSet(found) \ ToSet(answer), i \in DOMAIN answer : answer[i].cnt >= r.cnt

\* A query finds all words that contain it, in the middle or at the end as well
\* as at the beginning.
FindsAllThatContain ==
  loaded => \A str \in Strings \ {<< >>}, w \in isTerminal :
    (\E k \in 1 .. Len(w) : OccursAt(str, w, k)) =>
      \E i \in DOMAIN Found(str) : Found(str)[i].word = w

\* The trie does what a dictionary does: an insert() changes no other word, a
\* deletion() at most takes its word away, and what the last line is read again
\* for is an insert() too.
Abstract == INSTANCE Dictionary WITH
  Words  <- FileWords \cup Strings \cup {FirstToken(w) : w \in FileWords},
  Counts <- {0} \cup {line.cnt : line \in UNION {ToSet(f) : f \in Files}},
  dict   <- [w \in isTerminal |-> search_cnt[w]]

ImplementsDictionary == Abstract!Spec

=============================================================================
