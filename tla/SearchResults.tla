---------------------------- MODULE SearchResults ----------------------------
(***************************************************************************)
(* practice/hw4: the algorithms between a query and its answer, without    *)
(* state: how the trie is scanned for a string, how the results are sorted *)
(* and how many of them are sent.  A word is a sequence of letters, a      *)
(* result a record of a word and its count.                                *)
(***************************************************************************)
EXTENDS Integers, Sequences, SequencesExt

CONSTANT MaxLines   \* how many results are sent at most (10 in send_msg)

ASSUME MaxLinesAssumption == MaxLines \in Nat

\* Bug for a mutant run: a letter that does not fit leaves the search where it is.
AdvanceKeeping(str, s, x) == IF s < Len(str) /\ x = str[s + 1] THEN s + 1 ELSE s

\* traverseAndFindChar goes down by letter x after s letters of str have been
\* found in a row: with the next letter of str, from the beginning of str (x is
\* not looked at again), or, once all of str is found, with nothing to look for.
Advance(str, s, x) ==
  CASE s = Len(str) -> s
    [] s < Len(str) /\ x = str[s + 1] -> s + 1
    [] s < Len(str) /\ x # str[s + 1] -> 0

\* How much of str has been found at the node with path w.
Progress(str, w) == FoldLeft(LAMBDA s, x : Advance(str, s, x), 0, w)

IsContain(str, w) == Progress(str, w) = Len(str)

\* Bug for a mutant run: results of equal count are swapped.
OutOfOrderOrEqual(a, b) == a.cnt <= b.cnt

\* bubbleSort swaps neighbours a, b.
OutOfOrder(a, b) == a.cnt < b.cnt

\* Bug for a mutant run: the inner loop stops one pair early.
PairsFewer(count, i) == IF count - i > 1 THEN count - i - 2 ELSE 0

\* How many pairs of neighbours the inner loop compares in turn i of the outer one.
Pairs(count, i) == count - i - 1

\* An array of elements of S after its j-th pair has been compared.
Compared(S, j) ==
  [arr \in Seq(S) |->
     IF OutOfOrder(arr[j], arr[j + 1])
       THEN [arr EXCEPT ![j] = arr[j + 1], ![j + 1] = arr[j]] ELSE arr]

\* The same after the inner loop of bubbleSort.
BubbleTurn(S, pairs) ==
  [arr \in Seq(S) |->
     LET a[j \in 0 .. pairs] == IF j = 0 THEN arr ELSE Compared(S, j)[a[j - 1]]
     IN a[pairs]]

\* The outer loop.
BubbleSort(arr, count) ==
  LET a[i \in 0 .. count] ==
        IF i = 0 THEN arr ELSE BubbleTurn(ToSet(arr), Pairs(count, i - 1))[a[i - 1]]
  IN a[count]

\* What send_msg sends of an array of which count entries are results.
TopList(arr, count) == SubSeq(arr, 1, IF count > MaxLines THEN MaxLines ELSE count)

=============================================================================
