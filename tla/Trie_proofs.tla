------------------------------ MODULE Trie_proofs ------------------------------
(***************************************************************************)
(* What TLAPS proves about Trie, for any alphabet, data file and strings:  *)
(* what is kept beside the links agrees with them, a loaded file is found  *)
(* as it was written, the trie implements a dictionary, a query finds what *)
(* FindsWhatContains says, and its answer is the best of what it finds.    *)
(***************************************************************************)
EXTENDS Trie, FiniteSetTheorems, WellFoundedInduction, TLAPS

Paths == Seq(Letters)

Lines == UNION {ToSet(f) : f \in Files}

\* The letters of the children of node p.
Children(p) == {x \in Letters : Append(p, x) \in nodes}

\* All that is read comes from a file.
Types ==
  /\ lines \in Seq(Lines)
  /\ buffer \in FileWords \cup {<< >>}
  /\ lines = << >> => buffer \in FileWords
  /\ nodes \subseteq Paths
  /\ DOMAIN childNum = nodes
  /\ isTerminal \subseteq nodes \ {<< >>}
  /\ DOMAIN search_cnt = nodes
  /\ freed = {}

\* The parts of TrieShape.
Rooted == << >> \in nodes /\ \A p \in nodes : Prefixes(p) \subseteq nodes

ChildrenCounted == \A p \in nodes : childNum[p] = Cardinality(Children(p))

LeavesAreWords == \A p \in nodes : childNum[p] = 0 /\ p # << >> => p \in isTerminal

\* Without a newline at its end the file is loaded with its last line, and what is
\* marked was written, or inserted again, but for what deletion() took away.
Written ==
  /\ ~ newline /\ lines = << >> => loaded
  /\ isTerminal \subseteq DOMAIN written \cup Again
  /\ DOMAIN written \cup Again \subseteq isTerminal \cup deleted
  /\ \A w \in isTerminal : search_cnt[w] = IF w \in Again THEN 0 ELSE written[w]

Inv == Types /\ Rooted /\ ChildrenCounted /\ LeavesAreWords /\ Written

-------------------------------------------------------------------------------
(* Numbers. *)

\* A set of natural numbers that is not empty has a least one.
LEMMA LessIs ==
  \E R : IsWellFoundedOn(R, Nat) /\ \A a, b \in Nat : <<a, b>> \in R <=> a < b
<1>1. IsWellFoundedOn(OpToRel(<, Nat), Nat)
  BY NatLessThanWellFounded, Zenon
<1>2. \A a, b \in Nat : <<a, b>> \in OpToRel(<, Nat) <=> a < b
  BY Zenon DEF OpToRel
<1> QED
  BY <1>1, <1>2, Zenon

LEMMA MinIs ==
  ASSUME NEW S \in SUBSET Nat, S # {}
  PROVE  Min(S) \in S /\ \A y \in S : Min(S) <= y
<1>1. PICK R : IsWellFoundedOn(R, Nat) /\ \A a, b \in Nat : <<a, b>> \in R <=> a < b
  BY LessIs
<1>2. IsWellFoundedOn(R, Nat) /\ S \subseteq Nat /\ S # {}
  BY <1>1
<1>3. PICK x \in S : \A y \in S : ~ (<<y, x>> \in R)
  BY <1>2, WFMin
<1>4. ASSUME NEW y \in S PROVE x <= y
  <2>1. x \in Nat /\ y \in Nat /\ <<y, x>> \notin R
    BY <1>3
  <2>2. ~ (y < x)
    BY <1>1, <2>1
  <2> QED
    BY <2>1, <2>2
<1> QED
  BY <1>4 DEF Min

-------------------------------------------------------------------------------
(* Words and their prefixes. *)

LEMMA ElementIs ==
  ASSUME NEW S, NEW s \in Seq(S), NEW k \in 1 .. Len(s)
  PROVE  s[k] \in S
OBVIOUS

LEMMA LinesAre ==
  /\ \A l \in Lines : l.word \in FileWords /\ l.word \in Paths
  /\ FileWords \subseteq Paths \ {<< >>}
  /\ Strings \subseteq Paths
  /\ \A f \in Files : f \in Seq(Lines) /\ f # << >>
<1>1. ASSUME NEW f \in Files PROVE f \in Seq(Lines) /\ f # << >>
  <2>1. f \in Seq([word : Paths, cnt : Int]) /\ f # << >>
    BY TrieAssumption DEF Paths
  <2>2. \A i \in 1 .. Len(f) : f[i] \in Lines
    BY <2>1 DEF Lines, ToSet
  <2> QED
    BY <2>1, <2>2
<1>2. ASSUME NEW l \in Lines PROVE l.word \in FileWords /\ l.word \in Paths
  <2>1. PICK f \in Files : l \in ToSet(f)
    BY DEF Lines
  <2>2. f \in Seq([word : Paths, cnt : Int])
    BY TrieAssumption DEF Paths
  <2>3. PICK i \in 1 .. Len(f) : l = f[i]
    BY <2>1, <2>2 DEF ToSet
  <2>4. l \in [word : Paths, cnt : Int]
    BY <2>2, <2>3, ElementIs
  <2> QED
    BY <2>4 DEF FileWords, Lines
<1>3. FileWords \subseteq Paths \ {<< >>}
  <2>1. \A w \in FileWords : \E l \in Lines : w = l.word
    BY DEF FileWords, Lines
  <2> QED
    BY <1>2, <2>1, TrieAssumption
<1> QED
  BY <1>1, <1>2, <1>3, TrieAssumption DEF Paths

\* Prefix l of w.
LEMMA PrefixIs ==
  ASSUME NEW w \in Paths, NEW l \in 0 .. Len(w)
  PROVE  /\ SubSeq(w, 1, l) \in Paths
         /\ Len(SubSeq(w, 1, l)) = l
         /\ \A k \in 1 .. l : SubSeq(w, 1, l)[k] = w[k]
  BY DEF Paths

LEMMA PrefixesAre ==
  ASSUME NEW w \in Paths
  PROVE  /\ Prefixes(w) \subseteq Paths
         /\ w \in Prefixes(w) /\ << >> \in Prefixes(w)
         /\ \A p \in Prefixes(w) : Len(p) \in 0 .. Len(w) /\ p = SubSeq(w, 1, Len(p))
         /\ \A l \in 0 .. Len(w) : SubSeq(w, 1, l) \in Prefixes(w)
         /\ \A p \in Prefixes(w) : Prefixes(p) \subseteq Prefixes(w)
<1>1. \A p \in Prefixes(w) : p \in Paths /\ Len(p) \in 0 .. Len(w) /\ p = SubSeq(w, 1, Len(p))
  BY PrefixIs DEF Prefixes
<1>2. SubSeq(w, 1, Len(w)) = w /\ SubSeq(w, 1, 0) = << >> /\ Len(w) \in Nat
  BY DEF Paths
<1>3. w \in Prefixes(w) /\ << >> \in Prefixes(w)
  <2>1. Len(w) \in 0 .. Len(w) /\ 0 \in 0 .. Len(w)
    BY <1>2
  <2> QED
    BY <1>2, <2>1, Zenon DEF Prefixes
<1>4. ASSUME NEW p \in Prefixes(w), NEW q \in Prefixes(p) PROVE q \in Prefixes(w)
  <2>1. PICK l \in 0 .. Len(w) : p = SubSeq(w, 1, l)
    BY DEF Prefixes
  <2>2. PICK m \in 0 .. Len(p) : q = SubSeq(p, 1, m)
    BY DEF Prefixes
  <2>3. Len(p) = l /\ m \in 0 .. Len(w) /\ p \in Paths /\ l \in Nat /\ m \in Nat /\ m <= l
    BY <1>2, <2>1, <2>2, PrefixIs
  <2>4. q = SubSeq(w, 1, m)
    <3>1. q \in Paths /\ SubSeq(w, 1, m) \in Paths /\ Len(q) = m /\ Len(SubSeq(w, 1, m)) = m
      BY <2>2, <2>3, PrefixIs
    <3>2. ASSUME NEW k \in 1 .. m PROVE q[k] = SubSeq(w, 1, m)[k]
      <4>1. k \in 1 .. l
        BY <2>3
      <4>2. q[k] = p[k]
        BY <2>2, <2>3, PrefixIs
      <4>3. p[k] = w[k] /\ SubSeq(w, 1, m)[k] = w[k]
        BY <2>1, <2>3, <4>1, PrefixIs
      <4> QED
        BY <4>2, <4>3
    <3> QED
      BY <3>1, <3>2 DEF Paths
  <2> QED
    BY <2>3, <2>4 DEF Prefixes
<1>5. \A l \in 0 .. Len(w) : SubSeq(w, 1, l) \in Prefixes(w)
  BY DEF Prefixes
<1> QED
  BY <1>1, <1>3, <1>4, <1>5

\* The children of a node that is on the way to w.
LEMMA AppendIsPrefix ==
  ASSUME NEW w \in Paths, NEW p \in Paths, NEW x \in Letters
  PROVE  /\ Append(p, x) \in Paths /\ p \in Prefixes(Append(p, x))
         /\ Append(p, x) \in Prefixes(w) <=> p \in Prefixes(w) \ {w} /\ x = w[Len(p) + 1]
<1> DEFINE q == Append(p, x)
           n == Len(p)
<1>1. q \in Paths /\ n \in Nat /\ Len(q) = n + 1 /\ q[n + 1] = x /\ \A k \in 1 .. n : q[k] = p[k]
  BY DEF Paths
<1>2. Len(w) \in Nat
  BY DEF Paths
<1> HIDE DEF q
<1>3. SubSeq(q, 1, n) = p
  <2>1. SubSeq(q, 1, n) \in Paths /\ Len(SubSeq(q, 1, n)) = n
        /\ \A k \in 1 .. n : SubSeq(q, 1, n)[k] = p[k]
    BY <1>1, PrefixIs
  <2> HIDE DEF n
  <2>2. Len(p) = n
    BY DEF n
  <2> QED
    BY <2>1, <2>2 DEF Paths
<1>4. p \in Prefixes(q)
  <2>1. n \in 0 .. Len(q)
    BY <1>1
  <2> QED
    BY <1>3, <2>1, Zenon DEF Prefixes
<1>5. ASSUME q \in Prefixes(w) PROVE p \in Prefixes(w) \ {w} /\ x = w[n + 1]
  <2>1. p \in Prefixes(w)
    BY <1>4, <1>5, PrefixesAre
  <2>2. n + 1 \in 0 .. Len(w) /\ q = SubSeq(w, 1, n + 1)
    BY <1>1, <1>5, PrefixesAre
  <2>3. p # w
    BY <1>1, <1>2, <2>2
  <2>4. q[n + 1] = w[n + 1]
    BY <1>1, <2>2, PrefixIs
  <2> QED
    BY <1>1, <2>1, <2>3, <2>4
<1>6. ASSUME p \in Prefixes(w) \ {w}, x = w[n + 1] PROVE q \in Prefixes(w)
  <2>1. n \in 0 .. Len(w) /\ p = SubSeq(w, 1, n)
    BY <1>6, PrefixesAre
  <2>2. n # Len(w)
    <3>1. SubSeq(w, 1, Len(w)) = w
      BY DEF Paths
    <3> QED
      BY <1>6, <2>1, <3>1
  <2>3. n + 1 \in 0 .. Len(w)
    BY <1>2, <2>1, <2>2
  <2>4. SubSeq(w, 1, n + 1) = q
    <3>1. SubSeq(w, 1, n + 1) \in Paths /\ Len(SubSeq(w, 1, n + 1)) = n + 1
          /\ \A k \in 1 .. n + 1 : SubSeq(w, 1, n + 1)[k] = w[k]
      BY <2>3, PrefixIs
    <3>2. \A k \in 1 .. n : p[k] = w[k]
      BY <2>1, PrefixIs
    <3>3. \A k \in 1 .. n + 1 : q[k] = w[k]
      BY <1>1, <1>6, <3>2
    <3> QED
      BY <1>1, <3>1, <3>3 DEF Paths
  <2> QED
    BY <2>3, <2>4, Zenon DEF Prefixes
<1> QED
  BY <1>1, <1>4, <1>5, <1>6 DEF q

-------------------------------------------------------------------------------
(* insert() *)

LEMMA ChildrenFinite ==
  \A p : IsFiniteSet(Children(p)) /\ Cardinality(Children(p)) \in Nat
<1>1. IsFiniteSet(Letters)
  BY TrieAssumption
<1> QED
  BY <1>1, FS_Subset, FS_CardinalityType DEF Children

\* A node gets at most one child.
LEMMA ChildrenAfter ==
  ASSUME Types, Rooted, NEW w \in Paths, nodes' = nodes \cup Prefixes(w), NEW p \in nodes'
  PROVE  /\ p \in Paths
         /\ GetsChild(p, w) => /\ w[Len(p) + 1] \in Letters \ Children(p)
                               /\ Children(p)' = Children(p) \cup {w[Len(p) + 1]}
         /\ ~ GetsChild(p, w) => Children(p)' = Children(p)
         /\ p \notin nodes => Children(p) = {} /\ (p # w => GetsChild(p, w))
<1>1. p \in Paths /\ Len(w) \in Nat
  BY PrefixesAre DEF Types, Paths
<1> DEFINE x == w[Len(p) + 1]
<1>2. \A y \in Letters : Append(p, y) \in Prefixes(w) <=> p \in Prefixes(w) \ {w} /\ y = x
  BY <1>1, AppendIsPrefix
<1>3. ASSUME p \in Prefixes(w) \ {w}
      PROVE  x \in Letters /\ Append(p, x) = SubSeq(w, 1, Len(p) + 1)
  <2>1. Len(p) \in 0 .. Len(w) /\ p = SubSeq(w, 1, Len(p)) /\ SubSeq(w, 1, Len(w)) = w
    BY <1>1, <1>3, PrefixesAre DEF Paths
  <2>2. Len(p) + 1 \in 1 .. Len(w)
    BY <1>1, <1>3, <2>1
  <2>3. x \in Letters
    BY <2>2, ElementIs DEF Paths
  <2>4. Append(p, x) \in Prefixes(w)
    BY <1>2, <1>3, <2>3
  <2>5. Len(Append(p, x)) = Len(p) + 1
    BY <1>1, <2>3 DEF Paths
  <2>6. Append(p, x) = SubSeq(w, 1, Len(Append(p, x)))
    BY <2>4, PrefixesAre
  <2> QED
    BY <2>3, <2>5, <2>6
<1>4. \A y \in Letters : Append(p, y) \in nodes => p \in nodes
  <2>1. \A y \in Letters : p \in Prefixes(Append(p, y))
    BY <1>1, AppendIsPrefix
  <2> QED
    BY <2>1 DEF Rooted
<1>5. p \notin nodes => Children(p) = {} /\ (p # w => GetsChild(p, w))
  <2>1. p \notin nodes => Children(p) = {}
    BY <1>4 DEF Children
  <2>2. ASSUME p \notin nodes, p # w PROVE GetsChild(p, w)
    <3>1. p \in Prefixes(w) \ {w}
      BY <2>2
    <3> QED
      BY <1>3, <1>4, <2>2, <3>1 DEF GetsChild
  <2> QED
    BY <2>1, <2>2
<1>6. ASSUME GetsChild(p, w)
      PROVE  x \in Letters \ Children(p) /\ Children(p)' = Children(p) \cup {x}
  <2>1. p \in Prefixes(w) \ {w} /\ SubSeq(w, 1, Len(p) + 1) \notin nodes
    BY <1>6 DEF GetsChild
  <2>2. x \in Letters \ Children(p)
    BY <1>3, <2>1 DEF Children
  <2> HIDE DEF x
  <2>3. \A y \in Letters : Append(p, y) \in nodes' <=> Append(p, y) \in nodes \/ y = x
    BY <1>2, <2>1
  <2> QED
    BY <2>2, <2>3 DEF Children
<1>7. ASSUME ~ GetsChild(p, w) PROVE Children(p)' = Children(p)
  <2>1. \A y \in Letters : Append(p, y) \in Prefixes(w) => Append(p, y) \in nodes
    BY <1>2, <1>3, <1>7 DEF GetsChild
  <2> QED
    BY <2>1 DEF Children
<1> QED
  BY <1>1, <1>5, <1>6, <1>7

LEMMA InsertIs ==
  ASSUME Types, Rooted, ChildrenCounted, LeavesAreWords, NEW w \in Paths \ {<< >>}, NEW c,
         insert(w, c)
  PROVE  /\ nodes' \subseteq Paths /\ DOMAIN childNum' = nodes' /\ DOMAIN search_cnt' = nodes'
         /\ isTerminal' = isTerminal \cup {w} /\ isTerminal' \subseteq nodes' \ {<< >>}
         /\ Rooted' /\ ChildrenCounted' /\ LeavesAreWords'
         /\ search_cnt'[w] = c /\ \A v \in nodes \ {w} : search_cnt'[v] = search_cnt[v]
<1>1. /\ nodes' = nodes \cup Prefixes(w) /\ isTerminal' = isTerminal \cup {w}
      /\ childNum' = [p \in nodes' |-> (IF p \in nodes THEN childNum[p] ELSE 0)
                                        + (IF GetsChild(p, w) THEN 1 ELSE 0)]
      /\ search_cnt' = [p \in nodes' |-> CountAfter(p, w, c)]
  BY DEF insert
<1>2. w \in nodes' /\ nodes' \subseteq Paths /\ nodes \subseteq nodes'
  BY <1>1, PrefixesAre DEF Types
<1>3. isTerminal' \subseteq nodes' \ {<< >>}
  BY <1>1, <1>2 DEF Types
<1>4. Rooted'
  <2>1. \A p \in nodes' : Prefixes(p) \subseteq nodes'
    BY <1>1, PrefixesAre DEF Rooted
  <2> QED
    BY <1>1, <2>1 DEF Rooted
<1>5. \A p \in nodes' : (IF p \in nodes THEN childNum[p] ELSE 0) = Cardinality(Children(p))
  <2>1. ASSUME NEW p \in nodes', p \notin nodes PROVE Cardinality(Children(p)) = 0
    BY <1>1, <2>1, ChildrenAfter, FS_EmptySet
  <2> QED
    BY <2>1 DEF ChildrenCounted
<1>6. ASSUME NEW p \in nodes' PROVE childNum'[p] = Cardinality(Children(p)')
  <2>1. childNum'[p] = Cardinality(Children(p)) + (IF GetsChild(p, w) THEN 1 ELSE 0)
    BY <1>1, <1>5
  <2>2. IsFiniteSet(Children(p)) /\ Cardinality(Children(p)) \in Nat
    BY ChildrenFinite
  <2>3. CASE GetsChild(p, w)
    <3>1. Children(p)' = Children(p) \cup {w[Len(p) + 1]} /\ w[Len(p) + 1] \notin Children(p)
      BY <1>1, <2>3, ChildrenAfter
    <3>2. Cardinality(Children(p)') = Cardinality(Children(p)) + 1
      BY <2>2, <3>1, FS_AddElement
    <3> QED
      BY <2>1, <2>3, <3>2
  <2>4. CASE ~ GetsChild(p, w)
    <3>1. Children(p)' = Children(p)
      BY <1>1, <2>4, ChildrenAfter
    <3> QED
      BY <2>1, <2>2, <2>4, <3>1
  <2> QED
    BY <2>3, <2>4
<1>7. ASSUME NEW p \in nodes', childNum'[p] = 0, p # << >> PROVE p \in isTerminal'
  <2>1. ~ GetsChild(p, w) /\ (p \in nodes => childNum[p] = 0)
    BY <1>1, <1>5, <1>7, ChildrenFinite
  <2>2. CASE p \in nodes
    BY <1>1, <1>7, <2>1, <2>2 DEF LeavesAreWords
  <2>3. CASE p \notin nodes
    BY <1>1, <2>1, <2>3, ChildrenAfter
  <2> QED
    BY <2>2, <2>3
<1>8. search_cnt'[w] = c /\ \A v \in nodes \ {w} : search_cnt'[v] = search_cnt[v]
  BY <1>1, <1>2 DEF CountAfter
<1> QED
  BY <1>1, <1>2, <1>3, <1>4, <1>6, <1>7, <1>8 DEF ChildrenCounted, LeavesAreWords

\* strtok() leaves something of every word of a file.
LEMMA FirstTokenIs ==
  ASSUME NEW w \in FileWords
  PROVE  FirstToken(w) \in Paths \ {<< >>}
<1> DEFINE E == {k \in 1 .. Len(w) : w[k] = space}
<1>1. w \in Paths \ {<< >>} /\ w[1] # space
  BY LinesAre, TrieAssumption
<1>2. CASE E = {}
  BY <1>1, <1>2 DEF FirstToken
<1>3. CASE E # {}
  <2>1. FirstToken(w) = SubSeq(w, 1, Min(E) - 1)
    BY <1>3, Zenon DEF FirstToken
  <2>2. E \in SUBSET Nat
    OBVIOUS
  <2>3. Min(E) \in E
    <3> HIDE DEF E
    <3> QED
      BY <1>3, <2>2, MinIs
  <2>4. Min(E) \in 2 .. Len(w) /\ Len(w) \in Nat
    BY <1>1, <2>3 DEF Paths
  <2>5. FirstToken(w) \in Paths /\ Len(FirstToken(w)) # 0
    <3> HIDE DEF E
    <3>1. Min(E) - 1 \in 0 .. Len(w) /\ Min(E) - 1 # 0
      BY <2>4
    <3> QED
      BY <1>1, <2>1, <3>1, PrefixIs
  <2>6. Len(<< >>) = 0
    OBVIOUS
  <2> QED
    BY <2>5, <2>6, Zenon
<1> QED
  BY <1>2, <1>3

-------------------------------------------------------------------------------
(* deletion() *)

\* deletion() takes the mark of w away.
Mark(w) == [ret |-> 0, free |-> {}, unmark |-> {w}]

\* d[k] is what deletion() does from node k of the path to w on.
IsTable(d, w) ==
  d = [k \in 0 .. Len(w) |-> DeletionAt(w, k, IF k = Len(w) THEN Nothing ELSE d[k + 1])]

LEMMA DeletionTable ==
  ASSUME NEW w
  PROVE  Deletion(w) = (CHOOSE d : IsTable(d, w))[0]
BY DEF Deletion, IsTable

\* The whole path from node k to w has nodes with children.
Through(w, k) ==
  \A j \in k .. Len(w) : SubSeq(w, 1, j) \in nodes /\ childNum[SubSeq(w, 1, j)] # 0

\* The results, as one expression: all that deletion() ever does is take a mark.
Result(w, k) == IF Through(w, k) /\ w \in isTerminal THEN Mark(w) ELSE Nothing

LEMMA Fields ==
  ASSUME NEW w
  PROVE  /\ [Nothing EXCEPT !.ret = 0] = Nothing
         /\ [Mark(w) EXCEPT !.ret = 0] = Mark(w)
         /\ [Nothing EXCEPT !.unmark = {w}] = Mark(w)
<1> DEFINE Results == [ret : {0}, free : {{}}, unmark : {{}, {w}}]
<1>1. ASSUME NEW a \in Results, NEW b \in Results, a.unmark = b.unmark PROVE a = b
  BY <1>1
<1>2. Nothing \in Results /\ Nothing.unmark = {} /\ Mark(w) \in Results /\ Mark(w).unmark = {w}
  BY DEF Nothing, Mark
<1>3. ASSUME NEW a \in Results
      PROVE  /\ [a EXCEPT !.ret = 0] \in Results /\ [a EXCEPT !.ret = 0].unmark = a.unmark
             /\ [a EXCEPT !.unmark = {w}] \in Results /\ [a EXCEPT !.unmark = {w}].unmark = {w}
  OBVIOUS
<1> QED
  BY <1>1, <1>2, <1>3, Zenon

\* A node with a child is never freed: the count of its children is not lowered.
LEMMA ResultIs ==
  ASSUME Types, ChildrenCounted, NEW w \in Paths, NEW k \in 0 .. Len(w)
  PROVE  /\ k = Len(w) => \A r : DeletionAt(w, k, r) = Result(w, k)
         /\ k # Len(w) => DeletionAt(w, k, Result(w, k + 1)) = Result(w, k)
<1> DEFINE cur == SubSeq(w, 1, k)
           Deep == cur \in nodes /\ childNum[cur] # 0
<1>1. Len(w) \in Nat /\ k \in Nat /\ SubSeq(w, 1, Len(w)) = w
  BY DEF Paths
<1>2. cur \in nodes => childNum[cur] \in Nat
  BY ChildrenFinite DEF ChildrenCounted
<1>3. ASSUME ~ Deep, NEW r PROVE DeletionAt(w, k, r) = Nothing /\ Result(w, k) = Nothing
  <2>1. k \in k .. Len(w)
    BY <1>1
  <2>2. ~ Through(w, k)
    BY <1>3, <2>1 DEF Through
  <2>3. Result(w, k) = Nothing
    BY <2>2 DEF Result
  <2>4. CASE cur \notin nodes
    <3>1. DeletionAt(w, k, r) = Nothing
      BY <2>4 DEF DeletionAt
    <3> QED
      BY <2>3, <3>1
  <2>5. CASE cur \in nodes
    <3>1. AtLeaf(cur)
      BY <1>3, <2>5 DEF AtLeaf
    <3>2. DeletionAt(w, k, r) = Nothing
      BY <2>5, <3>1 DEF DeletionAt
    <3> QED
      BY <2>3, <3>2
  <2> QED
    BY <2>4, <2>5
<1>4. ASSUME Deep, k = Len(w), NEW r PROVE DeletionAt(w, k, r) = Result(w, k)
  <2>1. cur = w
    BY <1>1, <1>4, Zenon
  <2> HIDE DEF cur
  <2>2. w \in nodes /\ ~ AtLeaf(w) /\ childNum[w] > 0
    BY <1>2, <1>4, <2>1 DEF AtLeaf
  <2>3. Through(w, k)
    <3>1. \A m \in Nat : \A j \in m .. m : j = m
      OBVIOUS
    <3> QED
      BY <1>1, <1>4, <3>1, Zenon DEF Through, cur
  <2>4. DeletionAt(w, k, r) = IF w \in isTerminal THEN [Nothing EXCEPT !.unmark = Unmarked(w)]
                              ELSE Nothing
    <3>1. ~ (k < Len(w)) /\ childNum[w] # 0
      BY <1>1, <1>4, <2>2
    <3> DEFINE W == [Nothing EXCEPT !.unmark = Unmarked(w)]
    <3> HIDE DEF W
    <3>2. DeletionAt(w, k, r) = IF w \in isTerminal THEN W ELSE Nothing
      BY <1>4, <2>1, <2>2, <3>1 DEF DeletionAt, cur, W
    <3> QED
      BY <3>2 DEF W
  <2>5. [Nothing EXCEPT !.unmark = Unmarked(w)] = Mark(w)
    BY Fields DEF Unmarked
  <2> QED
    BY <2>3, <2>4, <2>5 DEF Result
<1>5. ASSUME Deep, k # Len(w) PROVE DeletionAt(w, k, Result(w, k + 1)) = Result(w, k)
  <2>1. cur \in nodes /\ ~ AtLeaf(cur) /\ childNum[cur] # 0 /\ k < Len(w)
    <3>1. \A m, l \in Nat : l \in 0 .. m /\ l # m => l < m
      OBVIOUS
    <3>2. k < Len(w)
      BY <1>1, <1>5, <3>1, Zenon
    <3> QED
      BY <1>5, <3>2, Zenon DEF AtLeaf
  <2>2. \A r : DeletionAt(w, k, r) = [r EXCEPT !.ret = 0]
    BY <2>1 DEF DeletionAt
  <2>3. Through(w, k) <=> Through(w, k + 1)
    <3>1. \A j : j \in k .. Len(w) <=> j = k \/ j \in k + 1 .. Len(w)
      BY <1>1, <2>1
    <3> QED
      BY <1>5, <3>1, Zenon DEF Through
  <2>4. [Nothing EXCEPT !.ret = 0] = Nothing /\ [Mark(w) EXCEPT !.ret = 0] = Mark(w)
    BY Fields
  <2> QED
    BY <2>2, <2>3, <2>4 DEF Result
<1> QED
  BY <1>3, <1>4, <1>5

LEMMA DeletionIs ==
  ASSUME Types, ChildrenCounted, NEW w \in Paths
  PROVE  Deletion(w) = Result(w, 0)
<1> DEFINE n == Len(w)
           t == [k \in 0 .. n |-> Result(w, k)]
<1>1. n \in Nat
  BY DEF Paths
<1>2. \A k \in 0 .. n : k # n => k + 1 \in 0 .. n
  BY <1>1
<1>3. IsTable(t, w)
  <2>1. ASSUME NEW k \in 0 .. n
        PROVE  t[k] = DeletionAt(w, k, IF k = n THEN Nothing ELSE t[k + 1])
    <3>1. t[k] = Result(w, k) /\ (k # n => t[k + 1] = Result(w, k + 1))
      BY <1>2
    <3> HIDE DEF t
    <3> QED
      BY <3>1, ResultIs
  <2> HIDE DEF n
  <2>2. t = [k \in 0 .. n |-> DeletionAt(w, k, IF k = n THEN Nothing ELSE t[k + 1])]
    BY <2>1
  <2> QED
    BY <2>2 DEF IsTable, n
<1>4. ASSUME NEW d, IsTable(d, w) PROVE d[0] = Result(w, 0)
  <2> DEFINE S == {m \in 0 .. n : d[n - m] # Result(w, n - m)}
  <2>1. \A k \in 0 .. n : d[k] = DeletionAt(w, k, IF k = n THEN Nothing ELSE d[k + 1])
    BY <1>4, Zenon DEF IsTable
  <2>2. ASSUME NEW m \in S, \A j \in S : m <= j PROVE FALSE
    <3> DEFINE k == n - m
    <3>1. m \in 0 .. n /\ k \in 0 .. n /\ d[k] # Result(w, k)
      BY <1>1
    <3>2. k # n
      BY <2>1, <3>1, ResultIs
    <3>3. m - 1 \in 0 .. n /\ n - (m - 1) = k + 1 /\ ~ (m <= m - 1)
      BY <1>1, <3>1, <3>2
    <3>4. d[k + 1] = Result(w, k + 1)
      BY <2>2, <3>3
    <3> QED
      BY <2>1, <3>1, <3>2, <3>4, ResultIs
  <2>3. S = {}
    <3>1. S \in SUBSET Nat
      BY <1>1
    <3> HIDE DEF S
    <3>2. S # {} => Min(S) \in S /\ \A j \in S : Min(S) <= j
      BY <3>1, MinIs
    <3> QED
      BY <2>2, <3>2
  <2>4. n \in 0 .. n /\ n - n = 0
    BY <1>1
  <2> QED
    BY <2>3, <2>4
<1>5. IsTable(CHOOSE d : IsTable(d, w), w)
  BY <1>3
<1> QED
  BY <1>4, <1>5, DeletionTable

\* What follows from it for the nodes: a mark goes only from a node with children.
LEMMA DeletionDoes ==
  ASSUME Types, ChildrenCounted, NEW w \in Paths
  PROVE  /\ Deletion(w).free = {} /\ Deletion(w).unmark \subseteq {w}
         /\ w \in Deletion(w).unmark => childNum[w] # 0
<1>1. Deletion(w) = Result(w, 0)
  BY DeletionIs
<1>2. Nothing.free = {} /\ Nothing.unmark = {} /\ Mark(w).free = {} /\ Mark(w).unmark = {w}
  BY DEF Nothing, Mark
<1>3. Through(w, 0) => childNum[w] # 0
  <2>1. Len(w) \in 0 .. Len(w) /\ SubSeq(w, 1, Len(w)) = w
    BY DEF Paths
  <2> QED
    BY <2>1, Zenon DEF Through
<1> QED
  BY <1>1, <1>2, <1>3, Zenon DEF Result

-------------------------------------------------------------------------------
(* The invariant. *)

LEMMA InvInit == Init => Inv
<1> SUFFICES ASSUME Init PROVE Inv
  OBVIOUS
<1>1. /\ lines \in Seq(Lines) /\ lines # << >> /\ buffer = << >> /\ ~ loaded
      /\ nodes = {<< >>} /\ childNum = [p \in nodes |-> 0] /\ isTerminal = {}
      /\ search_cnt = [p \in nodes |-> 0] /\ freed = {} /\ written = [w \in {} |-> 0]
  BY LinesAre DEF Init
<1>2. << >> \in Paths /\ Prefixes(<< >>) \subseteq {<< >>}
  <2>1. << >> \in Paths /\ Len(<< >>) = 0
    BY DEF Paths
  <2>2. \A p \in Prefixes(<< >>) : p \in Paths /\ Len(p) \in 0 .. 0
    BY <2>1, PrefixesAre
  <2>3. \A p \in Paths : Len(p) \in 0 .. 0 => p = << >>
    BY DEF Paths
  <2> QED
    BY <2>1, <2>2, <2>3
<1>3. Types
  BY <1>1, <1>2 DEF Types
<1>4. Rooted /\ LeavesAreWords
  BY <1>1, <1>2 DEF Rooted, LeavesAreWords
<1>5. ChildrenCounted
  <2>1. \A x \in Letters : Append(<< >>, x) # << >>
    OBVIOUS
  <2>2. Children(<< >>) = {}
    BY <1>1, <2>1 DEF Children
  <2> QED
    BY <1>1, <2>2, FS_EmptySet DEF ChildrenCounted
<1>6. Written
  <2>1. DOMAIN written = {} /\ Again = {}
    BY <1>1 DEF Again
  <2> QED
    BY <1>1, <2>1 DEF Written
<1> QED
  BY <1>3, <1>4, <1>5, <1>6 DEF Inv

LEMMA InvStep == Inv /\ [Next]_vars => Inv'
<1> SUFFICES ASSUME Inv, [Next]_vars PROVE Inv'
  OBVIOUS
<1>0. Types /\ Rooted /\ ChildrenCounted /\ LeavesAreWords /\ Written
  BY DEF Inv
<1>1. CASE LoadLine
  <2> DEFINE l == Head(lines)
             w == l.word
  <2>1. /\ ~ loaded /\ lines # << >> /\ insert(w, l.cnt) /\ lines' = Tail(lines) /\ buffer' = w
        /\ written' = [v \in DOMAIN written \cup {w} |-> IF v = w THEN l.cnt ELSE written[v]]
        /\ loaded' = (lines' = << >> /\ ~ newline) /\ newline' = newline
        /\ freed' = freed /\ deleted' = deleted
    BY <1>1 DEF LoadLine
  <2>2. lines \in Seq(Lines) /\ lines' \in Seq(Lines) /\ l \in Lines
    BY <1>0, <2>1 DEF Types
  <2>3. w \in FileWords /\ w \in Paths \ {<< >>}
    BY <2>2, LinesAre
  <2> HIDE DEF w, l
  <2>4. /\ nodes' \subseteq Paths /\ DOMAIN childNum' = nodes' /\ DOMAIN search_cnt' = nodes'
        /\ isTerminal' = isTerminal \cup {w} /\ isTerminal' \subseteq nodes' \ {<< >>}
        /\ Rooted' /\ ChildrenCounted' /\ LeavesAreWords'
        /\ search_cnt'[w] = l.cnt /\ \A v \in nodes \ {w} : search_cnt'[v] = search_cnt[v]
    BY <1>0, <2>1, <2>3, InsertIs
  <2>5. Types'
    BY <1>0, <2>1, <2>2, <2>3, <2>4 DEF Types
  <2>6. Written'
    <3>1. DOMAIN written' = DOMAIN written \cup {w} /\ written'[w] = l.cnt
          /\ \A v \in DOMAIN written \ {w} : written'[v] = written[v]
      BY <2>1
    <3>2. isTerminal \subseteq nodes
      BY <1>0 DEF Types
    <3>3. Again = {} /\ Again' = {}
      BY <2>1 DEF Again
    <3> QED
      BY <1>0, <2>1, <2>4, <3>1, <3>2, <3>3 DEF Written
  <2> QED
    BY <2>4, <2>5, <2>6 DEF Inv
<1>2. CASE LoadLastAgain
  <2> DEFINE w == FirstToken(buffer)
  <2>1. /\ ~ loaded /\ lines = << >> /\ insert(w, 0) /\ lines' = lines /\ buffer' = buffer
        /\ newline' = newline /\ freed' = freed /\ loaded'
        /\ UNCHANGED <<written, deleted>>
    BY <1>2 DEF LoadLastAgain
  <2>2. w \in Paths \ {<< >>} /\ newline
    BY <1>0, <2>1, FirstTokenIs DEF Types, Written
  <2> HIDE DEF w
  <2>3. /\ nodes' \subseteq Paths /\ DOMAIN childNum' = nodes' /\ DOMAIN search_cnt' = nodes'
        /\ isTerminal' = isTerminal \cup {w} /\ isTerminal' \subseteq nodes' \ {<< >>}
        /\ Rooted' /\ ChildrenCounted' /\ LeavesAreWords'
        /\ search_cnt'[w] = 0 /\ \A v \in nodes \ {w} : search_cnt'[v] = search_cnt[v]
    BY <1>0, <2>1, <2>2, InsertIs
  <2>4. Types'
    BY <1>0, <2>1, <2>3 DEF Types
  <2>5. Written'
    <3>1. Again = {} /\ Again' = {w}
      BY <2>1, <2>2 DEF Again, w, FirstToken
    <3>2. isTerminal \subseteq nodes
      BY <1>0 DEF Types
    <3> QED
      BY <1>0, <2>1, <2>2, <2>3, <3>1, <3>2 DEF Written
  <2> QED
    BY <2>3, <2>4, <2>5 DEF Inv
<1>3. ASSUME NEW w \in Strings, deletion(w) PROVE Inv'
  <2>1. /\ loaded /\ freed' = freed \cup Deletion(w).free
        /\ isTerminal' = isTerminal \ Deletion(w).unmark
        /\ deleted' = deleted \cup ({w} \cap isTerminal)
        /\ UNCHANGED <<lines, buffer, newline, loaded, nodes, childNum, search_cnt, written>>
    BY <1>3 DEF deletion, fileVars
  <2>2. /\ Deletion(w).free = {} /\ Deletion(w).unmark \subseteq {w}
        /\ w \in Deletion(w).unmark => childNum[w] # 0
    BY <1>0, LinesAre, DeletionDoes
  <2>3. Types' /\ Rooted'
    BY <1>0, <2>1, <2>2 DEF Types, Rooted
  <2>4. ChildrenCounted'
    <3>1. \A p : Children(p)' = Children(p)
      BY <2>1 DEF Children
    <3> QED
      BY <1>0, <2>1, <3>1 DEF ChildrenCounted
  <2>5. LeavesAreWords'
    BY <1>0, <2>1, <2>2 DEF LeavesAreWords
  <2>6. Written'
    <3>1. Again' = Again
      BY <2>1 DEF Again, FirstToken
    <3> QED
      BY <1>0, <2>1, <2>2, <3>1 DEF Written
  <2> QED
    BY <2>3, <2>4, <2>5, <2>6 DEF Inv
<1>4. CASE UNCHANGED vars
  <2>1. /\ UNCHANGED <<lines, buffer, newline, loaded, nodes, childNum, isTerminal, search_cnt>>
        /\ UNCHANGED <<freed, written, deleted>>
    BY <1>4 DEF vars, fileVars, trieVars
  <2>2. \A p : Children(p)' = Children(p)
    BY <2>1 DEF Children
  <2>3. Again' = Again
    BY <2>1 DEF Again, FirstToken
  <2> QED
    BY <1>0, <2>1, <2>2, <2>3
    DEF Inv, Types, Rooted, ChildrenCounted, LeavesAreWords, Written
<1> QED
  BY <1>1, <1>2, <1>3, <1>4 DEF Next

THEOREM InvCorrect == Spec => []Inv
BY InvInit, InvStep, PTL DEF Spec

-------------------------------------------------------------------------------
(* The properties. *)

\* childNum is the number of children, every leaf is a word, and nothing that can
\* be reached has been freed, for any alphabet, file and deletions.
THEOREM TrieShapeCorrect == Spec => []TrieShape
<1>1. Inv => TrieShape
  BY DEF Inv, Types, Rooted, ChildrenCounted, LeavesAreWords, Children, TrieShape
<1> QED
  BY <1>1, InvCorrect, PTL

\* search() finds a word that is marked: the root has a child then.
LEMMA MarkedIsFound ==
  ASSUME Inv, NEW w \in isTerminal
  PROVE  search(w)
<1>1. w \in nodes /\ w \in Paths /\ w # << >> /\ << >> \in nodes
  BY DEF Inv, Types, Rooted
<1>2. Len(w) \in Nat /\ Len(w) # 0
  BY <1>1 DEF Paths
<1>3. w[1] \in Letters /\ 1 \in 0 .. Len(w) /\ 0 \in 0 .. Len(w)
  BY <1>1, <1>2, ElementIs DEF Paths
<1>4. SubSeq(w, 1, 1) \in nodes
  <2>1. SubSeq(w, 1, 1) \in Prefixes(w)
    BY <1>1, <1>3, PrefixesAre
  <2> QED
    BY <1>1, <2>1 DEF Inv, Rooted
<1>5. SubSeq(w, 1, 1) = Append(<< >>, w[1])
  <2>1. 1 \in 1 .. 1
    OBVIOUS
  <2>2. SubSeq(w, 1, 1) \in Paths /\ Len(SubSeq(w, 1, 1)) = 1 /\ SubSeq(w, 1, 1)[1] = w[1]
    BY <1>1, <1>3, <2>1, PrefixIs, Zenon
  <2>3. ASSUME NEW p \in Paths, Len(p) = 1, p[1] \in Letters PROVE p = Append(<< >>, p[1])
    BY <2>3 DEF Paths
  <2> QED
    BY <1>3, <2>2, <2>3, Zenon
<1>6. w[1] \in Children(<< >>)
  BY <1>3, <1>4, <1>5 DEF Children
<1>7. Cardinality(Children(<< >>)) \in Nat /\ Cardinality(Children(<< >>)) # 0
  BY <1>6, ChildrenFinite, FS_EmptySet
<1>8. childNum[<< >>] > 0
  BY <1>1, <1>7 DEF Inv, ChildrenCounted
<1> QED
  BY <1>1, <1>8 DEF search

\* A file is found as it was written, less what deletion() was called for; a
\* newline at its end adds the first word of its last line, with count 0.
THEOREM LoadedAsWrittenCorrect == Spec => []LoadedAsWritten
<1>1. Inv => LoadedAsWritten
  <2> SUFFICES ASSUME Inv, loaded
               PROVE  /\ \A w \in FileWords \cup Strings \cup Again :
                           /\ search(w) => w \in DOMAIN written \cup Again
                           /\ w \in DOMAIN written \cup Again => search(w) \/ w \in deleted
                      /\ \A w \in isTerminal :
                           search_cnt[w] = IF w \in Again THEN 0 ELSE written[w]
    BY DEF LoadedAsWritten
  <2>1. /\ isTerminal \subseteq DOMAIN written \cup Again
        /\ DOMAIN written \cup Again \subseteq isTerminal \cup deleted
        /\ \A w \in isTerminal : search_cnt[w] = IF w \in Again THEN 0 ELSE written[w]
    BY DEF Inv, Written
  <2>2. \A w : search(w) <=> w \in isTerminal
    BY MarkedIsFound DEF search
  <2> QED
    BY <2>1, <2>2
<1> QED
  BY <1>1, InvCorrect, PTL

-------------------------------------------------------------------------------
(* Trie implements Dictionary: a turn of the load puts a word, a deletion() *)
(* takes it away or does nothing.                                          *)

dictOf == [w \in isTerminal |-> search_cnt[w]]

\* insert() is one Put.
LEMMA InsertPuts ==
  ASSUME Types, Rooted, ChildrenCounted, LeavesAreWords, NEW w \in Paths \ {<< >>}, NEW c,
         insert(w, c)
  PROVE  dictOf' = [v \in DOMAIN dictOf \cup {w} |-> IF v = w THEN c ELSE dictOf[v]]
<1>1. /\ isTerminal' = isTerminal \cup {w} /\ search_cnt'[w] = c
      /\ \A v \in nodes \ {w} : search_cnt'[v] = search_cnt[v]
  BY InsertIs
<1>2. isTerminal \subseteq nodes
  BY DEF Types
<1> QED
  BY <1>1, <1>2 DEF dictOf

LEMMA StepPutsOrTakes ==
  ASSUME Inv, [Next]_vars
  PROVE  [Abstract!Next]_dictOf
<1> DEFINE words == FileWords \cup Strings \cup {FirstToken(w) : w \in FileWords}
           counts == {0} \cup {line.cnt : line \in UNION {ToSet(f) : f \in Files}}
           Puts(w, c) == dictOf' = [v \in DOMAIN dictOf \cup {w} |-> IF v = w THEN c ELSE dictOf[v]]
           Takes(w) == dictOf' = [v \in DOMAIN dictOf \ {w} |-> dictOf[v]]
<1>0. Types /\ Rooted /\ ChildrenCounted /\ LeavesAreWords
  BY DEF Inv
<1>1. (\E w \in words : Takes(w) \/ \E c \in counts : Puts(w, c)) => Abstract!Next
  BY DEF Abstract!Next, Abstract!TakeAway, Abstract!Put, dictOf
<1> HIDE DEF words, counts, Puts, Takes
<1>2. CASE LoadLine
  <2> DEFINE l == Head(lines)
  <2>1. insert(l.word, l.cnt) /\ l \in Lines
    BY <1>0, <1>2 DEF LoadLine, Types
  <2>2. l.word \in FileWords /\ l.word \in Paths \ {<< >>}
    BY <2>1, LinesAre
  <2>3. l.word \in words /\ l.cnt \in counts
    BY <2>1, <2>2 DEF words, counts, Lines
  <2> HIDE DEF l
  <2>4. Puts(l.word, l.cnt)
    BY <1>0, <2>1, <2>2, InsertPuts DEF Puts
  <2> QED
    BY <1>1, <2>3, <2>4
<1>3. CASE LoadLastAgain
  <2> DEFINE w == FirstToken(buffer)
  <2>1. insert(w, 0) /\ buffer \in FileWords
    BY <1>0, <1>3 DEF LoadLastAgain, Types
  <2>2. w \in Paths \ {<< >>} /\ w \in words /\ 0 \in counts
    BY <2>1, FirstTokenIs DEF words, counts
  <2> HIDE DEF w
  <2>3. Puts(w, 0)
    BY <1>0, <2>1, <2>2, InsertPuts DEF Puts
  <2> QED
    BY <1>1, <2>2, <2>3
<1>4. ASSUME NEW w \in Strings, deletion(w) PROVE Abstract!Next \/ UNCHANGED dictOf
  <2>1. isTerminal' = isTerminal \ Deletion(w).unmark /\ search_cnt' = search_cnt
    BY <1>4 DEF deletion
  <2>2. Deletion(w).unmark \subseteq {w}
    BY <1>0, LinesAre, DeletionDoes
  <2>3. CASE Deletion(w).unmark = {}
    <3>1. isTerminal' = isTerminal
      BY <2>1, <2>3
    <3> QED
      BY <2>1, <3>1 DEF dictOf
  <2>4. CASE Deletion(w).unmark = {w}
    <3>1. isTerminal' = isTerminal \ {w}
      BY <2>1, <2>4
    <3>2. Takes(w)
      BY <2>1, <3>1 DEF Takes, dictOf
    <3> QED
      BY <1>1, <3>2 DEF words
  <2> QED
    BY <2>2, <2>3, <2>4
<1>5. CASE UNCHANGED vars
  BY <1>5 DEF vars, trieVars, dictOf
<1> QED
  BY <1>2, <1>3, <1>4, <1>5 DEF Next

\* The trie implements a dictionary: each operation puts or takes away one word, and
\* leaves every other word and its count alone.
THEOREM TrieImplementsDictionary == Spec => ImplementsDictionary
<1>1. Init => Abstract!Init
  <2> SUFFICES ASSUME Init PROVE dictOf = [w \in {} |-> 0]
    BY DEF Abstract!Init, dictOf
  <2>1. isTerminal = {}
    BY DEF Init
  <2> QED
    BY <2>1 DEF dictOf
<1>2. Inv /\ [Next]_vars => [Abstract!Next]_dictOf
  BY StepPutsOrTakes
<1> QED
  BY <1>1, <1>2, InvInit, InvStep, PTL DEF Spec, ImplementsDictionary, Abstract!Spec, dictOf

-------------------------------------------------------------------------------
(* Loops: functions that are defined by recursion on 0 .. n. *)

\* Induction up to n, for the numbers that are in S.
LEMMA UpTo ==
  ASSUME NEW n \in Nat, NEW S, 0 \in S, \A k \in 1 .. n : k - 1 \in S => k \in S
  PROVE  \A k \in 0 .. n : k \in S
<1> DEFINE B == {k \in 0 .. n : k \notin S}
<1>1. B \in SUBSET Nat
  OBVIOUS
<1>2. ASSUME B # {} PROVE FALSE
  <2> DEFINE m == Min(B)
  <2>1. m \in B /\ \A y \in B : m <= y
    <3> HIDE DEF B
    <3> QED
      BY <1>1, <1>2, MinIs
  <2> HIDE DEF m
  <2>2. m \in 1 .. n /\ m - 1 \in 0 .. n /\ ~ (m <= m - 1)
    BY <2>1
  <2> QED
    BY <2>1, <2>2
<1> QED
  BY <1>2

\* The bodies of a loop of n turns over D.
Bodies(n, D) == [1 .. n -> [D -> D]]

\* f has the values of the loop from its beginning with b on.
IsLoop(f, n, D, b, G) ==
  f \in [0 .. n -> D] /\ f[0] = b /\ \A k \in 1 .. n : f[k] = G[k][f[k - 1]]

LEMMA LoopExists ==
  ASSUME NEW n \in Nat, NEW D, NEW b \in D, NEW G \in Bodies(n, D)
  PROVE  \E f : IsLoop(f, n, D, b, G)
<1> USE DEF Bodies, IsLoop
<1> DEFINE Upto(m) == \E f \in [0 .. n -> D] : f[0] = b /\ \A k \in 1 .. m : f[k] = G[k][f[k - 1]]
           S == {m \in 0 .. n : Upto(m)}
<1>1. 0 \in S
  <2>1. PICK f \in [0 .. n -> D] : f = [k \in 0 .. n |-> b]
    OBVIOUS
  <2>2. Upto(0)
    BY <2>1
  <2> QED
    BY <2>2
<1>2. ASSUME NEW m \in 1 .. n, m - 1 \in S PROVE m \in S
  <2>1. PICK f \in [0 .. n -> D] : f[0] = b /\ \A k \in 1 .. m - 1 : f[k] = G[k][f[k - 1]]
    BY <1>2
  <2> DEFINE g == [f EXCEPT ![m] = G[m][f[m - 1]]]
  <2>2. G[m][f[m - 1]] \in D
    OBVIOUS
  <2>3. g \in [0 .. n -> D] /\ g[0] = b /\ g[m] = G[m][f[m - 1]]
        /\ \A k \in 0 .. n : k # m => g[k] = f[k]
    BY <2>1, <2>2
  <2> HIDE DEF g
  <2>4. \A k \in 1 .. m : g[k] = G[k][g[k - 1]]
    BY <2>1, <2>3
  <2> QED
    BY <2>3, <2>4
<1>3. n \in S
  <2> HIDE DEF S
  <2>1. \A k \in 0 .. n : k \in S
    BY <1>1, <1>2, UpTo, Zenon
  <2> QED
    BY <2>1
<1> QED
  BY <1>3

-------------------------------------------------------------------------------
(* Sequences that are joined. *)

\* Each entry of s is related by B to those after it.
OrderedBy(B, s) == \A i, j \in 1 .. Len(s) : i < j => <<s[i], s[j]>> \in B

\* c has the entries of the first k sequences in s, in order.
Joined(c, s, k, R, B) ==
  /\ c \in Seq(R)
  /\ ToSet(c) = UNION {ToSet(s[l]) : l \in 1 .. k}
  /\ OrderedBy(B, c)

\* The sequences in s are ordered, and each entry comes before those of later
\* sequences.
Joinable(s, R, B) ==
  /\ s \in Seq(Seq(R))
  /\ \A k \in 1 .. Len(s) : OrderedBy(B, s[k])
  /\ \A k, l \in 1 .. Len(s) : k < l => ToSet(s[k]) \X ToSet(s[l]) \subseteq B

LEMMA ConcatIs ==
  ASSUME NEW R, NEW a \in Seq(R), NEW b \in Seq(R)
  PROVE  /\ a \o b \in Seq(R) /\ Len(a \o b) = Len(a) + Len(b)
         /\ \A i \in 1 .. Len(a) : (a \o b)[i] = a[i]
         /\ \A i \in 1 .. Len(b) : (a \o b)[Len(a) + i] = b[i]
         /\ ToSet(a \o b) = ToSet(a) \cup ToSet(b)
<1> DEFINE c == a \o b
<1>1. /\ c \in Seq(R) /\ Len(c) = Len(a) + Len(b)
      /\ \A i \in 1 .. Len(a) : c[i] = a[i]
      /\ \A i \in 1 .. Len(b) : c[Len(a) + i] = b[i]
  OBVIOUS
<1>2. DOMAIN a = 1 .. Len(a) /\ DOMAIN b = 1 .. Len(b) /\ DOMAIN c = 1 .. Len(a) + Len(b)
      /\ Len(a) \in Nat /\ Len(b) \in Nat
  BY <1>1
<1> HIDE DEF c
<1>3. \A i \in DOMAIN c : i \in DOMAIN a \/ (i - Len(a) \in DOMAIN b /\ i = Len(a) + (i - Len(a)))
  BY <1>2
<1>4. \A i \in DOMAIN c : c[i] \in ToSet(a) \cup ToSet(b)
  BY <1>1, <1>2, <1>3 DEF ToSet
<1>5. \A i \in DOMAIN a : i \in DOMAIN c /\ c[i] = a[i]
  BY <1>1, <1>2
<1>6. \A i \in DOMAIN b : Len(a) + i \in DOMAIN c /\ c[Len(a) + i] = b[i]
  BY <1>1, <1>2
<1>7. ToSet(c) = ToSet(a) \cup ToSet(b)
  <2>1. ToSet(c) \subseteq ToSet(a) \cup ToSet(b)
    BY <1>4 DEF ToSet
  <2>2. ToSet(a) \subseteq ToSet(c)
    BY <1>5 DEF ToSet
  <2>3. ToSet(b) \subseteq ToSet(c)
    BY <1>6 DEF ToSet
  <2> QED
    BY <2>1, <2>2, <2>3
<1> QED
  BY <1>1, <1>7 DEF c

LEMMA ConcatOrdered ==
  ASSUME NEW R, NEW B, NEW a \in Seq(R), NEW b \in Seq(R),
         OrderedBy(B, a), OrderedBy(B, b), ToSet(a) \X ToSet(b) \subseteq B
  PROVE  OrderedBy(B, a \o b)
<1> DEFINE c == a \o b
<1>1. /\ Len(c) = Len(a) + Len(b) /\ Len(a) \in Nat /\ Len(b) \in Nat
      /\ \A i \in 1 .. Len(a) : c[i] = a[i]
      /\ \A i \in 1 .. Len(b) : c[Len(a) + i] = b[i]
  BY ConcatIs
<1> HIDE DEF c
<1>2. ASSUME NEW i \in 1 .. Len(c), NEW j \in 1 .. Len(c), i < j
      PROVE  <<c[i], c[j]>> \in B
  <2>1. CASE j <= Len(a)
    <3>1. i \in 1 .. Len(a) /\ j \in 1 .. Len(a)
      BY <1>1, <1>2, <2>1
    <3> QED
      BY <1>1, <1>2, <3>1 DEF OrderedBy
  <2>2. CASE i <= Len(a) /\ Len(a) < j
    <3>1. i \in 1 .. Len(a) /\ j - Len(a) \in 1 .. Len(b) /\ j = Len(a) + (j - Len(a))
      BY <1>1, <1>2, <2>2
    <3>2. c[i] = a[i] /\ c[j] = b[j - Len(a)]
      BY <1>1, <3>1
    <3>3. a[i] \in ToSet(a) /\ b[j - Len(a)] \in ToSet(b)
      BY <3>1 DEF ToSet
    <3> QED
      BY <3>2, <3>3
  <2>3. CASE Len(a) < i
    <3>1. /\ i - Len(a) \in 1 .. Len(b) /\ i = Len(a) + (i - Len(a))
          /\ j - Len(a) \in 1 .. Len(b) /\ j = Len(a) + (j - Len(a))
          /\ i - Len(a) < j - Len(a)
      BY <1>1, <1>2, <2>3
    <3>2. c[i] = b[i - Len(a)] /\ c[j] = b[j - Len(a)]
      BY <1>1, <3>1
    <3> QED
      BY <3>1, <3>2 DEF OrderedBy
  <2> QED
    BY <1>1, <2>1, <2>2, <2>3
<1> QED
  BY <1>2 DEF OrderedBy, c

LEMMA JoinedMore ==
  ASSUME NEW R, NEW B, NEW s, Joinable(s, R, B), NEW k \in 1 .. Len(s), NEW c,
         Joined(c, s, k - 1, R, B)
  PROVE  Joined(c \o s[k], s, k, R, B)
<1>1. s[k] \in Seq(R) /\ c \in Seq(R) /\ OrderedBy(B, c) /\ OrderedBy(B, s[k])
  BY DEF Joinable, Joined
<1>2. \A l \in 1 .. k - 1 : l \in 1 .. Len(s) /\ l < k
  BY DEF Joinable
<1>3. ToSet(c) \X ToSet(s[k]) \subseteq B
  <2>1. ASSUME NEW x \in ToSet(c), NEW y \in ToSet(s[k]) PROVE <<x, y>> \in B
    <3>1. PICK l \in 1 .. k - 1 : x \in ToSet(s[l])
      BY <2>1 DEF Joined
    <3> QED
      BY <1>2, <3>1 DEF Joinable
  <2> QED
    BY <2>1
<1>4. 1 .. k = (1 .. k - 1) \cup {k}
  BY DEF Joinable
<1>5. ToSet(c \o s[k]) = ToSet(c) \cup ToSet(s[k]) /\ c \o s[k] \in Seq(R)
  BY <1>1, ConcatIs
<1>6. ToSet(c \o s[k]) = UNION {ToSet(s[l]) : l \in 1 .. k}
  BY <1>4, <1>5 DEF Joined
<1>7. OrderedBy(B, c \o s[k])
  BY <1>1, <1>3, ConcatOrdered
<1> QED
  BY <1>5, <1>6, <1>7 DEF Joined

\* FlattenSeq joins, keeping the order.
LEMMA FlattenIs ==
  ASSUME NEW R, NEW B, NEW s, Joinable(s, R, B)
  PROVE  Joined(FlattenSeq(s), s, Len(s), R, B)
<1> DEFINE m == Len(s)
           T(f) == [i \in 1 .. m |-> IF i = 1 THEN s[i] ELSE f[i - 1] \o s[i]]
           c == CHOOSE f : f = T(f)
<1>0. s \in Seq(Seq(R)) /\ m \in Nat
  BY DEF Joinable
<1>1. CASE m = 0
  <2>1. s = << >> /\ FlattenSeq(s) = s
    <3>1. s = << >>
      BY <1>0, <1>1
    <3> QED
      BY <1>1, <3>1, Zenon DEF FlattenSeq
  <2>2. s \in Seq(R) /\ ToSet(s) = {} /\ OrderedBy(B, s)
    BY <1>1, <2>1 DEF ToSet, OrderedBy
  <2>3. UNION {ToSet(s[l]) : l \in 1 .. m} = {}
    BY <1>1
  <2> QED
    BY <2>1, <2>2, <2>3 DEF Joined
<1>2. CASE m # 0
  <2>1. FlattenSeq(s) = c[m]
    BY <1>2, Zenon DEF FlattenSeq
  <2>2. \E f : f = T(f)
    <3> DEFINE D == Seq(R)
               G == [i \in 1 .. m |-> [a \in D |-> a \o s[i]]]
    <3>1. \A i \in 1 .. m : s[i] \in D
      BY <1>0
    <3>2. \A i \in 1 .. m : \A a \in D : a \o s[i] \in D
      BY <3>1, ConcatIs
    <3>3. << >> \in D /\ << >> \o s[1] = s[1]
      BY <1>0, <1>2, <3>1
    <3> HIDE DEF D
    <3>4. G \in Bodies(m, D)
      BY <3>2 DEF Bodies
    <3> HIDE DEF G
    <3>5. PICK f : IsLoop(f, m, D, << >>, G)
      BY <1>0, <3>3, <3>4, LoopExists
    <3>6. /\ f \in [0 .. m -> D] /\ f[0] = << >>
          /\ \A i \in 1 .. m : f[i] = f[i - 1] \o s[i]
      <4>1. \A i \in 1 .. m : f[i - 1] \in D
        BY <3>5 DEF IsLoop
      <4> QED
        BY <3>5, <4>1 DEF IsLoop, G
    <3> DEFINE h == [i \in 1 .. m |-> f[i]]
    <3>7. \A i \in 1 .. m : h[i] = IF i = 1 THEN s[i] ELSE h[i - 1] \o s[i]
      <4>1. ASSUME NEW i \in 1 .. m, i = 1 PROVE h[i] = s[i]
        <5>1. f[1] = f[0] \o s[1]
          BY <3>6, <4>1
        <5> QED
          BY <3>3, <3>6, <4>1, <5>1
      <4>2. ASSUME NEW i \in 1 .. m, i # 1 PROVE h[i] = h[i - 1] \o s[i]
        <5>1. i - 1 \in 1 .. m
          BY <1>0, <4>2
        <5>2. h[i - 1] = f[i - 1] /\ h[i] = f[i] /\ f[i] = f[i - 1] \o s[i]
          BY <3>6, <5>1
        <5> QED
          BY <5>2
      <4> HIDE DEF h
      <4> QED
        BY <4>1, <4>2
    <3>8. h = T(h)
      BY <3>7
    <3> QED
      BY <3>8
  <2>3. c = T(c)
    BY <2>2
  <2> HIDE DEF c
  <2>4. c[1] = s[1] /\ \A i \in 1 .. m : i # 1 => c[i] = c[i - 1] \o s[i]
    <3>1. 1 \in 1 .. m
      BY <1>0, <1>2
    <3>2. \A i \in 1 .. m : c[i] = IF i = 1 THEN s[i] ELSE c[i - 1] \o s[i]
      BY <2>3, Zenon
    <3> QED
      BY <3>1, <3>2, Zenon
  <2> DEFINE I == {k \in 0 .. m : k = 0 \/ Joined(c[k], s, k, R, B)}
  <2>5. ASSUME NEW k \in 1 .. m, k - 1 \in I PROVE k \in I
    <3>1. CASE k = 1
      <4>1. s[1] \in Seq(R) /\ OrderedBy(B, s[1])
        BY <1>0, <3>1 DEF Joinable
      <4>2. UNION {ToSet(s[l]) : l \in 1 .. 1} = ToSet(s[1])
        OBVIOUS
      <4> QED
        BY <2>4, <3>1, <4>1, <4>2 DEF Joined
    <3>2. CASE k # 1
      <4>1. Joined(c[k - 1], s, k - 1, R, B)
        BY <2>5, <3>2
      <4>2. c[k] = c[k - 1] \o s[k]
        BY <2>4, <3>2
      <4>3. Joined(c[k - 1] \o s[k], s, k, R, B)
        BY <4>1, JoinedMore
      <4>4. Joined(c[k], s, k, R, B)
        BY <4>2, <4>3, Zenon
      <4> QED
        BY <4>4
    <3> QED
      BY <3>1, <3>2
  <2>6. 0 \in I
    BY <1>0
  <2>7. \A k \in 0 .. m : k \in I
    <3> HIDE DEF I
    <3> QED
      BY <1>0, <2>5, <2>6, UpTo
  <2> QED
    BY <1>0, <1>2, <2>1, <2>7
<1> QED
  BY <1>1, <1>2

-------------------------------------------------------------------------------
(* What a search for a string finds. *)

\* What is found at node p itself.
Here(str, p, n) ==
  IF n = Len(str) /\ p \in isTerminal THEN <<[word |-> p, cnt |-> search_cnt[p]]>> ELSE << >>

\* What is found below it, by letter, when f is what is found at the children.
Below(f, str, p, n) ==
  [k \in 1 .. Cardinality(Letters) |->
     IF Append(p, k - 1) \in nodes
       THEN f[Append(p, k - 1)][Advance(str, n, k - 1)] ELSE << >>]

Visit(f, str, p, n) ==
  Here(str, p, n) \o (IF childNum[p] = 0 THEN << >> ELSE FlattenSeq(Below(f, str, p, n)))

\* f[p][n] is what the traversal finds from node p on.
IsWalk(f, str) == f = [p \in nodes |-> [n \in 0 .. Len(str) |-> Visit(f, str, p, n)]]

LEMMA FoundTable ==
  ASSUME NEW str
  PROVE  Found(str) = (CHOOSE f : IsWalk(f, str))[<< >>][0]
BY DEF Found, IsWalk, Visit, Here, Below

LEMMA WalkIs ==
  ASSUME NEW str, NEW f, IsWalk(f, str), NEW p \in nodes, NEW n \in 0 .. Len(str)
  PROVE  f[p][n] = Visit(f, str, p, n)
<1>1. f[p] = [m \in 0 .. Len(str) |-> Visit(f, str, p, m)]
  BY Zenon DEF IsWalk
<1> QED
  BY <1>1, Zenon

\* The results there are.
Entries == {[word |-> w, cnt |-> search_cnt[w]] : w \in isTerminal}

\* Word v comes before w in a dictionary.
Before(v, w) ==
  \/ IsStrictPrefix(v, w)
  \/ \E k \in 1 .. Len(v) : /\ k <= Len(w) /\ v[k] < w[k]
                            /\ SubSeq(v, 1, k - 1) = SubSeq(w, 1, k - 1)

Earlier == {e \in Entries \X Entries : Before(e[1].word, e[2].word)}

\* g[k] letters of str have been found in a row after k letters of w, if n have been
\* after the first l.
Scans(g, str, l, n, w) ==
  /\ g \in [l .. Len(w) -> 0 .. Len(str)]
  /\ g[l] = n
  /\ \A k \in l + 1 .. Len(w) : g[k] = Advance(str, g[k - 1], w[k])

\* All of str has been found at the end of w.
Finds(g, str, l, n, w) == Scans(g, str, l, n, w) /\ g[Len(w)] = Len(str)

Leads(str, p, n, w) == p \in Prefixes(w) /\ \E g : Finds(g, str, Len(p), n, w)

\* What is to be found from node p on.
Hits(str, p, n) == {e \in Entries : Leads(str, p, n, e.word)}

\* f has all of it, in order.
RightAt(f, str, p) ==
  \A n \in 0 .. Len(str) :
    /\ f[p][n] \in Seq(Entries)
    /\ ToSet(f[p][n]) = Hits(str, p, n)
    /\ OrderedBy(Earlier, f[p][n])

LEMMA AdvanceIs ==
  ASSUME NEW str \in Paths, NEW s \in 0 .. Len(str), NEW x
  PROVE  /\ Advance(str, s, x) \in 0 .. Len(str)
         /\ s = Len(str) => Advance(str, s, x) = s
         /\ s # Len(str) /\ x = str[s + 1] => Advance(str, s, x) = s + 1
         /\ s # Len(str) /\ x # str[s + 1] => Advance(str, s, x) = 0
<1>1. Len(str) \in Nat
  BY DEF Paths
<1>2. CASE s = Len(str)
  BY <1>1, <1>2 DEF Advance
<1>3. CASE s < Len(str) /\ x = str[s + 1]
  BY <1>1, <1>3 DEF Advance
<1>4. CASE s < Len(str) /\ x # str[s + 1]
  BY <1>1, <1>4 DEF Advance
<1> QED
  BY <1>1, <1>2, <1>3, <1>4

\* The nodes and words there are.
LEMMA NodesAre ==
  ASSUME Inv
  PROVE  /\ nodes \subseteq Paths /\ << >> \in nodes
         /\ isTerminal \subseteq nodes
         /\ \A w \in isTerminal : Prefixes(w) \subseteq nodes
         /\ \A e \in Entries : e.word \in isTerminal /\ e = [word |-> e.word, cnt |-> search_cnt[e.word]]
         /\ \A w \in isTerminal : [word |-> w, cnt |-> search_cnt[w]] \in Entries
  BY DEF Inv, Types, Rooted, Entries

LEMMA HereIs ==
  ASSUME Inv, NEW str \in Paths, NEW p \in nodes, NEW n \in 0 .. Len(str)
  PROVE  /\ Here(str, p, n) \in Seq(Entries)
         /\ ToSet(Here(str, p, n)) = {e \in Entries : e.word = p /\ n = Len(str)}
         /\ \A B : OrderedBy(B, Here(str, p, n))
<1> DEFINE r == [word |-> p, cnt |-> search_cnt[p]]
<1>1. CASE n = Len(str) /\ p \in isTerminal
  <2>1. Here(str, p, n) = <<r>>
    BY <1>1 DEF Here
  <2>2. r \in Entries /\ \A e \in Entries : e.word = p => e = r
    BY <1>1, NodesAre
  <2>3. r.word = p
    OBVIOUS
  <2> HIDE DEF r
  <2>4. <<r>> \in Seq(Entries) /\ ToSet(<<r>>) = {r} /\ \A B : OrderedBy(B, <<r>>)
    <3>1. <<r>> \in Seq(Entries) /\ Len(<<r>>) = 1 /\ <<r>>[1] = r /\ DOMAIN <<r>> = 1 .. 1
      BY <2>2
    <3>2. ToSet(<<r>>) = {r}
      BY <3>1 DEF ToSet
    <3> QED
      BY <3>1, <3>2 DEF OrderedBy
  <2> QED
    BY <1>1, <2>1, <2>2, <2>3, <2>4
<1>2. CASE ~ (n = Len(str) /\ p \in isTerminal)
  <2>1. Here(str, p, n) = << >>
    BY <1>2 DEF Here
  <2>2. {e \in Entries : e.word = p /\ n = Len(str)} = {}
    BY <1>2, NodesAre
  <2>3. << >> \in Seq(Entries) /\ ToSet(<< >>) = {} /\ \A B : OrderedBy(B, << >>)
    BY DEF ToSet, OrderedBy
  <2> QED
    BY <2>1, <2>2, <2>3
<1> QED
  BY <1>1, <1>2

LEMMA LeadsHere ==
  ASSUME NEW str \in Paths, NEW p \in Paths, NEW n \in 0 .. Len(str)
  PROVE  Leads(str, p, n, p) <=> n = Len(str)
<1>1. Len(p) \in Nat /\ p \in Prefixes(p)
  BY PrefixesAre DEF Paths
<1>2. ASSUME Leads(str, p, n, p) PROVE n = Len(str)
  BY <1>2 DEF Leads, Finds, Scans
<1>3. ASSUME n = Len(str) PROVE Leads(str, p, n, p)
  <2> DEFINE g == [k \in Len(p) .. Len(p) |-> n]
  <2>1. Finds(g, str, Len(p), n, p)
    BY <1>1, <1>3 DEF Finds, Scans
  <2> QED
    BY <1>1, <2>1 DEF Leads
<1> QED
  BY <1>2, <1>3

LEMMA LeadsBelow ==
  ASSUME NEW str \in Paths, NEW p \in Paths, NEW n \in 0 .. Len(str), NEW w \in Paths, w # p
  PROVE  Leads(str, p, n, w) <=>
           \E x \in Letters : Append(p, x) \in Prefixes(w)
                                /\ Leads(str, Append(p, x), Advance(str, n, x), w)
<1> DEFINE l == Len(p)
           m == Len(w)
<1>1. l \in Nat /\ m \in Nat
  BY DEF Paths
<1>2. ASSUME Leads(str, p, n, w)
      PROVE  \E x \in Letters : Append(p, x) \in Prefixes(w)
                                  /\ Leads(str, Append(p, x), Advance(str, n, x), w)
  <2>1. p \in Prefixes(w) \ {w} /\ l \in 0 .. m /\ p = SubSeq(w, 1, l)
    BY <1>2, PrefixesAre DEF Leads
  <2>2. l < m
    <3>1. SubSeq(w, 1, m) = w
      BY DEF Paths
    <3> QED
      BY <1>1, <2>1, <3>1
  <2> DEFINE x == w[l + 1]
  <2>3. x \in Letters
    BY <1>1, <2>2 DEF Paths
  <2>4. Append(p, x) \in Prefixes(w)
    BY <2>1, <2>3, AppendIsPrefix
  <2>5. Len(Append(p, x)) = l + 1
    BY <2>3 DEF Paths
  <2>6. PICK g : Finds(g, str, l, n, w)
    BY <1>2 DEF Leads
  <2> DEFINE h == [k \in l + 1 .. m |-> g[k]]
  <2> HIDE DEF x
  <2>7. Finds(h, str, l + 1, Advance(str, n, x), w)
    <3>1. /\ g \in [l .. m -> 0 .. Len(str)] /\ g[l] = n /\ g[m] = Len(str)
          /\ \A k \in l + 1 .. m : g[k] = Advance(str, g[k - 1], w[k])
      BY <2>6 DEF Finds, Scans
    <3>2. l + 1 \in l + 1 .. m /\ m \in l + 1 .. m /\ l + 1 - 1 = l
      BY <1>1, <2>2
    <3>3. \A k \in l + 1 + 1 .. m : k \in l + 1 .. m /\ k - 1 \in l + 1 .. m
      BY <1>1
    <3>4. \A k \in l + 1 .. m : h[k] = g[k] /\ g[k] \in 0 .. Len(str)
      BY <1>1, <3>1
    <3>5. h[l + 1] = Advance(str, n, x)
      BY <3>1, <3>2, <3>4 DEF x
    <3>6. \A k \in l + 1 + 1 .. m : h[k] = Advance(str, h[k - 1], w[k])
      BY <3>1, <3>3, <3>4
    <3>7. h \in [l + 1 .. m -> 0 .. Len(str)] /\ h[m] = Len(str)
      BY <3>1, <3>2, <3>4
    <3> HIDE DEF h
    <3> QED
      BY <3>5, <3>6, <3>7 DEF Finds, Scans
  <2>8. Leads(str, Append(p, x), Advance(str, n, x), w)
    BY <2>4, <2>5, <2>7 DEF Leads
  <2> QED
    BY <2>3, <2>4, <2>8
<1>3. ASSUME NEW x \in Letters, Append(p, x) \in Prefixes(w),
             Leads(str, Append(p, x), Advance(str, n, x), w)
      PROVE  Leads(str, p, n, w)
  <2>1. p \in Prefixes(w) /\ x = w[l + 1]
    BY <1>3, AppendIsPrefix
  <2>2. Len(Append(p, x)) = l + 1 /\ l + 1 \in 0 .. m
    <3>1. Len(Append(p, x)) = l + 1
      BY DEF Paths
    <3> QED
      BY <1>3, <3>1, PrefixesAre
  <2>3. PICK g : Finds(g, str, l + 1, Advance(str, n, x), w)
    BY <1>3, <2>2 DEF Leads
  <2> DEFINE h == [k \in l .. m |-> IF k = l THEN n ELSE g[k]]
  <2>4. Finds(h, str, l, n, w)
    <3>1. /\ g \in [l + 1 .. m -> 0 .. Len(str)] /\ g[l + 1] = Advance(str, n, w[l + 1])
          /\ g[m] = Len(str)
          /\ \A k \in l + 1 + 1 .. m : g[k] = Advance(str, g[k - 1], w[k])
      BY <2>1, <2>3 DEF Finds, Scans
    <3>2. \A k \in l + 1 .. m : h[k] = g[k] /\ g[k] \in 0 .. Len(str)
      BY <1>1, <3>1
    <3>3. h[l] = n /\ m \in l + 1 .. m
      BY <1>1, <2>2
    <3>4. h \in [l .. m -> 0 .. Len(str)]
      <4>1. \A k \in l .. m : k = l \/ k \in l + 1 .. m
        BY <1>1
      <4> QED
        BY <3>2, <3>3, <4>1
    <3> HIDE DEF h
    <3>5. ASSUME NEW k \in l + 1 .. m PROVE h[k] = Advance(str, h[k - 1], w[k])
      <4>1. CASE k = l + 1
        <5>1. k - 1 = l
          BY <1>1, <4>1
        <5> QED
          BY <3>1, <3>2, <3>3, <4>1, <5>1
      <4>2. CASE k # l + 1
        <5>1. k \in l + 1 + 1 .. m /\ k - 1 \in l + 1 .. m
          BY <1>1, <4>2
        <5> QED
          BY <3>1, <3>2, <5>1
      <4> QED
        BY <4>1, <4>2
    <3>6. h[m] = Len(str)
      BY <3>1, <3>2, <3>3
    <3> QED
      BY <3>3, <3>4, <3>5, <3>6 DEF Finds, Scans
  <2> QED
    BY <2>1, <2>4 DEF Leads
<1> QED
  BY <1>2, <1>3

LEMMA BelowBefore ==
  ASSUME NEW p \in Paths, NEW w \in Paths, p \in Prefixes(w) \ {w}
  PROVE  Before(p, w)
<1>1. Len(p) \in 0 .. Len(w) /\ p = SubSeq(w, 1, Len(p))
  BY PrefixesAre
<1>2. SubSeq(p, 1, Len(p)) = p /\ Len(p) <= Len(w)
  BY <1>1 DEF Paths
<1> QED
  BY <1>1, <1>2 DEF Before, IsStrictPrefix, IsPrefix

LEMMA BranchesBefore ==
  ASSUME NEW p \in Paths, NEW x \in Letters, NEW y \in Letters, x < y,
         NEW v \in Paths, NEW w \in Paths,
         Append(p, x) \in Prefixes(v), Append(p, y) \in Prefixes(w)
  PROVE  Before(v, w)
<1> DEFINE k == Len(p) + 1
<1>1. /\ p \in Prefixes(v) \ {v} /\ v[k] = x
      /\ p \in Prefixes(w) \ {w} /\ w[k] = y
  BY AppendIsPrefix
<1>2. Len(Append(p, x)) = k /\ Len(Append(p, y)) = k /\ Len(p) \in Nat /\ k - 1 = Len(p)
  BY DEF Paths
<1>3. k \in 1 .. Len(v) /\ k <= Len(w)
  <2>1. Len(Append(p, x)) \in 0 .. Len(v) /\ Len(Append(p, y)) \in 0 .. Len(w)
    BY PrefixesAre
  <2> QED
    BY <1>2, <2>1
<1>4. SubSeq(v, 1, Len(p)) = p /\ SubSeq(w, 1, Len(p)) = p
  BY <1>1, PrefixesAre
<1>5. SubSeq(v, 1, k - 1) = SubSeq(w, 1, k - 1) /\ v[k] < w[k]
  BY <1>1, <1>2, <1>4
<1> QED
  BY <1>3, <1>5, Zenon DEF Before

\* A node before its children, and they in the order of their letters.
LEMMA VisitRight ==
  ASSUME Inv, NEW str \in Paths, NEW f, NEW p \in nodes,
         \A x \in Letters : Append(p, x) \in nodes => RightAt(f, str, Append(p, x)),
         NEW n \in 0 .. Len(str)
  PROVE  /\ Visit(f, str, p, n) \in Seq(Entries)
         /\ ToSet(Visit(f, str, p, n)) = Hits(str, p, n)
         /\ OrderedBy(Earlier, Visit(f, str, p, n))
<1> DEFINE s == Below(f, str, p, n)
           C == Cardinality(Letters)
           Child(k) == Append(p, k - 1)
           m(k) == Advance(str, n, k - 1)
           here == Here(str, p, n)
           below == IF childNum[p] = 0 THEN << >> ELSE FlattenSeq(s)
           Lower == {e \in Hits(str, p, n) : e.word # p}
<1>1. /\ here \in Seq(Entries) /\ ToSet(here) = {e \in Entries : e.word = p /\ n = Len(str)}
      /\ OrderedBy(Earlier, here)
  BY HereIs
<1>2. p \in Paths /\ C \in Nat /\ \A k \in 1 .. C : k - 1 \in Letters /\ m(k) \in 0 .. Len(str)
  <2>1. C \in Nat
    BY TrieAssumption, FS_CardinalityType
  <2>2. \A k \in 1 .. C : k - 1 \in Letters
    BY <2>1, TrieAssumption
  <2> QED
    BY <2>1, <2>2, AdvanceIs, NodesAre
<1>3. \A e \in Entries : e.word \in Paths /\ e.word \in isTerminal
  BY NodesAre
<1>4. \A k \in 1 .. C : s[k] = IF Child(k) \in nodes THEN f[Child(k)][m(k)] ELSE << >>
  BY DEF Below
<1>5. Len(s) = C /\ DOMAIN s = 1 .. C
  BY <1>2 DEF Below
<1>6. ASSUME NEW k \in 1 .. C
      PROVE  /\ s[k] \in Seq(Entries) /\ OrderedBy(Earlier, s[k])
             /\ Child(k) \in nodes => ToSet(s[k]) = Hits(str, Child(k), m(k))
             /\ Child(k) \notin nodes => ToSet(s[k]) = {}
  <2>1. CASE Child(k) \in nodes
    <3>1. RightAt(f, str, Child(k)) /\ m(k) \in 0 .. Len(str)
      BY <1>2, <2>1
    <3> QED
      BY <1>4, <2>1, <3>1 DEF RightAt
  <2>2. CASE Child(k) \notin nodes
    <3>1. s[k] = << >>
      BY <1>4, <2>2
    <3> QED
      BY <2>2, <3>1 DEF ToSet, OrderedBy
  <2> QED
    BY <2>1, <2>2
<1>7. \A k \in 1 .. C : \A e \in ToSet(s[k]) :
        /\ e \in Entries /\ Child(k) \in nodes /\ Child(k) \in Prefixes(e.word)
        /\ Leads(str, Child(k), m(k), e.word)
  BY <1>6 DEF Hits, Leads
<1> HIDE DEF s
<1>8. Joinable(s, Entries, Earlier)
  <2>1. s \in Seq(Seq(Entries))
    <3>1. s = [k \in 1 .. C |-> s[k]]
      BY DEF s, Below
    <3> QED
      BY <1>2, <1>6, <3>1
  <2>2. ASSUME NEW k \in 1 .. C, NEW l \in 1 .. C, k < l,
               NEW a \in ToSet(s[k]), NEW b \in ToSet(s[l])
        PROVE  <<a, b>> \in Earlier
    <3>1. k - 1 \in Letters /\ l - 1 \in Letters /\ k - 1 < l - 1
      BY <1>2, <2>2
    <3>2. /\ a \in Entries /\ b \in Entries /\ a.word \in Paths /\ b.word \in Paths
          /\ Append(p, k - 1) \in Prefixes(a.word) /\ Append(p, l - 1) \in Prefixes(b.word)
      BY <1>3, <1>7, <2>2
    <3>3. Before(a.word, b.word)
      BY <1>2, <3>1, <3>2, BranchesBefore
    <3> QED
      BY <3>2, <3>3 DEF Earlier
  <2> QED
    BY <1>5, <1>6, <2>1, <2>2 DEF Joinable
<1>9. /\ below \in Seq(Entries) /\ OrderedBy(Earlier, below)
      /\ ToSet(below) = UNION {ToSet(s[k]) : k \in 1 .. C}
  <2>1. CASE childNum[p] # 0
    BY <1>5, <1>8, <2>1, FlattenIs DEF Joined
  <2>2. CASE childNum[p] = 0
    <3>1. Children(p) = {}
      <4>1. Cardinality(Children(p)) = 0
        BY <2>2 DEF Inv, ChildrenCounted
      <4> QED
        BY <4>1, ChildrenFinite, FS_EmptySet
    <3>2. \A k \in 1 .. C : ToSet(s[k]) = {}
      BY <1>2, <1>6, <3>1 DEF Children
    <3>3. below = << >> /\ << >> \in Seq(Entries) /\ ToSet(<< >>) = {} /\ \A B : OrderedBy(B, << >>)
      BY <2>2 DEF ToSet, OrderedBy
    <3>4. UNION {ToSet(s[k]) : k \in 1 .. C} = {}
      BY <3>2
    <3> HIDE DEF below
    <3> QED
      BY <3>3, <3>4
  <2> QED
    BY <2>1, <2>2
<1>10. UNION {ToSet(s[k]) : k \in 1 .. C} = Lower
  <2>1. ASSUME NEW k \in 1 .. C, NEW e \in ToSet(s[k]) PROVE e \in Lower
    <3>1. /\ e \in Entries /\ Child(k) \in Prefixes(e.word) /\ Leads(str, Child(k), m(k), e.word)
          /\ k - 1 \in Letters /\ e.word \in Paths
      BY <1>2, <1>3, <1>7, <2>1
    <3>2. e.word # p
      BY <1>2, <3>1, AppendIsPrefix
    <3>3. Leads(str, p, n, e.word)
      BY <1>2, <3>1, <3>2, LeadsBelow
    <3> QED
      BY <3>1, <3>2, <3>3 DEF Hits
  <2>2. ASSUME NEW e \in Lower PROVE \E k \in 1 .. C : e \in ToSet(s[k])
    <3>1. e \in Entries /\ e.word \in Paths /\ e.word \in isTerminal /\ e.word # p
          /\ Leads(str, p, n, e.word)
      BY <1>3, <2>2 DEF Hits
    <3>2. PICK x \in Letters : Append(p, x) \in Prefixes(e.word)
                                 /\ Leads(str, Append(p, x), Advance(str, n, x), e.word)
      BY <1>2, <3>1, LeadsBelow
    <3>3. Append(p, x) \in nodes
      BY <3>1, <3>2, NodesAre
    <3>4. PICK k \in 1 .. C : k - 1 = x
      <4>1. x + 1 \in 1 .. C /\ (x + 1) - 1 = x
        BY <1>2, TrieAssumption
      <4> QED
        BY <4>1
    <3>5. Child(k) = Append(p, x) /\ m(k) = Advance(str, n, x)
      BY <3>4
    <3>6. ToSet(s[k]) = Hits(str, Child(k), m(k))
      BY <1>6, <3>3, <3>4, <3>5
    <3> QED
      BY <3>1, <3>2, <3>4, <3>5, <3>6 DEF Hits
  <2> QED
    BY <2>1, <2>2
<1>11. {e \in Entries : e.word = p /\ n = Len(str)} = {e \in Hits(str, p, n) : e.word = p}
  BY <1>2, LeadsHere DEF Hits
<1>12. ToSet(here) \X ToSet(below) \subseteq Earlier
  <2>1. ASSUME NEW a \in ToSet(here), NEW b \in ToSet(below) PROVE <<a, b>> \in Earlier
    <3>1. a \in Entries /\ a.word = p
      BY <1>1, <2>1
    <3>2. b \in Entries /\ b.word # p /\ b.word \in Paths /\ p \in Prefixes(b.word)
      BY <1>3, <1>9, <1>10, <2>1 DEF Hits, Leads
    <3>3. Before(p, b.word)
      BY <1>2, <3>2, BelowBefore
    <3> QED
      BY <3>1, <3>2, <3>3 DEF Earlier
  <2> QED
    BY <2>1
<1>13. Visit(f, str, p, n) = here \o below
  BY DEF Visit, s
<1> HIDE DEF here, below
<1>14. here \o below \in Seq(Entries) /\ ToSet(here \o below) = ToSet(here) \cup ToSet(below)
  BY <1>1, <1>9, ConcatIs
<1>15. OrderedBy(Earlier, here \o below)
  BY <1>1, <1>9, <1>12, ConcatOrdered
<1>16. ToSet(here) \cup ToSet(below) = Hits(str, p, n)
  BY <1>1, <1>9, <1>10, <1>11
<1> QED
  BY <1>13, <1>14, <1>15, <1>16

-------------------------------------------------------------------------------
(* The traversal of the whole trie. *)

\* No path is longer.
Shallow == \E h \in Nat : \A p \in nodes : Len(p) <= h

\* Induction from the leaves upwards.
LEMMA Upwards ==
  ASSUME Inv, Shallow, NEW S,
         \A p \in nodes : (\A x \in Letters : Append(p, x) \in nodes => Append(p, x) \in S) => p \in S
  PROVE  nodes \subseteq S
<1>1. PICK h \in Nat : \A p \in nodes : Len(p) <= h
  BY DEF Shallow
<1> DEFINE I == {k \in 0 .. h + 1 : \A p \in nodes : h - k < Len(p) => p \in S}
<1>2. \A p \in nodes : Len(p) \in Nat /\ \A x \in Letters : Len(Append(p, x)) = Len(p) + 1
  BY NodesAre DEF Paths
<1>3. 0 \in I
  BY <1>1, <1>2
<1>4. ASSUME NEW k \in 1 .. h + 1, k - 1 \in I PROVE k \in I
  <2>1. ASSUME NEW p \in nodes, h - k < Len(p) PROVE p \in S
    <3>1. \A q \in nodes : h - (k - 1) < Len(q) => q \in S
      BY <1>4
    <3>2. \A x \in Letters : h - (k - 1) < Len(Append(p, x))
      BY <1>1, <1>2, <2>1
    <3>3. \A x \in Letters : Append(p, x) \in nodes => Append(p, x) \in S
      BY <3>1, <3>2
    <3> QED
      BY <3>3
  <2> QED
    BY <2>1
<1>5. \A k \in 0 .. h + 1 : k \in I
  <2> HIDE DEF I
  <2> QED
    BY <1>1, <1>3, <1>4, UpTo
<1>6. h + 1 \in 0 .. h + 1 /\ \A p \in nodes : h - (h + 1) < Len(p)
  BY <1>1, <1>2
<1> QED
  BY <1>5, <1>6

\* What may be found, right or not.
Tables(str) == [nodes -> [0 .. Len(str) -> Seq(Entries)]]

LEMMA VisitTyped ==
  ASSUME Inv, NEW str \in Paths, NEW f \in Tables(str), NEW p \in nodes, NEW n \in 0 .. Len(str)
  PROVE  Visit(f, str, p, n) \in Seq(Entries)
<1> DEFINE s == Below(f, str, p, n)
           C == Cardinality(Letters)
           All == Entries \X Entries
<1>1. Here(str, p, n) \in Seq(Entries)
  BY HereIs
<1>2. C \in Nat
  BY TrieAssumption, FS_CardinalityType
<1>3. ASSUME NEW k \in 1 .. C
      PROVE  (IF Append(p, k - 1) \in nodes
                THEN f[Append(p, k - 1)][Advance(str, n, k - 1)] ELSE << >>) \in Seq(Entries)
  <2>1. Advance(str, n, k - 1) \in 0 .. Len(str)
    BY AdvanceIs
  <2> QED
    BY <2>1 DEF Tables
<1>4. s \in Seq(Seq(Entries))
  <2> DEFINE e(k) == IF Append(p, k - 1) \in nodes
                       THEN f[Append(p, k - 1)][Advance(str, n, k - 1)] ELSE << >>
  <2>1. s = [k \in 1 .. C |-> e(k)]
    BY DEF Below
  <2>2. \A k \in 1 .. C : e(k) \in Seq(Entries)
    BY <1>3
  <2> HIDE DEF e, s
  <2> QED
    BY <1>2, <2>1, <2>2
<1> HIDE DEF s
<1>5. \A t \in Seq(Entries) : OrderedBy(All, t) /\ ToSet(t) \subseteq Entries
  <2>1. ASSUME NEW t \in Seq(Entries) PROVE \A i \in 1 .. Len(t) : t[i] \in Entries
    OBVIOUS
  <2>2. \A t \in Seq(Entries) : DOMAIN t = 1 .. Len(t)
    OBVIOUS
  <2> QED
    BY <2>1, <2>2 DEF OrderedBy, ToSet
<1>6. \A k \in 1 .. Len(s) : s[k] \in Seq(Entries)
  BY <1>4
<1>7. Joinable(s, Entries, All)
  BY <1>4, <1>5, <1>6 DEF Joinable
<1>8. FlattenSeq(s) \in Seq(Entries)
  BY <1>7, FlattenIs DEF Joined
<1>9. (IF childNum[p] = 0 THEN << >> ELSE FlattenSeq(s)) \in Seq(Entries)
  BY <1>8
<1> QED
  BY <1>1, <1>9, ConcatIs DEF Visit, s

LEMMA VisitLocal ==
  ASSUME NEW str, NEW f, NEW g, NEW p, NEW n,
         \A x \in Letters : Append(p, x) \in nodes => f[Append(p, x)] = g[Append(p, x)]
  PROVE  Visit(f, str, p, n) = Visit(g, str, p, n)
<1>1. \A k \in 1 .. Cardinality(Letters) : k - 1 \in Letters
  <2>1. Cardinality(Letters) \in Nat
    BY TrieAssumption, FS_CardinalityType
  <2> QED
    BY <2>1, TrieAssumption
<1>2. Below(f, str, p, n) = Below(g, str, p, n)
  BY <1>1 DEF Below
<1> QED
  BY <1>2 DEF Visit

\* The function that is defined by recursion exists: if it is begun with anything,
\* and taken once more from each node's children as often as the trie is deep, it does
\* not change any more.
LEMMA WalkExists ==
  ASSUME Inv, Shallow, NEW str \in Paths
  PROVE  \E f : IsWalk(f, str)
<1> DEFINE D == Tables(str)
           Anew(t) == [p \in nodes |-> [n \in 0 .. Len(str) |-> Visit(t, str, p, n)]]
           b == [p \in nodes |-> [n \in 0 .. Len(str) |-> << >>]]
<1>1. PICK h \in Nat : \A p \in nodes : Len(p) <= h
  BY DEF Shallow
<1>2. \A t \in D : Anew(t) \in D
  BY VisitTyped DEF Tables
<1>3. b \in D
  BY DEF Tables
<1> DEFINE G == [k \in 1 .. h + 1 |-> [t \in D |-> Anew(t)]]
<1>4. PICK f : IsLoop(f, h + 1, D, b, G)
  <2> HIDE DEF D, b
  <2>1. G \in Bodies(h + 1, D)
    BY <1>2 DEF Bodies
  <2> HIDE DEF G
  <2>2. h + 1 \in Nat
    BY <1>1
  <2> QED
    BY <1>3, <2>1, <2>2, LoopExists
<1> HIDE DEF D, b
<1>5. \A k \in 1 .. h + 1 : f[k] = Anew(f[k - 1]) /\ f[k] \in D
  <2>0. \A k \in 1 .. h + 1 : k \in 0 .. h + 1 /\ k - 1 \in 0 .. h + 1
    BY <1>1
  <2>1. \A k \in 1 .. h + 1 : f[k] \in D /\ f[k - 1] \in D /\ f[k] = G[k][f[k - 1]]
    <3> HIDE DEF G
    <3> QED
      BY <1>4, <2>0 DEF IsLoop
  <2> QED
    BY <2>1
<1> DEFINE I == {k \in 0 .. h + 1 : \A p \in nodes : h - k < Len(p) => Anew(f[k])[p] = f[k][p]}
<1>6. \A p \in nodes : Len(p) \in Nat /\ \A x \in Letters : Len(Append(p, x)) = Len(p) + 1
  BY NodesAre DEF Paths
<1>7. 0 \in I
  BY <1>1, <1>6
<1>8. ASSUME NEW k \in 1 .. h + 1, k - 1 \in I PROVE k \in I
  <2>1. ASSUME NEW p \in nodes, h - k < Len(p) PROVE Anew(f[k])[p] = f[k][p]
    <3>1. ASSUME NEW x \in Letters, Append(p, x) \in nodes
          PROVE  f[k][Append(p, x)] = f[k - 1][Append(p, x)]
      <4>1. h - (k - 1) < Len(Append(p, x))
        BY <1>6, <2>1, <3>1
      <4>2. Anew(f[k - 1])[Append(p, x)] = f[k - 1][Append(p, x)]
        BY <1>8, <3>1, <4>1
      <4>3. f[k] = Anew(f[k - 1])
        BY <1>5
      <4> QED
        BY <4>2, <4>3
    <3>2. \A n \in 0 .. Len(str) : Visit(f[k], str, p, n) = Visit(f[k - 1], str, p, n)
      BY <3>1, VisitLocal
    <3>3. Anew(f[k])[p] = Anew(f[k - 1])[p]
      BY <3>2
    <3>4. f[k] = Anew(f[k - 1])
      BY <1>5
    <3> QED
      BY <3>3, <3>4
  <2> QED
    BY <2>1
<1>9. \A k \in 0 .. h + 1 : k \in I
  <2> HIDE DEF I
  <2>1. h + 1 \in Nat
    OBVIOUS
  <2> QED
    BY <1>7, <1>8, <2>1, UpTo
<1> DEFINE w == f[h + 1]
<1>10. \A p \in nodes : Anew(w)[p] = w[p]
  <2>1. h + 1 \in 0 .. h + 1 /\ \A p \in nodes : h - (h + 1) < Len(p)
    BY <1>1, <1>6
  <2> QED
    BY <1>9, <2>1
<1>11. w \in Tables(str)
  <2>1. h + 1 \in 1 .. h + 1
    BY <1>1
  <2> QED
    BY <1>5, <2>1 DEF D
<1> HIDE DEF w
<1>12. w = Anew(w)
  BY <1>10, <1>11 DEF Tables
<1> QED
  BY <1>12 DEF IsWalk

\* A search finds every word that leads it through all of the string, once, in
\* dictionary order, with its count; and nothing else.
LEMMA FoundIs ==
  ASSUME Inv, Shallow, NEW str \in Paths
  PROVE  /\ Found(str) \in Seq(Entries)
         /\ ToSet(Found(str)) = Hits(str, << >>, 0)
         /\ OrderedBy(Earlier, Found(str))
<1> DEFINE c == CHOOSE f : IsWalk(f, str)
           S == {p \in nodes : RightAt(c, str, p)}
<1>1. IsWalk(c, str)
  BY WalkExists
<1>2. Found(str) = c[<< >>][0]
  BY FoundTable
<1> HIDE DEF c
<1>3. ASSUME NEW p \in nodes, \A x \in Letters : Append(p, x) \in nodes => Append(p, x) \in S
      PROVE  p \in S
  <2>1. \A x \in Letters : Append(p, x) \in nodes => RightAt(c, str, Append(p, x))
    BY <1>3
  <2>2. \A n \in 0 .. Len(str) : c[p][n] = Visit(c, str, p, n)
    BY <1>1, WalkIs
  <2>3. RightAt(c, str, p)
    BY <2>1, <2>2, VisitRight DEF RightAt
  <2> QED
    BY <2>3
<1>4. nodes \subseteq S
  <2> HIDE DEF S
  <2> QED
    BY <1>3, Upwards
<1>5. << >> \in nodes /\ 0 \in 0 .. Len(str)
  BY NodesAre DEF Paths
<1> QED
  BY <1>2, <1>4, <1>5 DEF RightAt

\* What the counts are.
CountsKnown == \A p \in nodes : search_cnt[p] \in Int

SearchInv == Inv /\ Shallow /\ CountsKnown

LEMMA CountsOfLines == \A l \in Lines : l.cnt \in Int
<1>1. ASSUME NEW f \in Files, NEW l \in ToSet(f) PROVE l.cnt \in Int
  <2>1. f \in Seq([word : Seq(Letters), cnt : Int])
    BY TrieAssumption
  <2>2. PICK k \in 1 .. Len(f) : l = f[k]
    <3>1. DOMAIN f = 1 .. Len(f)
      BY <2>1
    <3> QED
      BY <1>1, <3>1, Zenon DEF ToSet
  <2>3. l \in [word : Seq(Letters), cnt : Int]
    BY <2>1, <2>2, ElementIs
  <2> QED
    BY <2>3
<1> QED
  BY <1>1 DEF Lines

LEMMA SearchInvInit == Init => SearchInv
<1> SUFFICES ASSUME Init PROVE SearchInv
  OBVIOUS
<1>1. nodes = {<< >>} /\ search_cnt = [p \in nodes |-> 0]
  BY DEF Init
<1>2. Shallow
  <2>1. 0 \in Nat /\ \A p \in nodes : Len(p) <= 0
    BY <1>1
  <2> QED
    BY <2>1 DEF Shallow
<1> QED
  BY <1>1, <1>2, InvInit DEF SearchInv, CountsKnown

LEMMA InsertShallow ==
  ASSUME SearchInv, NEW w \in Paths, NEW c \in Int, insert(w, c)
  PROVE  Shallow' /\ CountsKnown'
<1>1. nodes' = nodes \cup Prefixes(w) /\ search_cnt' = [p \in nodes' |-> CountAfter(p, w, c)]
  BY DEF insert
<1>2. PICK h \in Nat : \A p \in nodes : Len(p) <= h
  BY DEF SearchInv, Shallow
<1>3. Len(w) \in Nat /\ \A p \in Prefixes(w) : Len(p) \in 0 .. Len(w)
  BY PrefixesAre DEF Paths
<1>4. nodes \subseteq Paths
  BY NodesAre DEF SearchInv
<1>5. \A p \in nodes' : Len(p) <= h + Len(w)
  <2>1. \A p \in nodes : Len(p) <= h + Len(w)
    BY <1>2, <1>3, <1>4 DEF Paths
  <2>2. \A p \in Prefixes(w) : Len(p) <= h + Len(w)
    BY <1>2, <1>3
  <2> QED
    BY <1>1, <2>1, <2>2
<1>6. h + Len(w) \in Nat
  BY <1>2, <1>3
<1>7. Shallow'
  BY <1>5, <1>6 DEF Shallow
<1>8. CountsKnown'
  BY <1>1 DEF SearchInv, CountsKnown, CountAfter
<1> QED
  BY <1>7, <1>8

LEMMA SearchInvStep == SearchInv /\ [Next]_vars => SearchInv'
<1> SUFFICES ASSUME SearchInv, [Next]_vars PROVE SearchInv'
  OBVIOUS
<1>0. Inv /\ Inv' /\ Types
  BY InvStep DEF SearchInv, Inv
<1>1. CASE LoadLine
  <2>1. Head(lines) \in Lines /\ insert(Head(lines).word, Head(lines).cnt)
    BY <1>0, <1>1 DEF LoadLine, Types
  <2>2. Head(lines).word \in Paths /\ Head(lines).cnt \in Int
    BY <2>1, LinesAre, CountsOfLines
  <2> QED
    BY <1>0, <2>1, <2>2, InsertShallow DEF SearchInv
<1>2. CASE LoadLastAgain
  <2>1. FirstToken(buffer) \in Paths /\ insert(FirstToken(buffer), 0)
    BY <1>0, <1>2, FirstTokenIs DEF LoadLastAgain, Types
  <2> QED
    BY <1>0, <2>1, InsertShallow DEF SearchInv
<1>3. CASE UNCHANGED <<nodes, search_cnt>>
  BY <1>0, <1>3 DEF SearchInv, Shallow, CountsKnown
<1> QED
  BY <1>1, <1>2, <1>3 DEF Next, deletion, vars, trieVars

LEMMA SearchInvCorrect == Spec => []SearchInv
BY SearchInvInit, SearchInvStep, PTL DEF Spec

-------------------------------------------------------------------------------
(* What a query finds. *)

\* Letter by letter.
LEMMA OccursAtIs ==
  ASSUME NEW str \in Paths, NEW w \in Paths, NEW k \in 1 .. Len(w)
  PROVE  OccursAt(str, w, k) <=>
           /\ k + Len(str) - 1 <= Len(w)
           /\ \A j \in 1 .. Len(str) : w[k + j - 1] = str[j]
<1> DEFINE n == Len(str)
           t == SubSeq(w, k, Len(w))
<1>1. n \in Nat /\ Len(w) \in Nat /\ k \in Nat
  BY DEF Paths
<1>2. /\ t \in Paths /\ Len(t) = Len(w) - k + 1
      /\ \A j \in 1 .. Len(t) : t[j] = w[k + j - 1]
  BY DEF Paths
<1> HIDE DEF t
<1>3. SubSeq(str, 1, n) = str
  BY DEF Paths
<1>4. n <= Len(t) <=> k + n - 1 <= Len(w)
  BY <1>1, <1>2
<1>5. ASSUME n <= Len(t)
      PROVE  str = SubSeq(t, 1, n) <=> \A j \in 1 .. n : w[k + j - 1] = str[j]
  <2>1. n \in 0 .. Len(t)
    BY <1>1, <1>5
  <2>2. /\ SubSeq(t, 1, n) \in Paths /\ Len(SubSeq(t, 1, n)) = n
        /\ \A j \in 1 .. n : SubSeq(t, 1, n)[j] = t[j]
    BY <1>2, <2>1, PrefixIs
  <2>3. \A j \in 1 .. n : j \in 1 .. Len(t)
    BY <1>1, <1>2, <1>5
  <2>4. \A j \in 1 .. n : SubSeq(t, 1, n)[j] = w[k + j - 1]
    BY <1>2, <2>2, <2>3
  <2>5. str = SubSeq(t, 1, n) <=> \A j \in 1 .. n : str[j] = SubSeq(t, 1, n)[j]
    BY <2>2 DEF Paths
  <2> QED
    BY <2>4, <2>5
<1>6. OccursAt(str, w, k) <=> n <= Len(t) /\ str = SubSeq(t, 1, n)
  BY <1>3 DEF OccursAt, IsPrefix, t
<1> QED
  BY <1>4, <1>5, <1>6

\* What has been found in a row are the letters before; once it is all of str, str
\* occurs.
LEMMA LeadsContains ==
  ASSUME NEW str \in Paths \ {<< >>}, NEW w \in Paths, Leads(str, << >>, 0, w)
  PROVE  \E k \in 1 .. Len(w) : OccursAt(str, w, k)
<1> DEFINE n == Len(str)
           m == Len(w)
           Occurs == \E k \in 1 .. m : OccursAt(str, w, k)
<1>1. n \in Nat \ {0} /\ m \in Nat /\ Len(<< >>) = 0
  BY DEF Paths
<1>2. PICK g : Finds(g, str, 0, 0, w)
  BY <1>1 DEF Leads
<1>3. /\ g \in [0 .. m -> 0 .. n] /\ g[0] = 0 /\ g[m] = n
      /\ \A k \in 1 .. m : g[k] = Advance(str, g[k - 1], w[k])
  BY <1>2 DEF Finds, Scans
<1> HIDE DEF Occurs
<1> DEFINE Q(k) == IF g[k] = n THEN Occurs
                   ELSE g[k] <= k /\ \A j \in 1 .. g[k] : w[k - g[k] + j] = str[j]
           I == {k \in 0 .. m : Q(k)}
<1>4. 0 \in I
  BY <1>1, <1>3
<1>5. ASSUME NEW k \in 1 .. m, k - 1 \in I PROVE k \in I
  <2> DEFINE s == g[k - 1]
  <2>1. Q(k - 1) /\ s \in 0 .. n /\ g[k] = Advance(str, s, w[k]) /\ k - 1 \in 0 .. m
    BY <1>1, <1>3, <1>5
  <2>2. CASE s = n
    <3>1. g[k] = n
      BY <2>1, <2>2, AdvanceIs
    <3> QED
      BY <2>1, <2>2, <3>1
  <2>3. CASE s # n /\ w[k] = str[s + 1]
    <3>1. g[k] = s + 1 /\ s \in Nat /\ s + 1 <= n
      BY <1>1, <2>1, <2>3, AdvanceIs
    <3>2. s <= k - 1 /\ \A j \in 1 .. s : w[k - 1 - s + j] = str[j]
      BY <2>1, <2>3
    <3>3. \A j \in 1 .. s + 1 : w[k - (s + 1) + j] = str[j]
      <4>1. ASSUME NEW j \in 1 .. s PROVE w[k - (s + 1) + j] = str[j]
        <5>1. k - (s + 1) + j = k - 1 - s + j
          BY <3>1
        <5> QED
          BY <3>2, <5>1
      <4>2. k - (s + 1) + (s + 1) = k
        BY <3>1
      <4>3. \A j \in 1 .. s + 1 : j \in 1 .. s \/ j = s + 1
        BY <3>1
      <4> QED
        BY <2>3, <4>1, <4>2, <4>3
    <3>4. CASE s + 1 = n
      <4> DEFINE a == k - s
      <4>1. a \in 1 .. m /\ a + n - 1 <= m
        BY <1>1, <3>1, <3>2, <3>4
      <4>2. \A j \in 1 .. n : w[a + j - 1] = str[j]
        <5>1. \A j \in 1 .. n : a + j - 1 = k - (s + 1) + j
          BY <1>1, <3>1
        <5> QED
          BY <3>3, <3>4, <5>1
      <4> HIDE DEF a
      <4>3. OccursAt(str, w, a)
        BY <4>1, <4>2, OccursAtIs
      <4>4. Occurs
        BY <4>1, <4>3 DEF Occurs
      <4> QED
        BY <3>1, <3>4, <4>4
    <3>5. CASE s + 1 # n
      BY <3>1, <3>2, <3>3, <3>5
    <3> QED
      BY <3>4, <3>5
  <2>4. CASE s # n /\ w[k] # str[s + 1]
    <3>1. g[k] = 0
      BY <2>1, <2>4, AdvanceIs
    <3> QED
      BY <1>1, <3>1
  <2> QED
    BY <2>2, <2>3, <2>4
<1>6. \A k \in 0 .. m : k \in I
  <2> HIDE DEF I
  <2> QED
    BY <1>1, <1>4, <1>5, UpTo
<1> QED
  BY <1>1, <1>3, <1>6 DEF Occurs

\* Before the first occurrence the search is at the beginning of str with each letter.
LEMMA StraightLeads ==
  ASSUME NEW str \in Paths \ {<< >>}, NEW w \in Paths, NoFalseStart(str, w)
  PROVE  Leads(str, << >>, 0, w)
<1> DEFINE n == Len(str)
           m == Len(w)
<1>1. n \in Nat \ {0} /\ m \in Nat /\ Len(<< >>) = 0
  BY DEF Paths
<1>2. PICK k \in 1 .. m : OccursAt(str, w, k) /\ \A j \in 1 .. k - 1 : w[j] # str[1]
  BY DEF NoFalseStart
<1>3. k + n - 1 <= m /\ \A j \in 1 .. n : w[k + j - 1] = str[j]
  BY <1>2, OccursAtIs
<1> DEFINE Found1(l) == IF l < k THEN 0 ELSE IF l < k + n THEN l - k + 1 ELSE n
           g == [l \in 0 .. m |-> Found1(l)]
<1>4. ASSUME NEW l \in 1 .. m PROVE g[l] = Advance(str, g[l - 1], w[l])
  <2>1. g[l] = Found1(l) /\ g[l - 1] = Found1(l - 1)
    BY <1>1
  <2>2. CASE l < k
    <3>1. Found1(l) = 0 /\ Found1(l - 1) = 0 /\ w[l] # str[0 + 1]
      BY <1>2, <2>2
    <3> QED
      BY <1>1, <2>1, <3>1, AdvanceIs
  <2>3. CASE k <= l /\ l < k + n
    <3> DEFINE s == l - k
    <3>1. s \in 0 .. n /\ s # n /\ Found1(l) = s + 1 /\ Found1(l - 1) = s
      BY <1>1, <2>3
    <3>2. w[l] = str[s + 1]
      <4>1. s + 1 \in 1 .. n /\ k + (s + 1) - 1 = l
        BY <1>1, <2>3
      <4> QED
        BY <1>3, <4>1
    <3> HIDE DEF s
    <3>3. Advance(str, s, w[l]) = s + 1
      BY <3>1, <3>2, AdvanceIs
    <3> HIDE DEF g, Found1
    <3> QED
      BY <2>1, <3>1, <3>3, Zenon
  <2>4. CASE k + n <= l
    <3>1. Found1(l) = n /\ Found1(l - 1) = n
      BY <1>1, <2>4
    <3> QED
      BY <1>1, <2>1, <3>1, AdvanceIs
  <2> QED
    BY <1>1, <2>2, <2>3, <2>4
<1>5. g \in [0 .. m -> 0 .. n] /\ g[0] = 0 /\ g[m] = n
  <2>1. \A l \in 0 .. m : Found1(l) \in 0 .. n
    BY <1>1
  <2>2. 0 \in 0 .. m /\ m \in 0 .. m /\ Found1(0) = 0 /\ Found1(m) = n
    <3>1. k \in Nat \ {0} /\ k + n - 1 <= m
      BY <1>1, <1>3
    <3> QED
      BY <1>1, <3>1
  <2> HIDE DEF Found1
  <2> QED
    BY <2>1, <2>2
<1> HIDE DEF g
<1>6. Finds(g, str, 0, 0, w)
  BY <1>4, <1>5 DEF Finds, Scans
<1>7. << >> \in Prefixes(w)
  BY PrefixesAre
<1> QED
  BY <1>1, <1>6, <1>7 DEF Leads

\* Whatever the trie and the query: what a query finds contains it, is found once and
\* in dictionary order, and no word is missed in which the query's first letter does
\* not come before the query (trie.c:92-130).
THEOREM FindsWhatContainsCorrect == Spec => []FindsWhatContains
<1>1. SearchInv => FindsWhatContains
  <2> SUFFICES ASSUME SearchInv, NEW str \in Strings \ {<< >>}
               PROVE  LET found == Found(str)
                          words == {found[i].word : i \in DOMAIN found}
                      IN
                      /\ words \subseteq {w \in isTerminal : \E k \in 1 .. Len(w) : OccursAt(str, w, k)}
                      /\ {w \in isTerminal : NoFalseStart(str, w)} \subseteq words
                      /\ \A i, j \in DOMAIN found : i < j => Before(found[i].word, found[j].word)
    BY Zenon DEF FindsWhatContains, Before
  <2> DEFINE found == Found(str)
             words == {found[i].word : i \in DOMAIN found}
  <2>1. str \in Paths \ {<< >>} /\ Inv /\ Shallow
    BY LinesAre DEF SearchInv
  <2>2. /\ found \in Seq(Entries) /\ ToSet(found) = Hits(str, << >>, 0) /\ OrderedBy(Earlier, found)
    BY <2>1, FoundIs
  <2> HIDE DEF found
  <2>3. DOMAIN found = 1 .. Len(found) /\ words = {e.word : e \in Hits(str, << >>, 0)}
    BY <2>2 DEF ToSet
  <2>4. \A e \in Entries : e.word \in isTerminal
    BY <2>1, NodesAre
  <2>5. \A w \in isTerminal : w \in Paths /\ \E e \in Entries : e.word = w
    <3>1. ASSUME NEW w \in isTerminal PROVE \E e \in Entries : e.word = w
      <4> DEFINE e == [word |-> w, cnt |-> search_cnt[w]]
      <4>1. e \in Entries /\ e.word = w
        BY <2>1, NodesAre
      <4> QED
        BY <4>1
    <3>2. isTerminal \subseteq Paths
      BY <2>1, NodesAre
    <3> QED
      BY <3>1, <3>2
  <2>6. words \subseteq {w \in isTerminal : \E k \in 1 .. Len(w) : OccursAt(str, w, k)}
    <3>1. ASSUME NEW e \in Hits(str, << >>, 0)
          PROVE  e.word \in isTerminal /\ \E k \in 1 .. Len(e.word) : OccursAt(str, e.word, k)
      BY <2>1, <2>4, <2>5, <3>1, LeadsContains DEF Hits
    <3> QED
      BY <2>3, <3>1
  <2>7. {w \in isTerminal : NoFalseStart(str, w)} \subseteq words
    <3>1. ASSUME NEW w \in isTerminal, NoFalseStart(str, w) PROVE w \in words
      <4>1. PICK e \in Entries : e.word = w
        BY <2>5
      <4>2. Leads(str, << >>, 0, w)
        BY <2>1, <2>5, <3>1, StraightLeads
      <4> QED
        BY <2>3, <4>1, <4>2 DEF Hits
    <3> QED
      BY <3>1
  <2>8. \A i, j \in DOMAIN found : i < j => Before(found[i].word, found[j].word)
    <3>1. ASSUME NEW i \in DOMAIN found, NEW j \in DOMAIN found, i < j
          PROVE  Before(found[i].word, found[j].word)
      <4>1. <<found[i], found[j]>> \in Earlier
        BY <2>2, <2>3, <3>1 DEF OrderedBy
      <4> QED
        BY <4>1 DEF Earlier
    <3> QED
      BY <3>1
  <2> QED
    BY <2>6, <2>7, <2>8 DEF found
<1> QED
  BY <1>1, SearchInvCorrect, PTL

-------------------------------------------------------------------------------
(* bubbleSort *)

\* The arrays of n elements of S.
ArraysOf(S, n) == {a \in Seq(S) : Len(a) = n}

LEMMA ComparedIs ==
  ASSUME NEW S, NEW n \in Nat, NEW j \in 1 .. n - 1, NEW a \in ArraysOf(S, n)
  PROVE  /\ Compared(S, j)[a] \in ArraysOf(S, n)
         /\ OutOfOrder(a[j], a[j + 1]) =>
              /\ Compared(S, j)[a][j] = a[j + 1] /\ Compared(S, j)[a][j + 1] = a[j]
              /\ \A k \in 1 .. n : k \notin {j, j + 1} => Compared(S, j)[a][k] = a[k]
         /\ ~ OutOfOrder(a[j], a[j + 1]) => Compared(S, j)[a] = a
<1>1. a \in Seq(S) /\ Len(a) = n /\ j \in 1 .. n /\ j + 1 \in 1 .. n
  BY DEF ArraysOf
<1>2. Compared(S, j)[a] =
        IF OutOfOrder(a[j], a[j + 1]) THEN [a EXCEPT ![j] = a[j + 1], ![j + 1] = a[j]] ELSE a
  BY <1>1 DEF Compared
<1> DEFINE b == [a EXCEPT ![j] = a[j + 1], ![j + 1] = a[j]]
<1>3. b \in Seq(S) /\ Len(b) = n /\ b[j] = a[j + 1] /\ b[j + 1] = a[j]
      /\ \A k \in 1 .. n : k \notin {j, j + 1} => b[k] = a[k]
  BY <1>1
<1> QED
  BY <1>2, <1>3 DEF ArraysOf

\* f has the arrays of the inner loop.
IsTurn(f, S, n, p, a) ==
  /\ f \in [0 .. p -> ArraysOf(S, n)]
  /\ f[0] = a /\ \A j \in 1 .. p : f[j] = Compared(S, j)[f[j - 1]]
  /\ BubbleTurn(S, p)[a] = f[p]

LEMMA TurnIs ==
  ASSUME NEW S, NEW n \in Nat, NEW p \in 0 .. n - 1, NEW a \in ArraysOf(S, n)
  PROVE  \E f : IsTurn(f, S, n, p, a)
<1> DEFINE D == ArraysOf(S, n)
           T(f) == [j \in 0 .. p |-> IF j = 0 THEN a ELSE Compared(S, j)[f[j - 1]]]
           c == CHOOSE f : f = T(f)
<1>1. BubbleTurn(S, p)[a] = c[p]
  <2>1. a \in Seq(S)
    BY DEF ArraysOf
  <2> QED
    BY <2>1, Zenon DEF BubbleTurn
<1>2. \A j \in 1 .. p : \A d \in D : Compared(S, j)[d] \in D
  <2>1. \A j \in 1 .. p : j \in 1 .. n - 1
    OBVIOUS
  <2> QED
    BY <2>1, ComparedIs
<1>3. \E f : f = T(f)
  <2> DEFINE G == [j \in 1 .. p |-> [d \in D |-> Compared(S, j)[d]]]
  <2> HIDE DEF D
  <2>1. G \in [1 .. p -> [D -> D]]
    BY <1>2
  <2>2. a \in D /\ p \in Nat
    BY DEF D
  <2>3. PICK f \in [0 .. p -> D] : f[0] = a /\ \A j \in 1 .. p : f[j] = G[j][f[j - 1]]
    <3> HIDE DEF G
    <3>1. G \in Bodies(p, D)
      BY <2>1 DEF Bodies
    <3>2. \E f : IsLoop(f, p, D, a, G)
      BY <2>2, <3>1, LoopExists
    <3> QED
      BY <3>2 DEF IsLoop
  <2>4. \A j \in 1 .. p : f[j] = Compared(S, j)[f[j - 1]]
    <3>1. \A j \in 1 .. p : f[j - 1] \in D
      BY <2>3
    <3> QED
      BY <2>3, <3>1
  <2>5. f = T(f)
    BY <2>3, <2>4
  <2> QED
    BY <2>5
<1>4. c = T(c)
  BY <1>3
<1> HIDE DEF c
<1>5. c[0] = a /\ \A j \in 1 .. p : c[j] = Compared(S, j)[c[j - 1]]
  BY <1>4
<1>6. \A j \in 0 .. p : j \in {k \in 0 .. p : c[k] \in D}
  <2> DEFINE I == {k \in 0 .. p : c[k] \in D}
  <2>1. 0 \in I
    BY <1>5
  <2>2. \A j \in 1 .. p : j - 1 \in I => j \in I
    BY <1>2, <1>5
  <2>3. p \in Nat
    OBVIOUS
  <2> HIDE DEF I
  <2>4. \A j \in 0 .. p : j \in I
    BY <2>1, <2>2, <2>3, UpTo, Zenon
  <2> QED
    BY <2>4 DEF I
<1>7. c \in [0 .. p -> D]
  BY <1>4, <1>6
<1> QED
  BY <1>1, <1>5, <1>7 DEF IsTurn

\* The arrays of the outer loop, when all of arr is sorted.
LEMMA SortIs ==
  ASSUME NEW R, NEW arr \in Seq(R)
  PROVE  /\ arr \in ArraysOf(ToSet(arr), Len(arr))
         /\ \E f \in [0 .. Len(arr) -> ArraysOf(ToSet(arr), Len(arr))] :
              /\ f[0] = arr
              /\ \A i \in 1 .. Len(arr) : f[i] = BubbleTurn(ToSet(arr), Len(arr) - i)[f[i - 1]]
              /\ BubbleSort(arr, Len(arr)) = f[Len(arr)]
<1> DEFINE n == Len(arr)
           S == ToSet(arr)
           D == ArraysOf(S, n)
           T(f) == [i \in 0 .. n |-> IF i = 0 THEN arr
                                     ELSE BubbleTurn(S, Pairs(n, i - 1))[f[i - 1]]]
           c == CHOOSE f : f = T(f)
<1>0. n \in Nat /\ arr \in D
  BY DEF ArraysOf, ToSet
<1>1. BubbleSort(arr, n) = c[n]
  BY Zenon DEF BubbleSort
<1>2. \A i \in 1 .. n : Pairs(n, i - 1) = n - i /\ n - i \in 0 .. n - 1
  BY <1>0 DEF Pairs
<1> HIDE DEF n, S
<1>3. \A i \in 1 .. n : \A d \in D : BubbleTurn(S, n - i)[d] \in D
  <2> SUFFICES ASSUME NEW i \in 1 .. n, NEW d \in D PROVE BubbleTurn(S, n - i)[d] \in D
    OBVIOUS
  <2>1. PICK p \in 0 .. n - 1 : p = n - i
    BY <1>2
  <2>2. d \in ArraysOf(S, n)
    OBVIOUS
  <2>3. PICK f : IsTurn(f, S, n, p, d)
    BY <1>0, <2>2, TurnIs
  <2>4. f \in [0 .. p -> ArraysOf(S, n)] /\ BubbleTurn(S, p)[d] = f[p]
    BY <2>3 DEF IsTurn
  <2>5. p \in 0 .. p
    OBVIOUS
  <2> QED
    BY <2>1, <2>4, <2>5
<1>4. \E f : f = T(f)
  <2> DEFINE G == [i \in 1 .. n |-> [d \in D |-> BubbleTurn(S, n - i)[d]]]
  <2> HIDE DEF D
  <2>1. G \in Bodies(n, D)
    BY <1>3 DEF Bodies
  <2>2. PICK f : IsLoop(f, n, D, arr, G)
    <3> HIDE DEF G
    <3> QED
      BY <1>0, <2>1, LoopExists
  <2>3. f \in [0 .. n -> D] /\ f[0] = arr /\ \A i \in 1 .. n : f[i] = G[i][f[i - 1]]
    BY <2>2 DEF IsLoop
  <2>4. \A i \in 1 .. n : f[i] = BubbleTurn(S, n - i)[f[i - 1]]
    <3>1. \A i \in 1 .. n : f[i - 1] \in D
      BY <1>0, <2>3
    <3> QED
      BY <2>3, <3>1
  <2>5. f = T(f)
    BY <1>0, <1>2, <2>3, <2>4
  <2> QED
    BY <2>5
<1>5. c = T(c)
  BY <1>4
<1> HIDE DEF c
<1>6. c[0] = arr /\ \A i \in 1 .. n : c[i] = BubbleTurn(S, n - i)[c[i - 1]]
  <2>1. 0 \in 0 .. n /\ \A i \in 1 .. n : i \in 0 .. n /\ i # 0
    BY <1>0
  <2>2. c[0] = arr
    BY <1>5, <2>1
  <2>3. \A i \in 1 .. n : c[i] = BubbleTurn(S, Pairs(n, i - 1))[c[i - 1]]
    BY <1>5, <2>1
  <2> QED
    BY <1>2, <2>2, <2>3
<1>7. \A i \in 0 .. n : c[i] \in D
  <2> DEFINE I == {k \in 0 .. n : c[k] \in D}
  <2>1. 0 \in I
    BY <1>0, <1>6
  <2>2. \A i \in 1 .. n : i - 1 \in I => i \in I
    <3> HIDE DEF D
    <3> QED
      BY <1>0, <1>3, <1>6
  <2> HIDE DEF I
  <2>3. \A i \in 0 .. n : i \in I
    BY <1>0, <2>1, <2>2, UpTo, Zenon
  <2> QED
    BY <2>3 DEF I
<1>8. c \in [0 .. n -> D]
  BY <1>5, <1>7
<1>9. \E f \in [0 .. n -> D] :
        /\ f[0] = arr /\ \A i \in 1 .. n : f[i] = BubbleTurn(S, n - i)[f[i - 1]]
        /\ BubbleSort(arr, n) = f[n]
  BY <1>1, <1>6, <1>8
<1> QED
  BY <1>0, <1>9 DEF n, S

-------------------------------------------------------------------------------
(* What the loops do to the array. *)

\* pi says where in s the entries of b come from: each from another place, and
\* those of equal count in the order they have in s.
Arranges(pi, b, s) ==
  /\ pi \in [1 .. Len(s) -> 1 .. Len(s)]
  /\ Len(b) = Len(s)
  /\ \A k \in 1 .. Len(s) : b[k] = s[pi[k]]
  /\ \A k, l \in 1 .. Len(s) : k < l =>
       pi[k] # pi[l] /\ (b[k].cnt = b[l].cnt => pi[k] < pi[l])

Arranged(b, s) == \E pi : Arranges(pi, b, s)

LEMMA ComparedArranged ==
  ASSUME NEW R, \A r \in R : r.cnt \in Int, NEW n \in Nat, NEW s \in ArraysOf(R, n),
         NEW b \in ArraysOf(R, n), Arranged(b, s), NEW j \in 1 .. n - 1
  PROVE  Arranged(Compared(R, j)[b], s)
<1> DEFINE c == Compared(R, j)[b]
<1>1. PICK pi : Arranges(pi, b, s)
  BY DEF Arranged
<1>2. Len(s) = n /\ Len(b) = n /\ j \in 1 .. n /\ j + 1 \in 1 .. n
      /\ \A k \in 1 .. n : b[k] \in R
  BY ElementIs DEF ArraysOf
<1>3. CASE ~ OutOfOrder(b[j], b[j + 1])
  <2>1. c = b
    BY <1>3, ComparedIs
  <2> QED
    BY <2>1
<1>4. CASE OutOfOrder(b[j], b[j + 1])
  <2> DEFINE rho == [pi EXCEPT ![j] = pi[j + 1], ![j + 1] = pi[j]]
  <2>1. /\ c \in ArraysOf(R, n) /\ c[j] = b[j + 1] /\ c[j + 1] = b[j]
        /\ \A k \in 1 .. n : k \notin {j, j + 1} => c[k] = b[k]
    BY <1>4, ComparedIs
  <2> HIDE DEF c
  <2>2. pi \in [1 .. n -> 1 .. n] /\ \A k \in 1 .. n : b[k] = s[pi[k]]
    BY <1>1, <1>2 DEF Arranges
  <2>3. /\ rho \in [1 .. n -> 1 .. n] /\ rho[j] = pi[j + 1] /\ rho[j + 1] = pi[j]
        /\ \A k \in 1 .. n : k \notin {j, j + 1} => rho[k] = pi[k]
    BY <1>2, <2>2
  <2> HIDE DEF rho
  <2>4. \A k \in 1 .. n : c[k] = s[rho[k]]
    BY <1>2, <2>1, <2>2, <2>3
  <2>5. b[j].cnt \in Int /\ b[j + 1].cnt \in Int /\ b[j].cnt # b[j + 1].cnt
    BY <1>2, <1>4 DEF OutOfOrder
  <2>6. \A k, l \in 1 .. n : k < l =>
          pi[k] # pi[l] /\ (b[k].cnt = b[l].cnt => pi[k] < pi[l])
    BY <1>1, <1>2 DEF Arranges
  <2>7. ASSUME NEW k \in 1 .. n, NEW l \in 1 .. n, k < l
        PROVE  rho[k] # rho[l] /\ (c[k].cnt = c[l].cnt => rho[k] < rho[l])
    <3>1. CASE k = j /\ l = j + 1
      <4>1. j < j + 1 /\ j \in 1 .. n /\ j + 1 \in 1 .. n
        BY <1>2
      <4>2. pi[j] # pi[j + 1]
        BY <2>6, <4>1
      <4>3. rho[k] = pi[j + 1] /\ rho[l] = pi[j] /\ c[k] = b[j + 1] /\ c[l] = b[j]
        BY <2>1, <2>3, <3>1
      <4>4. c[k].cnt = b[j + 1].cnt /\ c[l].cnt = b[j].cnt
        BY <4>3
      <4> QED
        BY <2>5, <4>2, <4>3, <4>4
    <3>2. CASE k = j /\ l # j + 1
      <4>1. l \notin {j, j + 1} /\ j + 1 < l
        BY <2>7, <3>2
      <4> QED
        BY <1>2, <2>1, <2>3, <2>6, <3>2, <4>1
    <3>3. CASE k = j + 1
      <4>1. l \notin {j, j + 1} /\ j < l
        BY <2>7, <3>3
      <4> QED
        BY <1>2, <2>1, <2>3, <2>6, <3>3, <4>1
    <3>4. CASE k \notin {j, j + 1} /\ l = j
      <4>1. k < j + 1
        BY <2>7, <3>4
      <4>2. pi[k] # pi[j + 1] /\ (b[k].cnt = b[j + 1].cnt => pi[k] < pi[j + 1])
        BY <1>2, <2>6, <4>1
      <4>3. rho[k] = pi[k] /\ c[k] = b[k] /\ rho[l] = pi[j + 1] /\ c[l] = b[j + 1]
        BY <2>1, <2>3, <3>4
      <4> QED
        BY <4>2, <4>3
    <3>5. CASE k \notin {j, j + 1} /\ l = j + 1
      <4>1. k < j
        BY <2>7, <3>5
      <4>2. pi[k] # pi[j] /\ (b[k].cnt = b[j].cnt => pi[k] < pi[j])
        BY <1>2, <2>6, <4>1
      <4>3. rho[k] = pi[k] /\ c[k] = b[k] /\ rho[l] = pi[j] /\ c[l] = b[j]
        BY <2>1, <2>3, <3>5
      <4> QED
        BY <4>2, <4>3
    <3>6. CASE k \notin {j, j + 1} /\ l \notin {j, j + 1}
      BY <2>1, <2>3, <2>6, <2>7, <3>6
    <3> QED
      BY <3>1, <3>2, <3>3, <3>4, <3>5, <3>6
  <2>8. Arranges(rho, c, s)
    BY <1>2, <2>1, <2>3, <2>4, <2>7 DEF Arranges, ArraysOf
  <2> QED
    BY <2>8 DEF Arranged, c
<1> QED
  BY <1>3, <1>4

\* The last i entries of b are where they belong.
Settled(b, n, i) ==
  \A k, l \in 1 .. n : k < l /\ n - i < l => b[k].cnt >= b[l].cnt

\* Entry j + 1 is the least so far.
Carried(b, j) == \A k \in 1 .. j : b[k].cnt >= b[j + 1].cnt

LEMMA ComparedCarries ==
  ASSUME NEW R, \A r \in R : r.cnt \in Int, NEW n \in Nat, NEW i \in 1 .. n,
         NEW b \in ArraysOf(R, n), Settled(b, n, i - 1),
         NEW j \in 1 .. n - i, Carried(b, j - 1)
  PROVE  Settled(Compared(R, j)[b], n, i - 1) /\ Carried(Compared(R, j)[b], j)
<1> DEFINE c == Compared(R, j)[b]
<1>1. Len(b) = n /\ j \in 1 .. n - 1 /\ j \in 1 .. n /\ j + 1 \in 1 .. n
      /\ \A k \in 1 .. n : b[k] \in R /\ b[k].cnt \in Int
  BY ElementIs DEF ArraysOf
<1>2. \A k \in 1 .. j - 1 : b[k].cnt >= b[j].cnt
  BY DEF Carried
<1>3. CASE ~ OutOfOrder(b[j], b[j + 1])
  <2>1. c = b
    BY <1>1, <1>3, ComparedIs
  <2>2. b[j].cnt >= b[j + 1].cnt
    BY <1>1, <1>3 DEF OutOfOrder
  <2>3. ASSUME NEW k \in 1 .. j PROVE b[k].cnt >= b[j + 1].cnt
    <3>1. k \in 1 .. n /\ (k = j \/ k \in 1 .. j - 1)
      BY <1>1
    <3>2. CASE k = j
      BY <2>2, <3>2
    <3>3. CASE k \in 1 .. j - 1
      <4>1. b[k].cnt >= b[j].cnt
        BY <1>2, <3>3
      <4>2. b[k].cnt \in Int /\ b[j].cnt \in Int /\ b[j + 1].cnt \in Int
        BY <1>1, <3>1
      <4> QED
        BY <2>2, <4>1, <4>2
    <3> QED
      BY <3>1, <3>2, <3>3
  <2> QED
    BY <2>1, <2>3 DEF Carried
<1>4. CASE OutOfOrder(b[j], b[j + 1])
  <2>1. /\ c[j] = b[j + 1] /\ c[j + 1] = b[j]
        /\ \A k \in 1 .. n : k \notin {j, j + 1} => c[k] = b[k]
    <3>1. n \in Nat /\ j \in 1 .. n - 1 /\ b \in ArraysOf(R, n)
      BY <1>1
    <3> QED
      BY <1>4, <3>1, ComparedIs
  <2> HIDE DEF c
  <2>2. b[j].cnt < b[j + 1].cnt
    BY <1>4 DEF OutOfOrder
  <2>3. ASSUME NEW k \in 1 .. j PROVE c[k].cnt >= c[j + 1].cnt
    <3>1. CASE k = j
      BY <1>1, <2>1, <2>2, <3>1
    <3>2. CASE k # j
      <4>1. k \in 1 .. n /\ k \in 1 .. j - 1 /\ k # j + 1
        BY <1>1, <3>2
      <4> QED
        BY <1>1, <1>2, <2>1, <2>2, <3>2, <4>1
    <3> QED
      BY <3>1, <3>2
  <2>4. ASSUME NEW k \in 1 .. n, NEW l \in 1 .. n, k < l, n - (i - 1) < l
        PROVE  c[k].cnt >= c[l].cnt
    <3>1. j + 1 < l /\ l \notin {j, j + 1}
      BY <2>4
    <3>2. \A m \in 1 .. n : m < l => b[m].cnt >= b[l].cnt
      BY <2>4 DEF Settled
    <3>3. b[j].cnt >= b[l].cnt /\ b[j + 1].cnt >= b[l].cnt /\ b[k].cnt >= b[l].cnt
      BY <1>1, <2>4, <3>1, <3>2
    <3>4. c[l] = b[l] /\ c[k] \in {b[k], b[j], b[j + 1]}
      BY <2>1, <3>1
    <3> QED
      BY <3>3, <3>4
  <2> QED
    BY <2>3, <2>4 DEF Carried, Settled, c
<1> QED
  BY <1>3, <1>4

\* One turn of the outer loop settles one more entry.
LEMMA TurnSettles ==
  ASSUME NEW R, \A r \in R : r.cnt \in Int, NEW n \in Nat, NEW i \in 1 .. n,
         NEW s \in ArraysOf(R, n), NEW b \in ArraysOf(R, n), Arranged(b, s), Settled(b, n, i - 1)
  PROVE  /\ BubbleTurn(R, n - i)[b] \in ArraysOf(R, n)
         /\ Arranged(BubbleTurn(R, n - i)[b], s) /\ Settled(BubbleTurn(R, n - i)[b], n, i)
<1>1. PICK p \in 0 .. n - 1 : p = n - i
  OBVIOUS
<1>2. PICK f : IsTurn(f, R, n, p, b)
  BY TurnIs
<1>3. /\ f \in [0 .. p -> ArraysOf(R, n)] /\ f[0] = b
      /\ \A j \in 1 .. p : f[j] = Compared(R, j)[f[j - 1]] /\ f[j] \in ArraysOf(R, n)
      /\ BubbleTurn(R, n - i)[b] = f[p]
  BY <1>1, <1>2 DEF IsTurn
<1> DEFINE Q(j) == Arranged(f[j], s) /\ Settled(f[j], n, i - 1) /\ Carried(f[j], j)
           I == {j \in 0 .. p : Q(j)}
<1>4. 0 \in I
  BY <1>3 DEF Carried
<1>5. ASSUME NEW j \in 1 .. p, j - 1 \in I PROVE j \in I
  <2>1. /\ f[j - 1] \in ArraysOf(R, n) /\ Arranged(f[j - 1], s)
        /\ Settled(f[j - 1], n, i - 1) /\ Carried(f[j - 1], j - 1)
    BY <1>3, <1>5
  <2>2. j \in 1 .. n - i /\ j \in 1 .. n - 1
    BY <1>1
  <2>3. Arranged(f[j], s)
    BY <1>3, <2>1, <2>2, ComparedArranged
  <2>4. Settled(f[j], n, i - 1) /\ Carried(f[j], j)
    BY <1>3, <2>1, <2>2, ComparedCarries
  <2> QED
    BY <2>3, <2>4
<1>6. Q(p)
  <2> HIDE DEF I
  <2>1. \A j \in 0 .. p : j \in I
    BY <1>4, <1>5, UpTo
  <2>2. p \in 0 .. p
    OBVIOUS
  <2> QED
    BY <2>1, <2>2 DEF I
<1>7. Settled(f[p], n, i)
  <2>1. ASSUME NEW k \in 1 .. n, NEW l \in 1 .. n, k < l, n - i < l
        PROVE  f[p][k].cnt >= f[p][l].cnt
    <3>1. CASE n - (i - 1) < l
      BY <1>6, <2>1, <3>1 DEF Settled
    <3>2. CASE l = p + 1
      <4>1. k \in 1 .. p
        BY <2>1, <3>2
      <4> QED
        BY <1>6, <3>2, <4>1 DEF Carried
    <3> QED
      BY <1>1, <2>1, <3>1, <3>2
  <2> QED
    BY <2>1 DEF Settled
<1> QED
  BY <1>3, <1>6, <1>7

\* bubbleSort sorts: what it leaves has the entries of the array, the greatest
\* counts first, and those of equal count in the order they came in.
LEMMA BubbleSortCorrect ==
  ASSUME NEW R, \A r \in R : r.cnt \in Int, NEW arr \in Seq(R)
  PROVE  /\ Arranged(BubbleSort(arr, Len(arr)), arr)
         /\ BubbleSort(arr, Len(arr)) \in Seq(R)
         /\ \A k, l \in 1 .. Len(arr) : k < l =>
              BubbleSort(arr, Len(arr))[k].cnt >= BubbleSort(arr, Len(arr))[l].cnt
<1> DEFINE n == Len(arr)
           S == ToSet(arr)
           D == ArraysOf(S, n)
<1>1. PICK f \in [0 .. n -> D] :
        /\ f[0] = arr /\ \A i \in 1 .. n : f[i] = BubbleTurn(S, n - i)[f[i - 1]]
        /\ BubbleSort(arr, n) = f[n]
  BY SortIs
<1>2. arr \in D
  BY SortIs
<1>3. n \in Nat /\ S \subseteq R
  BY DEF ToSet
<1>4. \A r \in S : r.cnt \in Int
  BY <1>3
<1> HIDE DEF n, S
<1> DEFINE I == {i \in 0 .. n : Arranged(f[i], arr) /\ Settled(f[i], n, i)}
<1>5. 0 \in I
  <2>1. Len(arr) = n
    BY DEF n
  <2>2. Arranges([k \in 1 .. n |-> k], arr, arr)
    BY <1>3, <2>1 DEF Arranges
  <2>3. Settled(arr, n, 0)
    BY <1>3 DEF Settled
  <2> QED
    BY <1>1, <1>3, <2>2, <2>3 DEF Arranged
<1>6. ASSUME NEW i \in 1 .. n, i - 1 \in I PROVE i \in I
  <2>1. f[i - 1] \in D /\ Arranged(f[i - 1], arr) /\ Settled(f[i - 1], n, i - 1)
    BY <1>1, <1>6
  <2>2. Arranged(BubbleTurn(S, n - i)[f[i - 1]], arr) /\ Settled(BubbleTurn(S, n - i)[f[i - 1]], n, i)
    BY <1>2, <1>3, <1>4, <2>1, TurnSettles
  <2> QED
    BY <1>1, <2>2
<1>7. Arranged(f[n], arr) /\ Settled(f[n], n, n) /\ f[n] \in D
  <2> HIDE DEF I
  <2>1. \A i \in 0 .. n : i \in I
    BY <1>3, <1>5, <1>6, UpTo
  <2>2. n \in 0 .. n
    BY <1>3
  <2> QED
    BY <1>1, <2>1, <2>2 DEF I
<1>8. \A k, l \in 1 .. n : k < l => f[n][k].cnt >= f[n][l].cnt
  BY <1>3, <1>7 DEF Settled
<1>9. f[n] \in Seq(R)
  BY <1>3, <1>7 DEF ArraysOf
<1> QED
  BY <1>1, <1>7, <1>8, <1>9 DEF n

-------------------------------------------------------------------------------
(* Answers. *)

\* An array that is arranged has lost nothing.
LEMMA ArrangedIsAll ==
  ASSUME NEW R, NEW s \in Seq(R), NEW b, NEW pi, Arranges(pi, b, s), NEW i \in 1 .. Len(s)
  PROVE  \E k \in 1 .. Len(s) : pi[k] = i
<1> DEFINE n == Len(s)
<1>1. n \in Nat
  OBVIOUS
<1> HIDE DEF n
<1>2. pi \in [1 .. n -> 1 .. n] /\ \A k, l \in 1 .. n : k < l => pi[k] # pi[l]
  BY DEF Arranges, n
<1>3. \A k, l \in 1 .. n : pi[k] = pi[l] => k = l
  <2> SUFFICES ASSUME NEW k \in 1 .. n, NEW l \in 1 .. n, pi[k] = pi[l], k # l PROVE FALSE
    OBVIOUS
  <2>1. k < l \/ l < k
    OBVIOUS
  <2> QED
    BY <1>2, <2>1
<1>4. pi \in Injection(1 .. n, 1 .. n)
  BY <1>2, <1>3 DEF Injection, IsInjective
<1>5. IsFiniteSet(1 .. n)
  BY <1>1, FS_Interval
<1>6. pi \in Surjection(1 .. n, 1 .. n)
  BY <1>4, <1>5, FS_Injection
<1> QED
  BY <1>6 DEF Surjection, n

\* Sorting results that all differ, and sending the first of them, gives the best.
LEMMA TopIs ==
  ASSUME NEW R, \A r \in R : r.cnt \in Int, NEW s \in Seq(R),
         \A i, j \in 1 .. Len(s) : i < j => s[i] # s[j]
  PROVE  LET answer   == Answer(s)
             Place(r) == CHOOSE i \in DOMAIN s : s[i] = r
         IN
         /\ Len(answer) = Min({MaxLines, Len(s)})
         /\ ToSet(answer) \subseteq ToSet(s)
         /\ \A i, j \in DOMAIN answer : i < j =>
              \/ answer[i].cnt > answer[j].cnt
              \/ answer[i].cnt = answer[j].cnt /\ Place(answer[i]) < Place(answer[j])
         /\ \A r \in ToSet(s) \ ToSet(answer), i \in DOMAIN answer : answer[i].cnt >= r.cnt
<1> DEFINE n == Len(s)
           b == BubbleSort(s, Len(s))
           m == IF n > MaxLines THEN MaxLines ELSE n
           answer == Answer(s)
           Place(r) == CHOOSE i \in DOMAIN s : s[i] = r
<1>1. Arranged(b, s) /\ b \in Seq(R) /\ \A k, l \in 1 .. n : k < l => b[k].cnt >= b[l].cnt
  BY BubbleSortCorrect
<1>2. PICK pi : Arranges(pi, b, s)
  BY <1>1 DEF Arranged
<1>3. n \in Nat /\ MaxLines \in Nat /\ DOMAIN s = 1 .. n
  BY MaxLinesAssumption
<1>4. m \in 0 .. n
  BY <1>3
<1>5. answer = SubSeq(b, 1, m)
  BY DEF Answer, TopList
<1> HIDE DEF b
<1>6. /\ pi \in [1 .. n -> 1 .. n] /\ Len(b) = n
      /\ \A k \in 1 .. n : b[k] = s[pi[k]]
      /\ \A k, l \in 1 .. n : k < l => (b[k].cnt = b[l].cnt => pi[k] < pi[l])
  BY <1>2 DEF Arranges
<1>7. Len(answer) = m /\ DOMAIN answer = 1 .. m /\ \A k \in 1 .. m : answer[k] = b[k]
  <2> HIDE DEF n, m
  <2>1. \A k \in 1 .. m : k \in 1 .. Len(b)
    BY <1>3, <1>4, <1>6
  <2> QED
    BY <1>1, <1>3, <1>4, <1>5, <1>6, <2>1
<1>8. m = Min({MaxLines, n})
  <2> DEFINE M == Min({MaxLines, n})
  <2>1. M \in {MaxLines, n} /\ M <= MaxLines /\ M <= n
    <3>1. {MaxLines, n} \in SUBSET Nat /\ {MaxLines, n} # {}
      BY <1>3
    <3> QED
      BY <3>1, MinIs
  <2> HIDE DEF M, n
  <2>2. M = m
    BY <1>3, <2>1
  <2> QED
    BY <2>2 DEF M
<1> HIDE DEF m, answer
<1>9. \A k \in 1 .. m : k \in 1 .. n
  BY <1>3, <1>4
<1>10. \A k \in 1 .. n : b[k] \in R /\ b[k].cnt \in Int /\ pi[k] \in 1 .. n
  BY <1>1, <1>6, ElementIs
<1>11. ToSet(answer) = {b[k] : k \in 1 .. m} /\ ToSet(s) = {s[i] : i \in 1 .. n}
  BY <1>3, <1>7 DEF ToSet
<1>12. \A k \in 1 .. n : Place(b[k]) = pi[k]
  <2> SUFFICES ASSUME NEW k \in 1 .. n PROVE Place(s[pi[k]]) = pi[k]
    BY <1>6
  <2>1. \A i \in 1 .. n : s[i] = s[pi[k]] => i = pi[k]
    <3> SUFFICES ASSUME NEW i \in 1 .. n, s[i] = s[pi[k]], i # pi[k] PROVE FALSE
      OBVIOUS
    <3>1. i < pi[k] \/ pi[k] < i
      BY <1>10
    <3> QED
      BY <1>10, <3>1
  <2> QED
    BY <1>3, <1>10, <2>1
<1> HIDE DEF Place
<1>13. ToSet(answer) \subseteq ToSet(s)
  BY <1>6, <1>9, <1>10, <1>11
<1>14. ASSUME NEW i \in DOMAIN answer, NEW j \in DOMAIN answer, i < j
       PROVE  \/ answer[i].cnt > answer[j].cnt
              \/ answer[i].cnt = answer[j].cnt /\ Place(answer[i]) < Place(answer[j])
  <2>1. i \in 1 .. n /\ j \in 1 .. n /\ answer[i] = b[i] /\ answer[j] = b[j]
    BY <1>7, <1>9
  <2>2. b[i].cnt \in Int /\ b[j].cnt \in Int /\ b[i].cnt >= b[j].cnt
    BY <1>1, <1>10, <1>14, <2>1
  <2>3. b[i].cnt = b[j].cnt => Place(b[i]) < Place(b[j])
    BY <1>6, <1>12, <1>14, <2>1
  <2>4. b[i].cnt > b[j].cnt \/ b[i].cnt = b[j].cnt
    BY <2>2
  <2> QED
    BY <2>1, <2>3, <2>4
<1>15. ASSUME NEW r \in ToSet(s) \ ToSet(answer), NEW i \in DOMAIN answer
       PROVE  answer[i].cnt >= r.cnt
  <2>1. PICK k \in 1 .. n : r = b[k]
    <3>1. PICK l \in 1 .. n : r = s[l]
      BY <1>11
    <3>2. PICK k \in 1 .. n : pi[k] = l
      BY <1>2, ArrangedIsAll
    <3> QED
      BY <1>6, <3>1, <3>2
  <2>2. k \notin 1 .. m
    BY <1>11, <1>15, <2>1
  <2>3. i \in 1 .. m /\ i \in 1 .. n /\ answer[i] = b[i]
    BY <1>7, <1>9
  <2>4. i < k
    BY <1>3, <1>4, <2>2, <2>3
  <2> QED
    BY <1>1, <2>1, <2>3, <2>4
<1> QED
  BY <1>7, <1>8, <1>13, <1>14, <1>15 DEF answer, Place

\* No word comes before itself.
LEMMA NotBeforeItself ==
  ASSUME NEW w \in Paths
  PROVE  ~ Before(w, w)
<1>1. \A k \in 1 .. Len(w) : w[k] \in Int
  <2>1. Letters \subseteq Int
    BY TrieAssumption, FS_CardinalityType
  <2> QED
    BY <2>1, ElementIs DEF Paths
<1> QED
  BY <1>1 DEF Before, IsStrictPrefix

\* Whatever the trie and the query: what is sent are the best of the words found, the
\* greatest counts first, equal ones in dictionary order (server.c, bubbleSort and send_msg).
THEOREM AnswerIsTopCorrect == Spec => []AnswerIsTop
<1>1. SearchInv => AnswerIsTop
  <2> SUFFICES ASSUME SearchInv, NEW str \in Strings
               PROVE  LET found  == Found(str)
                          answer == Answer(found)
                          Place(r) == CHOOSE i \in DOMAIN found : found[i] = r
                      IN
                      /\ Len(answer) = Min({MaxLines, Len(found)})
                      /\ ToSet(answer) \subseteq ToSet(found)
                      /\ \A i, j \in DOMAIN answer : i < j =>
                           \/ answer[i].cnt > answer[j].cnt
                           \/ /\ answer[i].cnt = answer[j].cnt
                              /\ Place(answer[i]) < Place(answer[j])
                      /\ \A r \in ToSet(found) \ ToSet(answer), i \in DOMAIN answer :
                           answer[i].cnt >= r.cnt
    BY Zenon DEF AnswerIsTop
  <2> DEFINE found == Found(str)
  <2>1. str \in Paths /\ Inv /\ Shallow /\ CountsKnown
    BY LinesAre DEF SearchInv
  <2>2. found \in Seq(Entries) /\ OrderedBy(Earlier, found)
    BY <2>1, FoundIs
  <2> HIDE DEF found
  <2>3. \A e \in Entries : e.cnt \in Int /\ e.word \in Paths
    <3>1. isTerminal \subseteq Paths /\ isTerminal \subseteq nodes
      BY <2>1, NodesAre DEF Inv, Types
    <3> QED
      BY <2>1, <3>1 DEF Entries, CountsKnown
  <2>4. \A i, j \in 1 .. Len(found) : i < j => found[i] # found[j]
    <3> SUFFICES ASSUME NEW i \in 1 .. Len(found), NEW j \in 1 .. Len(found), i < j,
                        found[i] = found[j]
                 PROVE  FALSE
      OBVIOUS
    <3>1. <<found[i], found[j]>> \in Earlier
      BY <2>2 DEF OrderedBy
    <3>2. found[i] \in Entries /\ Before(found[i].word, found[i].word)
      BY <3>1 DEF Earlier
    <3> QED
      BY <2>3, <3>2, NotBeforeItself
  <2> QED
    BY <2>2, <2>3, <2>4, TopIs DEF found
<1> QED
  BY <1>1, SearchInvCorrect, PTL

================================================================================
