-------------------------- MODULE StopAndWait_proofs --------------------------
(***************************************************************************)
(* What TLAPS proves about StopAndWait, for any number of clients and      *)
(* blocks: blocks are written in order and once, as long as the network    *)
(* delivers in order, whatever it loses and however late it is; and one    *)
(* client alone gets the whole file, as long as the network does not both  *)
(* lose blocks and answer late.                                            *)
(***************************************************************************)
EXTENDS StopAndWait, SequenceTheorems, TLAPS

\* The numbers of packets.
Packets == Nat \cup {End}

\* The packets of s that are blocks come in the order of their numbers, repeated
\* ones together, and their numbers are between lo and hi.
Ordered(s, lo, hi) ==
  /\ \A j \in 1 .. Len(s) : s[j] # End => lo <= s[j] /\ s[j] <= hi
  /\ \A j, k \in 1 .. Len(s) : j < k /\ s[j] # End /\ s[k] # End => s[j] <= s[k]

\* The numbers in s grow and are not above hi.
Growing(s, hi) ==
  /\ \A j \in 1 .. Len(s) : s[j] <= hi
  /\ \A j, k \in 1 .. Len(s) : j < k => s[j] < s[k]

\* The datagrams clients send.
Datagrams == [kind : {"request", "ack"}, from : Clients, seq : Packets]

Types ==
  /\ i \in Nat
  /\ clnt_adr \in Clients \cup {Nobody}
  /\ server \notin {"listen"} => clnt_adr \in Clients
  /\ inbox \in Seq(Datagrams)
  /\ outbox \in [Clients -> Seq(Packets)]
  /\ pre_seq \in [Clients -> Packets]
  /\ copy \in [Clients -> Seq(Nat)]
  /\ swapped \in BOOLEAN

\* What is on its way to a client is ordered, from the last block it received to
\* the one the server is at, and its copy is behind that.
InOrder ==
  ~ swapped => \A c \in Clients :
    /\ Ordered(outbox[c], pre_seq[c], i)
    /\ Growing(copy[c], pre_seq[c])
    /\ pre_seq[c] <= i

Inv == Types /\ InOrder

-------------------------------------------------------------------------------
(* Sequences of packets. *)

LEMMA WithoutElements ==
  ASSUME NEW S, NEW s \in Seq(S), NEW k \in 1 .. Len(s)
  PROVE  /\ Without(s, k) \in Seq(S)
         /\ Len(Without(s, k)) = Len(s) - 1
         /\ \A j \in 1 .. Len(s) - 1 :
              Without(s, k)[j] = IF j < k THEN s[j] ELSE s[j + 1]
<1> DEFINE a == SubSeq(s, 1, k - 1)
           b == SubSeq(s, k + 1, Len(s))
<1>1. a \in Seq(S) /\ Len(a) = k - 1 /\ \A j \in 1 .. k - 1 : a[j] = s[j]
  OBVIOUS
<1>2. b \in Seq(S) /\ Len(b) = Len(s) - k /\ \A j \in 1 .. Len(s) - k : b[j] = s[j + k]
  <2>1. b = SubSeq(s, k + 1, Len(s)) /\ k + 1 \in 1 .. Len(s) + 1 /\ Len(s) \in Nat
    OBVIOUS
  <2>2. \A j \in k + 1 .. Len(s) : s[j] \in S
    OBVIOUS
  <2> QED
    BY <2>1, <2>2
<1>3. Without(s, k) = a \o b
  BY DEF Without
<1> HIDE DEF a, b
<1>4. a \o b \in Seq(S) /\ Len(a \o b) = Len(s) - 1
  <2>1. a \o b \in Seq(S) /\ Len(a \o b) = Len(a) + Len(b)
    BY <1>1, <1>2, ConcatProperties
  <2>2. Len(s) \in Nat /\ Len(a) = k - 1 /\ Len(b) = Len(s) - k
    BY <1>1, <1>2
  <2> QED
    BY <2>1, <2>2
<1>5. ASSUME NEW j \in 1 .. Len(s) - 1
      PROVE  (a \o b)[j] = IF j < k THEN s[j] ELSE s[j + 1]
  <2>1. CASE j < k
    BY <1>1, <1>2, <2>1
  <2>2. CASE ~ j < k
    <3>1. (a \o b)[j] = b[j - (k - 1)]
      BY <1>1, <1>2, <2>2
    <3>2. j - (k - 1) \in 1 .. Len(s) - k /\ j - (k - 1) + k = j + 1
      BY <2>2
    <3> QED
      BY <1>2, <2>2, <3>1, <3>2
  <2> QED
    BY <2>1, <2>2
<1> QED
  BY <1>3, <1>4, <1>5

LEMMA OrderedWithout ==
  ASSUME NEW s \in Seq(Packets), NEW k \in 1 .. Len(s), NEW lo, NEW hi, Ordered(s, lo, hi)
  PROVE  Ordered(Without(s, k), lo, hi)
<1> DEFINE w == Without(s, k)
<1>1. /\ Len(w) = Len(s) - 1
      /\ \A j \in 1 .. Len(w) : w[j] = IF j < k THEN s[j] ELSE s[j + 1]
  BY WithoutElements
<1> HIDE DEF w
<1>2. \A j \in 1 .. Len(w) : w[j] # End => lo <= w[j] /\ w[j] <= hi
  BY <1>1 DEF Ordered
<1>3. ASSUME NEW j \in 1 .. Len(w), NEW l \in 1 .. Len(w), j < l, w[j] # End, w[l] # End
      PROVE  w[j] <= w[l]
  BY <1>1, <1>3 DEF Ordered
<1> QED
  BY <1>2, <1>3 DEF Ordered, w

\* The block the server is at may follow.
LEMMA OrderedAppend ==
  ASSUME NEW s \in Seq(Packets), NEW lo \in Packets, NEW hi \in Nat, Ordered(s, lo, hi),
         lo <= hi, NEW x \in {hi, End}
  PROVE  Ordered(s \o <<x>>, lo, hi)
<1> DEFINE w == s \o <<x>>
<1>1. /\ Len(w) = Len(s) + 1
      /\ \A j \in 1 .. Len(s) : w[j] = s[j]
      /\ w[Len(s) + 1] = x
  OBVIOUS
<1> HIDE DEF w
<1>2. \A j \in 1 .. Len(w) : w[j] # End => lo <= w[j] /\ w[j] <= hi
  BY <1>1 DEF Ordered
<1>3. ASSUME NEW j \in 1 .. Len(w), NEW l \in 1 .. Len(w), j < l, w[j] # End, w[l] # End
      PROVE  w[j] <= w[l]
  BY <1>1, <1>3 DEF Ordered
<1> QED
  BY <1>2, <1>3 DEF Ordered, w

\* What follows the first block is ordered from that on.
LEMMA OrderedTail ==
  ASSUME NEW s \in Seq(Packets), s # << >>, NEW lo, NEW hi \in Nat, Ordered(s, lo, hi),
         s[1] # End
  PROVE  Ordered(Without(s, 1), s[1], hi)
<1> DEFINE w == Without(s, 1)
<1>1. /\ Len(w) = Len(s) - 1
      /\ \A j \in 1 .. Len(w) : w[j] = s[j + 1]
  BY WithoutElements
<1> HIDE DEF w
<1>2. \A j \in 1 .. Len(w) : w[j] # End => s[1] <= w[j] /\ w[j] <= hi
  BY <1>1 DEF Ordered
<1>3. ASSUME NEW j \in 1 .. Len(w), NEW l \in 1 .. Len(w), j < l, w[j] # End, w[l] # End
      PROVE  w[j] <= w[l]
  BY <1>1, <1>3 DEF Ordered
<1> QED
  BY <1>2, <1>3 DEF Ordered, w

\* A block above all others may be written.
LEMMA GrowingAppend ==
  ASSUME NEW s \in Seq(Nat), NEW hi \in Packets, NEW x \in Nat, Growing(s, hi), hi < x
  PROVE  Growing(Append(s, x), x)
<1> DEFINE w == Append(s, x)
<1>1. /\ Len(w) = Len(s) + 1
      /\ \A j \in 1 .. Len(s) : w[j] = s[j] /\ s[j] \in Nat
      /\ w[Len(s) + 1] = x
  OBVIOUS
<1> HIDE DEF w
<1>2. \A j \in 1 .. Len(w) : w[j] <= x
  BY <1>1 DEF Growing, Packets, End
<1>3. ASSUME NEW j \in 1 .. Len(w), NEW l \in 1 .. Len(w), j < l PROVE w[j] < w[l]
  BY <1>1, <1>3 DEF Growing, Packets, End
<1> QED
  BY <1>2, <1>3 DEF Growing, w

-------------------------------------------------------------------------------
(* The steps. *)

LEMMA FromClients ==
  ASSUME NEW m \in Datagrams PROVE m.from \in Clients
  BY DEF Datagrams

LEMMA SentDatagram ==
  ASSUME Types, NEW kind \in {"request", "ack"}, NEW c \in Clients, NEW seq \in Packets
  PROVE  WithDatagram([kind |-> kind, from |-> c, seq |-> seq]) \in Seq(Datagrams)
<1>1. [kind |-> kind, from |-> c, seq |-> seq] \in Datagrams
  BY DEF Datagrams
<1> QED
  BY <1>1 DEF Types, WithDatagram

LEMMA InvInit == Init => Inv
<1> SUFFICES ASSUME Init PROVE Inv
  OBVIOUS
<1>1. Types
  <2>1. inbox \in Seq(Datagrams)
    BY EmptySeq DEF Init
  <2>2. outbox \in [Clients -> Seq(Packets)] /\ copy \in [Clients -> Seq(Nat)]
    BY EmptySeq DEF Init
  <2>3. pre_seq \in [Clients -> Packets]
    BY DEF Init, Packets, End
  <2>4. swapped \in BOOLEAN
    BY DEF Init
  <2> QED
    BY <2>1, <2>2, <2>3, <2>4 DEF Init, Types
<1>2. InOrder
  <2> SUFFICES ASSUME NEW c \in Clients
               PROVE  /\ Ordered(outbox[c], pre_seq[c], i)
                      /\ Growing(copy[c], pre_seq[c])
                      /\ pre_seq[c] <= i
    BY DEF InOrder
  <2>1. outbox[c] = << >> /\ copy[c] = << >> /\ pre_seq[c] = -1 /\ i = 0
    BY DEF Init
  <2>2. Len(outbox[c]) = 0 /\ Len(copy[c]) = 0
    BY <2>1, EmptySeq
  <2> QED
    BY <2>1, <2>2 DEF Ordered, Growing
<1> QED
  BY <1>1, <1>2 DEF Inv

\* The server goes on: what is on its way to it may be anything.
LEMMA InvReceive ==
  ASSUME Inv, RecvRequest \/ RecvAck PROVE Inv'
<1>1. PICK k \in 1 .. Len(inbox) :
        Deliver(k) /\ clnt_adr' = inbox[k].from /\ inbox' = Without(inbox, k)
  BY DEF RecvRequest, RecvAck
<1>2. inbox[k] \in Datagrams /\ inbox[k].from \in Clients /\ inbox' \in Seq(Datagrams)
  BY <1>1, FromClients, WithoutElements DEF Inv, Types
<1>3. Types'
  <2>1. swapped' \in BOOLEAN
    BY <1>1 DEF Deliver
  <2>2. i' \in Nat /\ UNCHANGED <<outbox, pre_seq, copy>>
    BY DEF Inv, Types, RecvRequest, RecvAck, clientVars
  <2> QED
    BY <1>1, <1>2, <2>1, <2>2 DEF Inv, Types
<1>4. i' \in Nat /\ i <= i' /\ i \in Nat /\ UNCHANGED <<outbox, pre_seq, copy>>
  BY DEF Inv, Types, RecvRequest, RecvAck, clientVars
<1>5. InOrder'
  <2> SUFFICES ASSUME ~ swapped', NEW c \in Clients
               PROVE  /\ Ordered(outbox[c], pre_seq[c], i')
                      /\ Growing(copy[c], pre_seq[c])
                      /\ pre_seq[c] <= i'
    BY <1>4 DEF InOrder
  <2>1. ~ swapped
    BY <1>1 DEF Deliver
  <2>2. /\ Ordered(outbox[c], pre_seq[c], i)
        /\ Growing(copy[c], pre_seq[c])
        /\ pre_seq[c] <= i
    BY <2>1 DEF Inv, InOrder
  <2>3. outbox[c] \in Seq(Packets) /\ pre_seq[c] \in Packets
    BY DEF Inv, Types
  <2>4. \A j \in 1 .. Len(outbox[c]) : outbox[c][j] \in Packets
    BY <2>3
  <2> QED
    BY <1>4, <2>2, <2>3, <2>4 DEF Ordered, Packets, End
<1> QED
  BY <1>3, <1>5 DEF Inv

\* The server sends the block it is at, again or for the first time, or the end.
LEMMA InvSend ==
  ASSUME Inv, SendBlock \/ Timeout \/ SendEnd PROVE Inv'
<1>1. PICK x \in {i, End} : outbox' = WithPackets(clnt_adr, <<x>>)
  BY DEF SendBlock, Timeout, SendEnd, Repeated
<1>2. clnt_adr \in Clients /\ UNCHANGED <<i, clnt_adr, pre_seq, copy, swapped>>
  BY DEF Inv, Types, SendBlock, Timeout, SendEnd, clientVars, serverVars, history
<1>3. inbox' = inbox \/ inbox' = << >>
  BY DEF SendBlock, Timeout, SendEnd
<1>4. /\ \A c \in Clients : /\ outbox[c] \in Seq(Packets)
                            /\ outbox'[c] = outbox[c] \/ outbox'[c] = outbox[c] \o <<x>>
      /\ outbox' \in [Clients -> Seq(Packets)]
  <2>1. <<x>> \in Seq(Packets)
    BY DEF Inv, Types, Packets
  <2>2. CASE outbox' = outbox
    BY <2>2 DEF Inv, Types
  <2>3. CASE outbox' = [outbox EXCEPT ![clnt_adr] = @ \o <<x>>]
    <3>1. /\ outbox \in [Clients -> Seq(Packets)]
          /\ outbox[clnt_adr] \o <<x>> \in Seq(Packets)
      BY <1>2, <2>1, ConcatProperties DEF Inv, Types
    <3> QED
      BY <1>2, <2>3, <3>1
  <2> QED
    BY <1>1, <2>2, <2>3 DEF WithPackets
<1>5. Types'
  <2>1. inbox' \in Seq(Datagrams)
    BY <1>3, EmptySeq DEF Inv, Types
  <2> QED
    BY <1>2, <1>4, <2>1 DEF Inv, Types
<1>6. InOrder'
  BY <1>2, <1>4, OrderedAppend DEF Inv, Types, InOrder
<1> QED
  BY <1>5, <1>6 DEF Inv

LEMMA InvRecvBlock ==
  ASSUME Inv, NEW c \in Clients, RecvBlock(c) PROVE Inv'
<1>1. PICK k \in 1 .. Len(outbox[c]) :
        /\ Deliver(k)
        /\ outbox[c][k] # End
        /\ outbox' = [outbox EXCEPT ![c] = Without(@, k)]
        /\ inbox' = WithDatagram([kind |-> "ack", from |-> c, seq |-> outbox[c][k]])
        /\ copy' = [copy EXCEPT ![c] =
                      IF IsNew(c, outbox[c][k]) THEN Append(@, outbox[c][k]) ELSE @]
        /\ pre_seq' = [pre_seq EXCEPT ![c] = outbox[c][k]]
  BY DEF RecvBlock
<1> DEFINE seq == outbox[c][k]
<1>2. /\ seq \in Nat
      /\ outbox[c] \in Seq(Packets)
      /\ copy[c] \in Seq(Nat)
      /\ pre_seq[c] \in Packets
      /\ i \in Nat
      /\ UNCHANGED <<server, i, clnt_adr, client>>
  BY <1>1 DEF Inv, Types, Packets, RecvBlock, serverVars
<1>3. Types'
  <2>1. inbox' \in Seq(Datagrams)
    BY <1>1, <1>2, SentDatagram DEF Inv, Packets
  <2>2. outbox' \in [Clients -> Seq(Packets)]
    BY <1>1, <1>2, WithoutElements DEF Inv, Types
  <2>3. copy' \in [Clients -> Seq(Nat)] /\ pre_seq' \in [Clients -> Packets]
    BY <1>1, <1>2 DEF Inv, Types, Packets
  <2> QED
    BY <1>1, <1>2, <2>1, <2>2, <2>3 DEF Inv, Types, Deliver
<1>4. InOrder'
  <2> SUFFICES ASSUME ~ swapped', NEW d \in Clients
               PROVE  /\ Ordered(outbox'[d], pre_seq'[d], i)
                      /\ Growing(copy'[d], pre_seq'[d])
                      /\ pre_seq'[d] <= i
    BY <1>2 DEF InOrder
  <2>1. ~ swapped /\ k = 1
    <3>1. ~ swapped /\ ~ (k > 1)
      BY <1>1 DEF Deliver
    <3> QED
      BY <1>2, <3>1
  <2>2. /\ Ordered(outbox[d], pre_seq[d], i)
        /\ Growing(copy[d], pre_seq[d])
        /\ pre_seq[d] <= i
    BY <2>1 DEF Inv, InOrder
  <2>3. CASE d # c
    BY <1>1, <2>2, <2>3 DEF Inv, Types
  <2>4. CASE d = c
    <3>1. /\ outbox'[c] = Without(outbox[c], 1)
          /\ pre_seq'[c] = outbox[c][1]
          /\ copy'[c] = IF pre_seq[c] < seq THEN Append(copy[c], seq) ELSE copy[c]
      BY <1>1, <2>1 DEF Inv, Types, IsNew
    <3>2. /\ pre_seq[c] <= seq
          /\ seq <= i
          /\ Ordered(Without(outbox[c], 1), outbox[c][1], i)
      <4>1. 1 \in 1 .. Len(outbox[c]) /\ outbox[c] # << >> /\ seq = outbox[c][1] /\ seq # End
        BY <1>1, <1>2, <2>1
      <4>2. Ordered(outbox[c], pre_seq[c], i)
        BY <2>2, <2>4
      <4> HIDE DEF seq
      <4> QED
        BY <1>2, <4>1, <4>2, OrderedTail DEF Ordered
    <3>3. Growing(copy'[c], seq)
      <4>1. CASE pre_seq[c] < seq
        BY <1>2, <2>2, <2>4, <3>1, <4>1, GrowingAppend
      <4>2. CASE pre_seq[c] = seq
        BY <1>2, <2>2, <2>4, <3>1, <4>2
      <4> QED
        BY <1>2, <3>2, <4>1, <4>2 DEF Packets, End
    <3> QED
      BY <2>1, <2>4, <3>1, <3>2, <3>3
  <2> QED
    BY <2>3, <2>4
<1> QED
  BY <1>3, <1>4 DEF Inv

LEMMA InvClient ==
  ASSUME Inv, NEW c \in Clients, Request(c) \/ RecvEnd(c) PROVE Inv'
<1>1. CASE Request(c)
  <2>1. inbox' \in Seq(Datagrams)
    BY <1>1, SentDatagram DEF Inv, Request, Packets
  <2> QED
    BY <1>1, <2>1 DEF Inv, Types, InOrder, Request, serverVars, history
<1>2. CASE RecvEnd(c)
  <2>1. /\ outbox' = [outbox EXCEPT ![c] = << >>]
        /\ UNCHANGED <<server, i, clnt_adr, inbox, pre_seq, copy>>
        /\ swapped' \in BOOLEAN
        /\ ~ swapped' => ~ swapped
    BY <1>2 DEF RecvEnd, Deliver, serverVars, Inv, Types
  <2>2. Types'
    BY <2>1 DEF Inv, Types
  <2>3. \A d \in Clients : outbox'[d] = outbox[d] \/ outbox'[d] = << >>
    BY <2>1 DEF Inv, Types
  <2>4. \A lo, hi : Ordered(<< >>, lo, hi)
    BY DEF Ordered
  <2>5. InOrder'
    BY <2>1, <2>3, <2>4 DEF Inv, InOrder
  <2> QED
    BY <2>2, <2>5 DEF Inv
<1> QED
  BY <1>1, <1>2

LEMMA InvLose ==
  ASSUME Inv, Lose PROVE Inv'
<1>0. UNCHANGED <<server, i, clnt_adr, pre_seq, copy, swapped>>
  BY DEF Lose, serverVars, clientVars
<1>1. CASE \E k \in 1 .. Len(inbox) : inbox' = Without(inbox, k) /\ UNCHANGED outbox
  BY <1>0, <1>1, WithoutElements DEF Inv, Types, InOrder
<1>2. CASE \E c \in Clients : \E k \in 1 .. Len(outbox[c]) :
             outbox' = [outbox EXCEPT ![c] = Without(@, k)] /\ UNCHANGED inbox
  <2>0. PICK c \in Clients : \E k \in 1 .. Len(outbox[c]) :
          outbox' = [outbox EXCEPT ![c] = Without(@, k)] /\ UNCHANGED inbox
    BY <1>2
  <2>1. PICK k \in 1 .. Len(outbox[c]) :
          outbox' = [outbox EXCEPT ![c] = Without(@, k)] /\ UNCHANGED inbox
    BY <2>0
  <2>2. outbox[c] \in Seq(Packets)
    BY DEF Inv, Types
  <2>3. Types'
    BY <1>0, <2>1, <2>2, WithoutElements DEF Inv, Types
  <2>4. \A d \in Clients : outbox'[d] = IF d = c THEN Without(outbox[c], k) ELSE outbox[d]
    BY <2>1 DEF Inv, Types
  <2>5. \A lo, hi : Ordered(outbox[c], lo, hi) => Ordered(Without(outbox[c], k), lo, hi)
    BY <2>2, OrderedWithout
  <2>6. InOrder'
    BY <1>0, <2>4, <2>5 DEF Inv, InOrder
  <2> QED
    BY <2>3, <2>6 DEF Inv
<1> QED
  BY <1>1, <1>2 DEF Lose

LEMMA InvKept ==
  ASSUME Inv, OpenFile \/ UNCHANGED vars PROVE Inv'
  BY DEF Inv, Types, InOrder, OpenFile, vars, serverVars, clientVars, netVars, history

LEMMA InvStep ==
  ASSUME Inv, [Next]_vars PROVE Inv'
<1>1. CASE ServerStep
  BY <1>1, InvReceive, InvSend, InvKept DEF ServerStep
<1>2. ASSUME NEW c \in Clients, ClientStep(c) PROVE Inv'
  BY <1>2, InvRecvBlock, InvClient DEF ClientStep
<1> QED
  BY <1>1, <1>2, InvLose, InvKept DEF Next, Over

\* The inductive invariant.
THEOREM InvCorrect == Spec => []Inv
<1>1. Init => Inv
  BY InvInit
<1>2. Inv /\ [Next]_vars => Inv'
  BY InvStep
<1> QED
  BY <1>1, <1>2, PTL DEF Spec

\* No block is written twice or after a later one, by any number of clients, as
\* long as no datagram overtakes another.
THEOREM CopyInOrderCorrect == Spec => []CopyInOrder
<1>1. Inv => CopyInOrder
  BY DEF Inv, InOrder, Growing, CopyInOrder
<1> QED
  BY <1>1, InvCorrect, PTL

-------------------------------------------------------------------------------
(* One client: what is written is the beginning of the file. *)

\* The last block the server has sent.
top == IF server = "wait" THEN i ELSE i - 1

\* Whoever is heard of has been started, and nothing is sent to the others.
Started ==
  /\ server \in {"listen", "open", "crashed", "read", "wait", "done"}
  /\ client \in [Clients -> {"start", "recv", "failed", "done"}]
  /\ \A j \in 1 .. Len(inbox) : client[inbox[j].from] # "start"
  /\ clnt_adr \in Clients => client[clnt_adr] # "start"
  /\ server = "listen" => clnt_adr = Nobody
  /\ \A c \in Clients : client[c] # "recv" => outbox[c] = << >>
  /\ \A c \in Clients : client[c] \in {"start", "failed"} =>
       pre_seq[c] = -1 /\ copy[c] = << >>

\* The server stops at the end of the file.
Counter ==
  /\ server \in {"listen", "open", "crashed"} => i = 0
  /\ server = "done" => i = NBlocks
  /\ server = "wait" => i < NBlocks
  /\ i <= NBlocks

InTransfer(c) == client[c] \in {"recv", "done"}

\* Nothing is late: at most one datagram is on its way, and it is the block the
\* server waits at, its acknowledgement or the end.  The client is not behind the
\* server.
Prompt(c) ==
  /\ Len(inbox) + Len(outbox[c]) <= 1
  /\ inbox # << >> => server \in {"listen", "wait"}
  /\ outbox[c] # << >> =>
       \/ server = "wait" /\ outbox[c][1] = i
       \/ server = "done" /\ outbox[c][1] = End
  /\ i - 1 <= pre_seq[c] /\ pre_seq[c] <= top
  /\ server = "wait" /\ inbox # << >> => pre_seq[c] = i

\* No block is lost: every block between the last one received and the last one
\* sent is on its way, and the end comes after them.
Reaching(c) ==
  /\ \A j \in 1 .. Len(outbox[c]) :
       IF outbox[c][j] = End
         THEN j = Len(outbox[c]) /\ server = "done"
         ELSE outbox[c][j] <= top
  /\ pre_seq[c] <= top
  /\ \A n \in pre_seq[c] + 1 .. top : \E j \in 1 .. Len(outbox[c]) : outbox[c][j] = n

\* The copy holds the blocks up to the last one received, and all of them at the
\* end.
Straight(c) ==
  /\ Len(copy[c]) = pre_seq[c] + 1
  /\ \A j \in 1 .. Len(copy[c]) : copy[c][j] = j - 1
  /\ client[c] = "done" => server = "done" /\ pre_seq[c] = NBlocks - 1

Served(c) ==
  /\ ~ late => Prompt(c) /\ Straight(c)
  /\ "block" \notin lost => Reaching(c) /\ Straight(c)

OneServed == OneClient /\ ~ swapped => \A c \in Clients : InTransfer(c) => Served(c)

FullInv == Inv /\ Started /\ Counter /\ OneServed

LEMMA FullInit == Init => FullInv
<1> SUFFICES ASSUME Init PROVE FullInv
  OBVIOUS
<1>1. Inv
  BY InvInit
<1>2. Started /\ Counter
  BY StopAndWaitAssumption DEF Init, Started, Counter
<1>3. OneServed
  BY DEF Init, OneServed, InTransfer
<1> QED
  BY <1>1, <1>2, <1>3 DEF FullInv

-------------------------------------------------------------------------------
(* Who takes part, and how far the server is. *)

\* A client that has been started stays so.
LEMMA ClientsGoOn ==
  ASSUME Started, [Next]_vars
  PROVE  /\ \A c \in Clients : client[c] # "start" => client'[c] # "start"
         /\ OneClient' => OneClient
         /\ ~ swapped' => ~ swapped
<1>1. \A c \in Clients : client[c] # "start" => client'[c] # "start"
  <2>1. CASE client' = client
    BY <2>1
  <2>2. CASE \E d \in Clients : Request(d) \/ RecvEnd(d)
    BY <2>2 DEF Request, RecvEnd, Started
  <2> QED
    BY <2>1, <2>2
    DEF Next, ServerStep, ClientStep, RecvRequest, OpenFile, SendBlock, RecvAck, Timeout,
        SendEnd, RecvBlock, Lose, Over, vars, clientVars
<1>2. OneClient' => OneClient
  BY <1>1 DEF OneClient
<1>3. ~ swapped' => ~ swapped
  BY DEF Next, ServerStep, ClientStep, RecvRequest, OpenFile, SendBlock, RecvAck, Timeout,
         SendEnd, Request, RecvBlock, RecvEnd, Lose, Over, vars, history, Deliver
<1> QED
  BY <1>1, <1>2, <1>3

\* The only client is the one the server knows.
LEMMA OnlyOne ==
  ASSUME Started, Types, OneClient, NEW c \in Clients, client[c] # "start"
  PROVE  /\ \A d \in Clients : client[d] # "start" => d = c
         /\ clnt_adr \in Clients => clnt_adr = c
         /\ server # "listen" => clnt_adr = c
         /\ \A j \in 1 .. Len(inbox) : inbox[j].from = c
<1>1. \A d \in Clients : client[d] # "start" => d = c
  BY DEF OneClient
<1>2. clnt_adr \in Clients => clnt_adr = c
  BY <1>1 DEF Started
<1>3. server # "listen" => clnt_adr = c
  BY <1>2 DEF Types
<1>4. \A j \in 1 .. Len(inbox) : inbox[j].from \in Clients
  BY FromClients DEF Types
<1> QED
  BY <1>1, <1>2, <1>3, <1>4 DEF Started

LEMMA CounterStep == FullInv /\ [Next]_vars => Counter'
<1> SUFFICES ASSUME FullInv, [Next]_vars PROVE Counter'
  OBVIOUS
<1> USE DEF Counter
<1>0. i \in Nat /\ NBlocks \in Nat \ {0} /\ Counter
  BY StopAndWaitAssumption DEF FullInv, Inv, Types
<1>1. CASE UNCHANGED <<server, i>>
  BY <1>0, <1>1
<1>2. CASE RecvRequest \/ OpenFile \/ SendBlock \/ RecvAck \/ SendEnd
  BY <1>0, <1>2 DEF RecvRequest, OpenFile, SendBlock, RecvAck, SendEnd, MoreBlocks
<1> QED
  BY <1>1, <1>2
  DEF Next, ServerStep, ClientStep, Timeout, Request, RecvBlock, RecvEnd, Lose, Over,
      vars, serverVars

\* What is sent to the server comes from somebody who has been started.
LEMMA SentBy ==
  ASSUME Started, Types, NEW kind \in {"request", "ack"}, NEW c \in Clients,
         NEW seq \in Packets,
         inbox' = WithDatagram([kind |-> kind, from |-> c, seq |-> seq]),
         client'[c] # "start",
         \A d \in Clients : client[d] # "start" => client'[d] # "start"
  PROVE  \A j \in 1 .. Len(inbox') : client'[inbox'[j].from] # "start"
<1> DEFINE m == [kind |-> kind, from |-> c, seq |-> seq]
<1>1. m.from = c /\ m \in Datagrams
  BY DEF Datagrams
<1> HIDE DEF m
<1>2. \A j \in 1 .. Len(inbox) : inbox[j].from \in Clients
  BY FromClients DEF Types
<1>3. inbox \in Seq(Datagrams)
  BY DEF Types
<1>4. inbox' = inbox \/ inbox' = Append(inbox, m)
  BY DEF WithDatagram, m
<1>5. CASE inbox' = inbox
  BY <1>2, <1>5 DEF Started
<1>6. CASE inbox' = Append(inbox, m)
  <2>1. Len(inbox') = Len(inbox) + 1 /\ inbox'[Len(inbox) + 1] = m
    BY <1>1, <1>3, <1>6
  <2>2. \A j \in 1 .. Len(inbox) : inbox'[j] = inbox[j]
    BY <1>1, <1>3, <1>6
  <2> SUFFICES ASSUME NEW j \in 1 .. Len(inbox') PROVE client'[inbox'[j].from] # "start"
    OBVIOUS
  <2>3. Len(inbox) \in Nat
    BY <1>3
  <2>4. CASE j = Len(inbox) + 1
    BY <1>1, <2>1, <2>4
  <2>5. CASE j \in 1 .. Len(inbox)
    BY <1>2, <2>2, <2>5 DEF Started
  <2> QED
    BY <2>1, <2>3, <2>4, <2>5
<1> QED
  BY <1>4, <1>5, <1>6

LEMMA StartedStep == FullInv /\ [Next]_vars => Started'
<1> SUFFICES ASSUME FullInv, [Next]_vars PROVE Started'
  OBVIOUS
<1>0. Types /\ Started
  BY DEF FullInv, Inv
<1>1. \A c \in Clients : client[c] # "start" => client'[c] # "start"
  BY <1>0, ClientsGoOn
\* Steps in which no client moves and nothing new is sent to the server.
<1>2. ASSUME UNCHANGED <<client, pre_seq, copy>>,
             server' \in {"listen", "open", "crashed", "read", "wait", "done"},
             \A j \in 1 .. Len(inbox') : client[inbox'[j].from] # "start",
             clnt_adr' \in Clients => client[clnt_adr'] # "start",
             server' = "listen" => clnt_adr' = Nobody,
             \A c \in Clients : client[c] # "recv" => outbox'[c] = << >>
      PROVE  Started'
  BY <1>0, <1>2 DEF Started
<1>3. ASSUME NEW k \in 1 .. Len(inbox), inbox' = Without(inbox, k)
      PROVE  \A j \in 1 .. Len(inbox') : client[inbox'[j].from] # "start"
  <2>1. inbox \in Seq(Datagrams)
    BY <1>0 DEF Types
  <2>2. /\ Len(inbox') = Len(inbox) - 1
        /\ \A j \in 1 .. Len(inbox') : inbox'[j] = IF j < k THEN inbox[j] ELSE inbox[j + 1]
    BY <1>3, <2>1, WithoutElements
  <2>3. Len(inbox) \in Nat
    BY <2>1
  <2> QED
    BY <1>0, <2>2, <2>3 DEF Started
<1>4. CASE RecvRequest \/ RecvAck
  <2>1. PICK k \in 1 .. Len(inbox) : clnt_adr' = inbox[k].from /\ inbox' = Without(inbox, k)
    BY <1>4 DEF RecvRequest, RecvAck
  <2>2. \A j \in 1 .. Len(inbox') : client[inbox'[j].from] # "start"
    BY <1>3, <2>1
  <2>3. client[clnt_adr'] # "start"
    BY <1>0, <2>1 DEF Started
  <2>4. server' \in {"open", "read"} /\ UNCHANGED <<client, pre_seq, copy, outbox>>
    BY <1>4 DEF RecvRequest, RecvAck, clientVars
  <2> QED
    BY <1>0, <1>2, <2>2, <2>3, <2>4 DEF Started
<1>5. CASE OpenFile
  <2>1. UNCHANGED <<client, pre_seq, copy, outbox, inbox, clnt_adr>>
    BY <1>5 DEF OpenFile, netVars, clientVars
  <2>2. server' \in {"read", "crashed"}
    BY <1>5 DEF OpenFile
  <2> QED
    BY <1>0, <1>2, <2>1, <2>2 DEF Started
<1>6. CASE SendBlock \/ Timeout \/ SendEnd
  <2>1. PICK ps : outbox' = WithPackets(clnt_adr, ps)
    BY <1>6 DEF SendBlock, Timeout, SendEnd
  <2>2. UNCHANGED <<client, pre_seq, copy, clnt_adr>> /\ server' \in {"wait", "done"}
    BY <1>6 DEF SendBlock, Timeout, SendEnd, serverVars, clientVars
  <2>3. inbox' = inbox \/ inbox' = << >>
    BY <1>6 DEF SendBlock, Timeout, SendEnd
  <2>4. clnt_adr \in Clients /\ client[clnt_adr] # "start" /\ outbox \in [Clients -> Seq(Packets)]
    BY <1>0, <1>6 DEF SendBlock, Timeout, SendEnd, Types, Started
  <2>5. \A c \in Clients : client[c] # "recv" => outbox'[c] = outbox[c]
    BY <1>0, <2>1, <2>4 DEF WithPackets, Closed, Started
  <2>6. \A j \in 1 .. Len(inbox') : client[inbox'[j].from] # "start"
    BY <1>0, <2>3 DEF Started
  <2> QED
    BY <1>0, <1>2, <2>2, <2>4, <2>5, <2>6 DEF Started
<1>7. ASSUME NEW c \in Clients, Request(c) PROVE Started'
  <2>1. UNCHANGED <<server, clnt_adr, outbox, pre_seq, copy>>
    BY <1>7 DEF Request, serverVars
  <2>2. /\ client[c] = "start"
        /\ client' \in [Clients -> {"start", "recv", "failed", "done"}]
        /\ client'[c] \in {"recv", "failed"}
        /\ \A d \in Clients : d # c => client'[d] = client[d]
    BY <1>0, <1>7 DEF Request, Started
  <2>3. End \in Packets
    BY DEF Packets
  <2>4. \A j \in 1 .. Len(inbox') : client'[inbox'[j].from] # "start"
    BY <1>0, <1>1, <1>7, <2>2, <2>3, SentBy DEF Request
  <2>5. \A d \in Clients : client'[d] # "recv" => outbox[d] = << >>
    BY <1>0, <2>2 DEF Started
  <2>6. \A d \in Clients : client'[d] \in {"start", "failed"} =>
          pre_seq[d] = -1 /\ copy[d] = << >>
    BY <1>0, <2>2 DEF Started
  <2>7. clnt_adr \in Clients => client'[clnt_adr] # "start"
    BY <1>0, <1>1 DEF Started
  <2> QED
    BY <1>0, <2>1, <2>2, <2>4, <2>5, <2>6, <2>7 DEF Started
<1>8. ASSUME NEW c \in Clients, RecvBlock(c) PROVE Started'
  <2>1. PICK k \in 1 .. Len(outbox[c]) :
          /\ outbox' = [outbox EXCEPT ![c] = Without(@, k)]
          /\ inbox' = WithDatagram([kind |-> "ack", from |-> c, seq |-> outbox[c][k]])
          /\ copy' = [copy EXCEPT ![c] =
                        IF IsNew(c, outbox[c][k]) THEN Append(@, outbox[c][k]) ELSE @]
          /\ pre_seq' = [pre_seq EXCEPT ![c] = outbox[c][k]]
    BY <1>8 DEF RecvBlock
  <2>2. client[c] = "recv" /\ UNCHANGED <<server, clnt_adr, client>>
    BY <1>8 DEF RecvBlock, serverVars
  <2>3. outbox[c][k] \in Packets
    BY <1>0, <2>1 DEF Types
  <2>4. \A j \in 1 .. Len(inbox') : client'[inbox'[j].from] # "start"
    BY <1>0, <1>1, <2>1, <2>2, <2>3, SentBy
  <2>5. \A d \in Clients : d # c =>
          outbox'[d] = outbox[d] /\ pre_seq'[d] = pre_seq[d] /\ copy'[d] = copy[d]
    BY <1>0, <2>1 DEF Types
  <2> QED
    BY <1>0, <2>2, <2>4, <2>5 DEF Started
<1>9. ASSUME NEW c \in Clients, RecvEnd(c) PROVE Started'
  <2>1. UNCHANGED <<server, clnt_adr, inbox, pre_seq, copy>>
    BY <1>9 DEF RecvEnd, serverVars
  <2>2. /\ client' \in [Clients -> {"start", "recv", "failed", "done"}]
        /\ client'[c] = "done" /\ outbox'[c] = << >>
        /\ \A d \in Clients : d # c => client'[d] = client[d] /\ outbox'[d] = outbox[d]
    BY <1>0, <1>9 DEF RecvEnd, Started, Types
  <2>3. \A j \in 1 .. Len(inbox) : inbox[j].from \in Clients
    BY <1>0, FromClients DEF Types
  <2>4. \A j \in 1 .. Len(inbox) : client'[inbox[j].from] # "start"
    BY <1>0, <1>1, <2>3 DEF Started
  <2>5. clnt_adr \in Clients => client'[clnt_adr] # "start"
    BY <1>0, <1>1 DEF Started
  <2> QED
    BY <1>0, <2>1, <2>2, <2>4, <2>5 DEF Started
<1>10. CASE Lose
  <2>1. UNCHANGED <<server, clnt_adr, client, pre_seq, copy>>
    BY <1>10 DEF Lose, serverVars, clientVars
  <2>2. CASE \E k \in 1 .. Len(inbox) : inbox' = Without(inbox, k) /\ UNCHANGED outbox
    <3>1. \A j \in 1 .. Len(inbox') : client[inbox'[j].from] # "start"
      BY <1>3, <2>2
    <3> QED
      BY <1>0, <1>2, <2>1, <2>2, <3>1 DEF Started
  <2>3. CASE \E c \in Clients : \E k \in 1 .. Len(outbox[c]) :
               outbox' = [outbox EXCEPT ![c] = Without(@, k)] /\ UNCHANGED inbox
    <3>1. PICK c \in Clients : \E k \in 1 .. Len(outbox[c]) :
            outbox' = [outbox EXCEPT ![c] = Without(@, k)] /\ UNCHANGED inbox
      BY <2>3
    <3>2. \A d \in Clients : d # c => outbox'[d] = outbox[d]
      BY <1>0, <3>1 DEF Types
    <3>3. outbox[c] # << >>
      BY <3>1
    <3>4. client[c] = "recv"
      BY <1>0, <3>3 DEF Started
    <3> QED
      BY <1>0, <1>2, <2>1, <3>1, <3>2, <3>4 DEF Started
  <2> QED
    BY <1>10, <2>2, <2>3 DEF Lose
<1>11. CASE UNCHANGED vars
  BY <1>0, <1>11 DEF Started, vars, serverVars, clientVars, netVars
<1> QED
  BY <1>4, <1>5, <1>6, <1>7, <1>8, <1>9, <1>10, <1>11
  DEF Next, ServerStep, ClientStep, Over

-------------------------------------------------------------------------------
(* What the one client gets. *)

\* A client that is done has a server that is done.
LEMMA NotDone ==
  ASSUME NEW c \in Clients, Served(c), ~ late \/ "block" \notin lost, InTransfer(c),
         server # "done"
  PROVE  client[c] = "recv"
  BY DEF Served, Straight, InTransfer

\* The server takes what it gets as the acknowledgement and goes on.
LEMMA ServedReceive ==
  ASSUME FullInv, RecvRequest \/ RecvAck, OneClient, ~ swapped',
         NEW c \in Clients, InTransfer(c), Served(c)
  PROVE  Served(c)'
<1> USE DEF Served
<1>0. /\ i \in Nat /\ inbox \in Seq(Datagrams) /\ outbox[c] \in Seq(Packets)
      /\ pre_seq[c] \in Packets
  BY DEF FullInv, Inv, Types
<1>1. PICK k \in 1 .. Len(inbox) : inbox' = Without(inbox, k)
  BY DEF RecvRequest, RecvAck
<1>2. UNCHANGED <<client, pre_seq, copy, outbox, lost, late>>
  BY DEF RecvRequest, RecvAck, clientVars, Deliver
<1>3. /\ Len(inbox') = Len(inbox) - 1
      /\ inbox' \in Seq(Datagrams)
      /\ inbox # << >> /\ Len(inbox) \in Nat /\ Len(inbox) # 0
  BY <1>0, <1>1, WithoutElements
<1>4. top' = top /\ server # "done" /\ server' \in {"open", "read"}
  BY <1>0 DEF RecvRequest, RecvAck, top
<1>5. ASSUME ~ late PROVE Prompt(c)'
  <2>1. Prompt(c)
    BY <1>5
  <2>2. Len(inbox) + Len(outbox[c]) <= 1 /\ Len(outbox[c]) \in Nat
    BY <1>0, <2>1 DEF Prompt
  <2>3. Len(inbox') = 0 /\ Len(outbox[c]) = 0
    BY <1>3, <2>2
  <2>4. inbox' = << >> /\ outbox[c] = << >>
    BY <1>0, <1>3, <2>3
  <2>5. i' - 1 <= pre_seq[c] /\ pre_seq[c] <= top'
    BY <1>0, <1>3, <1>4, <2>1 DEF Prompt, RecvRequest, RecvAck
  <2> QED
    BY <1>2, <1>4, <2>3, <2>4, <2>5 DEF Prompt
<1>6. ASSUME Reaching(c) PROVE Reaching(c)'
  BY <1>2, <1>4, <1>6 DEF Reaching
<1>7. ASSUME Straight(c) PROVE Straight(c)'
  BY <1>2, <1>4, <1>7 DEF Straight
<1> QED
  BY <1>2, <1>5, <1>6, <1>7

\* The server sends the last block, again or for the first time.
LEMMA ServedSend ==
  ASSUME FullInv, SendBlock \/ Timeout, OneClient,
         NEW c \in Clients, InTransfer(c), Served(c)
  PROVE  Served(c)'
<1> USE DEF Served
<1>0. /\ i \in Nat /\ inbox \in Seq(Datagrams) /\ outbox[c] \in Seq(Packets)
      /\ outbox \in [Clients -> Seq(Packets)]
      /\ pre_seq[c] \in Packets /\ Started /\ Types
  BY DEF FullInv, Inv, Types
<1>1. clnt_adr = c
  BY <1>0, OnlyOne DEF InTransfer, SendBlock, Timeout
<1>2. /\ UNCHANGED <<i, inbox, client, pre_seq, copy, lost>>
      /\ server # "done" /\ server' = "wait"
  BY DEF SendBlock, Timeout, serverVars, clientVars, history
<1>3. outbox' = WithPackets(c, <<i>>)
  BY <1>1 DEF SendBlock, Timeout, Repeated
<1>4. ~ late' => ~ late
  BY DEF SendBlock, Timeout, history
<1> SUFFICES ASSUME ~ late' \/ "block" \notin lost PROVE Served(c)'
  BY <1>2
<1>5. client[c] = "recv" /\ Straight(c)
  BY <1>2, <1>4, NotDone
<1>6. outbox'[c] = outbox[c] \o <<i>>
  BY <1>0, <1>3, <1>5 DEF WithPackets, Closed
<1>7. /\ Len(outbox'[c]) = Len(outbox[c]) + 1
      /\ \A j \in 1 .. Len(outbox[c]) : outbox'[c][j] = outbox[c][j]
      /\ outbox'[c][Len(outbox[c]) + 1] = i
      /\ Len(outbox[c]) \in Nat
  BY <1>0, <1>6
<1>8. top' = i /\ top <= i /\ top \in Int /\ (top = i \/ top = i - 1)
  BY <1>0, <1>2 DEF top
<1>9. Straight(c)'
  BY <1>2, <1>5 DEF Straight
<1>10. ASSUME ~ late' PROVE Prompt(c)'
  <2>1. Prompt(c)
    BY <1>4, <1>10
  <2>2. inbox = << >> /\ outbox[c] = << >>
    <3>1. CASE SendBlock
      BY <2>1, <3>1 DEF SendBlock, Prompt
    <3>2. CASE Timeout
      BY <1>1, <1>10, <3>2 DEF Timeout
    <3> QED
      BY <3>1, <3>2
  <2>3. Len(outbox'[c]) = 1 /\ outbox'[c][1] = i /\ Len(inbox) = 0
    BY <1>7, <2>2
  <2>4. i - 1 <= pre_seq[c] /\ pre_seq[c] <= i
    BY <1>0, <1>8, <2>1 DEF Prompt, Packets, End
  <2> QED
    BY <1>2, <1>8, <2>2, <2>3, <2>4 DEF Prompt
<1>11. ASSUME "block" \notin lost PROVE Reaching(c)'
  <2>1. Reaching(c)
    BY <1>11
  <2>2. \A j \in 1 .. Len(outbox[c]) : outbox[c][j] # End /\ outbox[c][j] <= top
    BY <1>2, <2>1 DEF Reaching
  <2>3. \A j \in 1 .. Len(outbox[c]) : outbox[c][j] \in Packets
    BY <1>0
  <2>4. \A j \in 1 .. Len(outbox'[c]) : outbox'[c][j] # End /\ outbox'[c][j] <= top'
    <3> SUFFICES ASSUME NEW j \in 1 .. Len(outbox'[c])
                 PROVE  outbox'[c][j] # End /\ outbox'[c][j] <= i
      BY <1>8
    <3>1. CASE j = Len(outbox[c]) + 1
      BY <1>0, <1>7, <3>1 DEF End
    <3>2. CASE j \in 1 .. Len(outbox[c])
      BY <1>0, <1>7, <1>8, <2>2, <2>3, <3>2 DEF Packets, End
    <3> QED
      BY <1>7, <3>1, <3>2
  <2>5. pre_seq[c] <= top'
    BY <1>0, <1>8, <2>1 DEF Reaching, Packets, End
  <2>6. ASSUME NEW n \in pre_seq[c] + 1 .. top'
        PROVE  \E j \in 1 .. Len(outbox'[c]) : outbox'[c][j] = n
    <3>1. CASE n = i
      BY <1>7, <3>1
    <3>2. CASE n # i
      <4>1. n \in pre_seq[c] + 1 .. top
        BY <1>0, <1>8, <2>6, <3>2 DEF Packets, End
      <4>2. PICK j \in 1 .. Len(outbox[c]) : outbox[c][j] = n
        BY <2>1, <4>1 DEF Reaching
      <4> QED
        BY <1>7, <4>2
    <3> QED
      BY <3>1, <3>2
  <2> QED
    BY <1>2, <2>4, <2>5, <2>6 DEF Reaching
<1> QED
  BY <1>2, <1>9, <1>10, <1>11

\* The end follows the last block.
LEMMA ServedSendEnd ==
  ASSUME FullInv, SendEnd, OneClient, NEW c \in Clients, InTransfer(c), Served(c)
  PROVE  Served(c)'
<1> USE DEF Served
<1>0. /\ i \in Nat /\ outbox[c] \in Seq(Packets) /\ outbox \in [Clients -> Seq(Packets)]
      /\ pre_seq[c] \in Packets /\ Started /\ Types
  BY DEF FullInv, Inv, Types
<1>1. clnt_adr = c
  BY <1>0, OnlyOne DEF InTransfer, SendEnd
<1>2. /\ UNCHANGED <<i, client, pre_seq, copy, lost, late>>
      /\ server = "read" /\ server' = "done" /\ inbox' = << >> /\ top' = top
  BY DEF SendEnd, clientVars, history, top
<1>3. outbox' = WithPackets(c, <<End>>)
  BY <1>1 DEF SendEnd
<1> SUFFICES ASSUME ~ late \/ "block" \notin lost PROVE Served(c)'
  BY <1>2
<1>5. client[c] = "recv" /\ Straight(c)
  BY <1>2, NotDone
<1>6. outbox'[c] = outbox[c] \o <<End>>
  BY <1>0, <1>3, <1>5 DEF WithPackets, Closed
<1>7. /\ Len(outbox'[c]) = Len(outbox[c]) + 1
      /\ \A j \in 1 .. Len(outbox[c]) : outbox'[c][j] = outbox[c][j]
      /\ outbox'[c][Len(outbox[c]) + 1] = End
      /\ Len(outbox[c]) \in Nat
  BY <1>0, <1>6
<1>8. Straight(c)'
  BY <1>2, <1>5 DEF Straight
<1>9. ASSUME ~ late PROVE Prompt(c)'
  <2>1. Prompt(c)
    BY <1>9
  <2>2. outbox[c] = << >>
    BY <1>2, <2>1 DEF Prompt
  <2>3. Len(outbox'[c]) = 1 /\ outbox'[c][1] = End /\ Len(inbox') = 0
    BY <1>2, <1>7, <2>2
  <2> QED
    BY <1>2, <2>1, <2>3 DEF Prompt
<1>10. ASSUME "block" \notin lost PROVE Reaching(c)'
  <2>1. Reaching(c)
    BY <1>10
  <2>2. \A j \in 1 .. Len(outbox[c]) : outbox[c][j] # End /\ outbox[c][j] <= top
    BY <1>2, <2>1 DEF Reaching
  <2>3. ASSUME NEW j \in 1 .. Len(outbox'[c])
        PROVE  IF outbox'[c][j] = End
                 THEN j = Len(outbox'[c]) /\ server' = "done"
                 ELSE outbox'[c][j] <= top'
    <3>1. CASE j = Len(outbox[c]) + 1
      BY <1>2, <1>7, <3>1
    <3>2. CASE j \in 1 .. Len(outbox[c])
      BY <1>2, <1>7, <2>2, <3>2
    <3> QED
      BY <1>7, <3>1, <3>2
  <2>4. ASSUME NEW n \in pre_seq[c] + 1 .. top'
        PROVE  \E j \in 1 .. Len(outbox'[c]) : outbox'[c][j] = n
    <3>1. PICK j \in 1 .. Len(outbox[c]) : outbox[c][j] = n
      BY <1>2, <2>1, <2>4 DEF Reaching
    <3> QED
      BY <1>7, <3>1
  <2> QED
    BY <1>2, <2>1, <2>3, <2>4 DEF Reaching
<1> QED
  BY <1>2, <1>8, <1>9, <1>10

\* A client starts: it is the only one, and the server has not begun.
LEMMA ServedRequest ==
  ASSUME FullInv, NEW d \in Clients, Request(d), OneClient',
         NEW c \in Clients, InTransfer(c)'
  PROVE  Served(c)'
<1>0. /\ Started /\ Types /\ Counter /\ inbox \in Seq(Datagrams)
      /\ client \in [Clients -> {"start", "recv", "failed", "done"}]
  BY DEF FullInv, Inv, Types, Started
<1>1. /\ UNCHANGED <<server, i, clnt_adr, outbox, pre_seq, copy, lost, late>>
      /\ client[d] = "start" /\ client'[d] # "start"
      /\ \A e \in Clients : e # d => client'[e] = client[e]
      /\ client'[d] \in {"recv", "failed"}
  BY <1>0 DEF Request, serverVars, history
<1>2. c = d /\ \A e \in Clients : client[e] = "start"
  BY <1>1 DEF OneClient, InTransfer
<1>3. clnt_adr \notin Clients /\ server = "listen" /\ i = 0 /\ top = -1
  BY <1>0, <1>2 DEF Started, Types, Counter, top
<1>4. inbox = << >>
  <2> SUFFICES ASSUME inbox # << >> PROVE FALSE
    OBVIOUS
  <2>1. 1 \in 1 .. Len(inbox) /\ inbox[1] \in Datagrams
    BY <1>0
  <2> QED
    BY <1>0, <1>2, <2>1, FromClients DEF Started
<1>5. Len(inbox') = 1
  <2> DEFINE m == [kind |-> "request", from |-> d, seq |-> End]
  <2>1. inbox' = Append(inbox, m)
    BY <1>3 DEF Request, WithDatagram
  <2> HIDE DEF m
  <2> QED
    BY <1>4, <2>1
<1>6. client'[c] = "recv" /\ pre_seq[c] = -1 /\ copy[c] = << >> /\ outbox[c] = << >>
  BY <1>0, <1>1, <1>2 DEF InTransfer, Started
<1>7. top' = -1
  BY <1>1, <1>3 DEF top
<1>8. Prompt(c)'
  BY <1>1, <1>3, <1>5, <1>6, <1>7 DEF Prompt
<1>9. Reaching(c)'
  BY <1>1, <1>6, <1>7 DEF Reaching
<1>10. Straight(c)'
  BY <1>1, <1>6 DEF Straight
<1> QED
  BY <1>8, <1>9, <1>10 DEF Served

\* The client gets the block after the last one, or the last one again.
LEMMA ServedBlock ==
  ASSUME FullInv, NEW d \in Clients, RecvBlock(d), OneClient, ~ swapped, ~ swapped',
         NEW c \in Clients, InTransfer(c), Served(c)
  PROVE  Served(c)'
<1> USE DEF Served
<1>0. /\ Started /\ Types /\ i \in Nat /\ inbox \in Seq(Datagrams)
      /\ outbox[c] \in Seq(Packets) /\ copy[c] \in Seq(Nat) /\ pre_seq[c] \in Packets
  BY DEF FullInv, Inv, Types
<1>1. c = d /\ client[c] = "recv"
  BY <1>0 DEF RecvBlock, OneClient, InTransfer
<1>2. PICK k \in 1 .. Len(outbox[c]) :
        /\ Deliver(k)
        /\ outbox[c][k] # End
        /\ outbox' = [outbox EXCEPT ![c] = Without(@, k)]
        /\ inbox' = WithDatagram([kind |-> "ack", from |-> c, seq |-> outbox[c][k]])
        /\ copy' = [copy EXCEPT ![c] =
                      IF IsNew(c, outbox[c][k]) THEN Append(@, outbox[c][k]) ELSE @]
        /\ pre_seq' = [pre_seq EXCEPT ![c] = outbox[c][k]]
  BY <1>1 DEF RecvBlock
<1>3. k = 1
  <2>1. ~ (k > 1)
    BY <1>2 DEF Deliver
  <2> QED
    BY <1>0, <2>1
<1>4. PICK seq \in Nat : seq = outbox[c][1]
  BY <1>0, <1>2, <1>3 DEF Packets
<1>5. /\ outbox'[c] = Without(outbox[c], 1)
      /\ pre_seq'[c] = seq
      /\ copy'[c] = IF pre_seq[c] < seq THEN Append(copy[c], seq) ELSE copy[c]
  BY <1>2, <1>3, <1>4 DEF FullInv, Inv, Types, IsNew
<1>6. UNCHANGED <<server, i, client, lost, late>> /\ top' = top /\ top \in Int
  BY <1>0, <1>2 DEF RecvBlock, serverVars, Deliver, top
<1>7. /\ 1 \in 1 .. Len(outbox[c])
      /\ outbox[c] # << >>
      /\ Len(outbox'[c]) = Len(outbox[c]) - 1
      /\ \A j \in 1 .. Len(outbox[c]) - 1 : outbox'[c][j] = outbox[c][j + 1]
      /\ Len(outbox[c]) \in Nat
  <2>1. 1 \in 1 .. Len(outbox[c]) /\ Len(outbox[c]) \in Nat
    BY <1>0, <1>2, <1>3
  <2>2. /\ Len(outbox'[c]) = Len(outbox[c]) - 1
        /\ \A j \in 1 .. Len(outbox[c]) - 1 :
             outbox'[c][j] = IF j < 1 THEN outbox[c][j] ELSE outbox[c][j + 1]
    BY <1>0, <1>5, <2>1, WithoutElements
  <2>3. \A j \in 1 .. Len(outbox[c]) - 1 : outbox'[c][j] = outbox[c][j + 1]
    BY <2>1, <2>2
  <2>4. outbox[c] # << >>
    BY <2>1
  <2> QED
    BY <2>1, <2>2, <2>3, <2>4
<1>8. /\ pre_seq[c] <= seq
      /\ \A j \in 1 .. Len(outbox[c]) : outbox[c][j] # End => seq <= outbox[c][j]
  <2>1. Ordered(outbox[c], pre_seq[c], i)
    BY DEF FullInv, Inv, InOrder
  <2>2. seq # End
    BY <1>4 DEF End
  <2> QED
    BY <1>0, <1>4, <1>7, <2>1, <2>2 DEF Ordered
<1>9. ASSUME Prompt(c) PROVE Prompt(c)' /\ seq <= pre_seq[c] + 1
  <2>1. server = "wait" /\ seq = i /\ top = i
    BY <1>4, <1>7, <1>9 DEF Prompt, top, End
  <2>2. Len(inbox) = 0 /\ Len(outbox[c]) = 1
    <3>1. Len(inbox) \in Nat /\ Len(inbox) + Len(outbox[c]) <= 1
      BY <1>0, <1>9 DEF Prompt
    <3>2. Len(outbox[c]) \in Nat /\ Len(outbox[c]) >= 1
      BY <1>7
    <3> DEFINE a == Len(inbox)
               b == Len(outbox[c])
    <3>3. a \in Nat /\ b \in Nat /\ a + b <= 1 /\ b >= 1
      BY <3>1, <3>2
    <3> HIDE DEF a, b
    <3>4. a = 0 /\ b = 1
      BY <3>3
    <3> QED
      BY <3>4 DEF a, b
  <2>3. Len(outbox'[c]) = 0
    BY <1>7, <2>2
  <2>4. Len(inbox') = 1
    <3> DEFINE m == [kind |-> "ack", from |-> c, seq |-> outbox[c][k]]
    <3>1. inbox' = Append(inbox, m)
      BY <1>2, <2>1 DEF WithDatagram
    <3> HIDE DEF m
    <3> QED
      BY <1>0, <2>2, <3>1
  <2>5. outbox'[c] = << >>
    BY <1>0, <1>2, <1>3, <1>5, <2>3, WithoutElements
  <2>6. seq <= pre_seq[c] + 1
    BY <1>0, <1>9, <2>1 DEF Prompt, Packets, End
  <2> QED
    BY <1>0, <1>5, <1>6, <2>1, <2>3, <2>4, <2>5, <2>6 DEF Prompt
<1>10. ASSUME Reaching(c) PROVE Reaching(c)' /\ seq <= pre_seq[c] + 1
  <2>1. seq <= top
    BY <1>4, <1>7, <1>10 DEF Reaching, End
  <2>2. ASSUME NEW j \in 1 .. Len(outbox'[c])
        PROVE  IF outbox'[c][j] = End
                 THEN j = Len(outbox'[c]) /\ server = "done"
                 ELSE outbox'[c][j] <= top
    <3>1. /\ j + 1 \in 1 .. Len(outbox[c]) /\ j \in 1 .. Len(outbox[c]) - 1
          /\ j + 1 = Len(outbox[c]) => j = Len(outbox'[c])
      BY <1>0, <1>7
    <3> QED
      BY <1>7, <1>10, <3>1 DEF Reaching
  <2>3. ASSUME NEW n \in seq + 1 .. top
        PROVE  \E j \in 1 .. Len(outbox'[c]) : outbox'[c][j] = n
    <3>1. n \in pre_seq[c] + 1 .. top /\ n # seq
      BY <1>0, <1>8 DEF Packets, End
    <3>2. PICK j \in 1 .. Len(outbox[c]) : outbox[c][j] = n
      BY <1>10, <3>1 DEF Reaching
    <3>3. j # 1
      BY <1>4, <3>1, <3>2
    <3>4. j - 1 \in 1 .. Len(outbox[c]) - 1 /\ (j - 1) + 1 = j
      BY <1>0, <3>3
    <3>5. outbox'[c][j - 1] = n
      BY <1>7, <3>2, <3>4
    <3> QED
      BY <1>7, <3>4, <3>5
  <2>4. Reaching(c)'
    BY <1>5, <1>6, <2>1, <2>2, <2>3 DEF Reaching
  <2>5. seq <= pre_seq[c] + 1
    <3> SUFFICES ASSUME pre_seq[c] + 1 < seq PROVE FALSE
      BY <1>0 DEF Packets, End
    <3>1. pre_seq[c] + 1 \in pre_seq[c] + 1 .. top /\ pre_seq[c] + 1 # End
      BY <1>0, <1>6, <2>1 DEF Packets, End
    <3>2. PICK j \in 1 .. Len(outbox[c]) : outbox[c][j] = pre_seq[c] + 1
      BY <1>10, <3>1 DEF Reaching
    <3>3. seq <= pre_seq[c] + 1
      BY <1>8, <3>1, <3>2
    <3> QED
      BY <1>0, <3>3 DEF Packets, End
  <2> QED
    BY <2>4, <2>5
<1>11. ASSUME Straight(c), seq <= pre_seq[c] + 1 PROVE Straight(c)'
  <2>1. CASE pre_seq[c] < seq
    <3>1. seq = pre_seq[c] + 1 /\ seq = Len(copy[c])
      BY <1>0, <1>11, <2>1 DEF Straight, Packets, End
    <3>2. copy'[c] = Append(copy[c], seq)
      BY <1>5, <2>1
    <3>3. /\ Len(copy'[c]) = seq + 1
          /\ copy'[c][seq + 1] = seq
          /\ \A j \in 1 .. seq : copy'[c][j] = copy[c][j]
      BY <1>0, <3>1, <3>2
    <3>4. \A j \in 1 .. seq : copy'[c][j] = j - 1
      BY <1>11, <3>1, <3>3 DEF Straight
    <3>5. \A j \in 1 .. Len(copy'[c]) : copy'[c][j] = j - 1
      BY <3>3, <3>4
    <3> QED
      BY <1>1, <1>5, <1>6, <3>3, <3>5 DEF Straight
  <2>2. CASE pre_seq[c] = seq
    <3>1. copy'[c] = copy[c]
      BY <1>5, <2>2
    <3> QED
      BY <1>1, <1>5, <1>6, <1>11, <2>2, <3>1 DEF Straight
  <2> QED
    BY <1>0, <1>8, <2>1, <2>2 DEF Packets, End
<1> QED
  BY <1>6, <1>9, <1>10, <1>11

\* The client gets the end: it has every block.
LEMMA ServedEnd ==
  ASSUME FullInv, NEW d \in Clients, RecvEnd(d), OneClient, ~ swapped, ~ swapped',
         NEW c \in Clients, InTransfer(c), Served(c)
  PROVE  Served(c)'
<1> USE DEF Served
<1>0. /\ Started /\ Types /\ i \in Nat /\ NBlocks \in Nat
      /\ outbox[c] \in Seq(Packets) /\ outbox \in [Clients -> Seq(Packets)]
      /\ pre_seq[c] \in Packets /\ inbox \in Seq(Datagrams)
      /\ client \in [Clients -> {"start", "recv", "failed", "done"}]
  BY StopAndWaitAssumption DEF FullInv, Inv, Types, Started
<1>1. c = d
  BY <1>0 DEF RecvEnd, OneClient, InTransfer
<1>2. PICK k \in 1 .. Len(outbox[c]) : outbox[c][k] = End /\ Deliver(k)
  BY <1>1 DEF RecvEnd
<1>3. k = 1 /\ outbox[c][1] = End /\ outbox[c] # << >>
  <2>1. ~ (k > 1)
    BY <1>2 DEF Deliver
  <2>2. k = 1
    BY <1>0, <2>1
  <2> QED
    BY <1>2, <2>2
<1>4. /\ UNCHANGED <<server, i, inbox, pre_seq, copy, lost, late>>
      /\ outbox'[c] = << >> /\ client'[c] = "done"
  BY <1>0, <1>1, <1>2 DEF RecvEnd, serverVars, Deliver
<1>5. top' = top
  BY <1>4 DEF top
<1>6. server = "done" => top = NBlocks - 1
  BY DEF top, FullInv, Counter
<1>7. ASSUME Prompt(c) PROVE Prompt(c)' /\ server = "done" /\ pre_seq[c] = NBlocks - 1
  <2>1. server = "done"
    BY <1>0, <1>3, <1>7 DEF Prompt, End
  <2>2. pre_seq[c] = NBlocks - 1
    BY <1>0, <1>6, <1>7, <2>1 DEF Prompt, FullInv, Counter, Packets, End
  <2>3. Len(inbox) + Len(outbox[c]) <= 1 /\ Len(outbox[c]) \in Nat /\ Len(inbox) \in Nat
    BY <1>0, <1>7 DEF Prompt
  <2>4. Len(inbox) + 0 <= 1
    BY <2>3
  <2>5. Prompt(c)'
    BY <1>4, <1>5, <1>7, <2>4 DEF Prompt
  <2> QED
    BY <2>1, <2>2, <2>5
<1>8. ASSUME Reaching(c) PROVE Reaching(c)' /\ server = "done" /\ pre_seq[c] = NBlocks - 1
  <2>1. server = "done" /\ Len(outbox[c]) = 1
    BY <1>2, <1>3, <1>8 DEF Reaching
  <2>2. pre_seq[c] = top
    <3> SUFFICES ASSUME pre_seq[c] + 1 <= top PROVE FALSE
      BY <1>0, <1>6, <1>8, <2>1 DEF Reaching, Packets, End
    <3>1. pre_seq[c] + 1 \in pre_seq[c] + 1 .. top
      BY <1>0, <1>6, <2>1 DEF Packets, End
    <3>2. PICK j \in 1 .. Len(outbox[c]) : outbox[c][j] = pre_seq[c] + 1
      BY <1>8, <3>1 DEF Reaching
    <3>3. pre_seq[c] + 1 = End
      BY <1>3, <2>1, <3>2
    <3> QED
      BY <1>0, <3>3 DEF Packets, End
  <2>3. top \in Int /\ pre_seq[c] + 1 .. top = {}
    BY <1>0, <1>6, <2>1, <2>2
  <2>4. Reaching(c)'
    BY <1>4, <1>5, <2>2, <2>3 DEF Reaching
  <2> QED
    BY <1>6, <2>1, <2>2, <2>4
<1>9. ASSUME Straight(c), server = "done", pre_seq[c] = NBlocks - 1 PROVE Straight(c)'
  BY <1>4, <1>9 DEF Straight
<1> QED
  BY <1>4, <1>7, <1>8, <1>9

\* A loss is repaired by the timeout, unless it is the end.
LEMMA ServedLose ==
  ASSUME FullInv, Lose, OneClient, NEW c \in Clients, InTransfer(c), Served(c)
  PROVE  Served(c)'
<1> USE DEF Served
<1>0. /\ Started /\ Types /\ i \in Nat /\ inbox \in Seq(Datagrams)
      /\ outbox[c] \in Seq(Packets) /\ outbox \in [Clients -> Seq(Packets)]
      /\ Len(inbox) \in Nat /\ Len(outbox[c]) \in Nat
  BY DEF FullInv, Inv, Types
<1>1. UNCHANGED <<server, i, client, pre_seq, copy, late>> /\ top' = top
  BY DEF Lose, serverVars, clientVars, top
<1>2. Straight(c) => Straight(c)'
  BY <1>1 DEF Straight
<1>3. CASE \E k \in 1 .. Len(inbox) :
             /\ inbox' = Without(inbox, k)
             /\ lost' = lost \cup {inbox[k].kind}
             /\ UNCHANGED outbox
  <2>1. PICK k \in 1 .. Len(inbox) :
          /\ inbox' = Without(inbox, k)
          /\ lost' = lost \cup {inbox[k].kind}
          /\ UNCHANGED outbox
    BY <1>3
  <2>2. Len(inbox') = Len(inbox) - 1 /\ inbox' \in Seq(Datagrams) /\ inbox # << >>
    BY <1>0, <2>1, WithoutElements
  <2>3. Reaching(c) => Reaching(c)'
    BY <1>1, <2>1 DEF Reaching
  <2>4. ASSUME Prompt(c) PROVE Prompt(c)'
    <3>1. Len(inbox') + Len(outbox[c]) <= 1
      BY <1>0, <2>2, <2>4 DEF Prompt
    <3>2. Len(inbox') = 0
      BY <1>0, <2>2, <2>4 DEF Prompt
    <3>3. inbox' = << >>
      BY <2>2, <3>2
    <3> QED
      BY <1>1, <2>1, <2>4, <3>1, <3>3 DEF Prompt
  <2> QED
    BY <1>1, <1>2, <2>1, <2>3, <2>4
<1>4. CASE \E d \in Clients : \E k \in 1 .. Len(outbox[d]) :
             /\ outbox' = [outbox EXCEPT ![d] = Without(@, k)]
             /\ lost' = lost \cup {KindOf(outbox[d][k])}
             /\ UNCHANGED inbox
  <2>0. PICK d \in Clients : \E k \in 1 .. Len(outbox[d]) :
          /\ outbox' = [outbox EXCEPT ![d] = Without(@, k)]
          /\ lost' = lost \cup {KindOf(outbox[d][k])}
          /\ UNCHANGED inbox
    BY <1>4
  <2>1. PICK k \in 1 .. Len(outbox[d]) :
          /\ outbox' = [outbox EXCEPT ![d] = Without(@, k)]
          /\ lost' = lost \cup {KindOf(outbox[d][k])}
          /\ UNCHANGED inbox
    BY <2>0
  <2>2. client[d] = "recv"
    BY <1>0, <2>1 DEF Started
  <2>3. d = c
    BY <2>2 DEF OneClient, InTransfer
  <2>4. /\ outbox'[c] = Without(outbox[c], k)
        /\ k \in 1 .. Len(outbox[c])
    BY <1>0, <2>1, <2>3
  <2>5. /\ Len(outbox'[c]) = Len(outbox[c]) - 1
        /\ \A j \in 1 .. Len(outbox[c]) - 1 :
             outbox'[c][j] = IF j < k THEN outbox[c][j] ELSE outbox[c][j + 1]
        /\ outbox'[c] \in Seq(Packets)
    BY <1>0, <2>4, WithoutElements
  <2>6. ASSUME Prompt(c) PROVE Prompt(c)'
    <3>1. Len(outbox'[c]) = 0 /\ Len(inbox) + Len(outbox'[c]) <= 1
      BY <1>0, <2>4, <2>5, <2>6 DEF Prompt
    <3>2. outbox'[c] = << >>
      BY <2>5, <3>1
    <3> QED
      BY <1>1, <2>1, <2>6, <3>1, <3>2 DEF Prompt
  <2>7. ASSUME "block" \notin lost', Reaching(c) PROVE Reaching(c)'
    <3>1. outbox[c][k] = End
      BY <2>1, <2>3, <2>7 DEF KindOf
    <3>2. k = Len(outbox[c])
      BY <2>4, <2>7, <3>1 DEF Reaching
    <3>3. \A j \in 1 .. Len(outbox'[c]) :
            /\ outbox'[c][j] = outbox[c][j]
            /\ j \in 1 .. Len(outbox[c]) /\ j # Len(outbox[c])
      BY <1>0, <2>5, <3>2
    <3>4. ASSUME NEW n \in pre_seq[c] + 1 .. top
          PROVE  \E j \in 1 .. Len(outbox'[c]) : outbox'[c][j] = n
      <4>1. PICK j \in 1 .. Len(outbox[c]) : outbox[c][j] = n
        BY <2>7, <3>4 DEF Reaching
      <4>2. n # End
        <5>1. top \in Int /\ pre_seq[c] \in Packets
          BY <1>0 DEF Types, top
        <5> QED
          BY <3>4, <5>1 DEF Packets, End
      <4>3. j \in 1 .. Len(outbox'[c])
        BY <1>0, <2>5, <3>1, <3>2, <4>1, <4>2
      <4> QED
        BY <3>3, <4>1, <4>3
    <3>5. \A j \in 1 .. Len(outbox'[c]) : outbox'[c][j] # End /\ outbox'[c][j] <= top
      BY <2>7, <3>3 DEF Reaching
    <3> QED
      BY <1>1, <2>7, <3>4, <3>5 DEF Reaching
  <2> QED
    BY <1>1, <1>2, <2>1, <2>6, <2>7
<1> QED
  BY <1>3, <1>4 DEF Lose

LEMMA ServedStep == FullInv /\ [Next]_vars => OneServed'
<1> SUFFICES ASSUME FullInv, [Next]_vars, OneClient', ~ swapped',
                    NEW c \in Clients, InTransfer(c)'
             PROVE  Served(c)'
  BY DEF OneServed
<1>1. Started /\ OneClient /\ ~ swapped
  BY ClientsGoOn DEF FullInv
<1>2. CASE \E d \in Clients : Request(d)
  BY <1>2, ServedRequest
<1>3. CASE ~ \E d \in Clients : Request(d)
  <2>1. InTransfer(c)
    <3>1. CASE client' = client
      BY <3>1 DEF InTransfer
    <3>2. CASE \E d \in Clients : RecvEnd(d)
      BY <1>1, <3>2 DEF RecvEnd, InTransfer, Started
    <3> QED
      BY <1>3, <3>1, <3>2
      DEF Next, ServerStep, ClientStep, RecvRequest, OpenFile, SendBlock, RecvAck, Timeout,
          SendEnd, RecvBlock, Lose, Over, vars, clientVars
  <2>2. Served(c)
    BY <1>1, <2>1 DEF FullInv, OneServed
  <2>3. CASE OpenFile
    <3>1. /\ UNCHANGED <<i, inbox, outbox, client, pre_seq, copy, lost, late>>
          /\ server = "open" /\ server' \in {"read", "crashed"} /\ top' = top
      BY <2>3 DEF OpenFile, netVars, clientVars, history, top
    <3>2. Prompt(c) => Prompt(c)'
      BY <3>1 DEF Prompt
    <3>3. Reaching(c) => Reaching(c)'
      BY <3>1 DEF Reaching
    <3>4. Straight(c) => Straight(c)'
      BY <3>1 DEF Straight
    <3> QED
      BY <2>2, <3>1, <3>2, <3>3, <3>4 DEF Served
  <2>4. CASE UNCHANGED vars
    BY <2>2, <2>4
    DEF vars, serverVars, clientVars, netVars, history, Served, Prompt, Reaching, Straight, top
  <2> QED
    BY <1>1, <1>3, <2>1, <2>2, <2>3, <2>4, ServedReceive, ServedSend, ServedSendEnd,
       ServedBlock, ServedEnd, ServedLose
    DEF Next, ServerStep, ClientStep, Over
<1> QED
  BY <1>2, <1>3

THEOREM FullInvCorrect == Spec => []FullInv
<1>1. FullInv /\ [Next]_vars => FullInv'
  <2> SUFFICES ASSUME FullInv, [Next]_vars PROVE FullInv'
    OBVIOUS
  <2>1. Inv'
    BY InvStep DEF FullInv
  <2> QED
    BY <2>1, StartedStep, CounterStep, ServedStep DEF FullInv
<1> QED
  BY <1>1, FullInit, PTL DEF Spec

-------------------------------------------------------------------------------
\* One client's copy is the beginning of the file, whatever else is lost and
\* however late it is, as long as the network delivers in order and does not both
\* lose blocks and answer late: that pre_seq only tells a block from those before
\* it (client.c:64-67) and that the server takes any datagram for the
\* acknowledgement (server.c:93) is enough then.
THEOREM CopyIsPrefixCorrect == Spec => []CopyIsPrefix
<1>1. FullInv => CopyIsPrefix
  <2> SUFFICES ASSUME FullInv, OneClient, WellBehaved, NEW c \in Clients
               PROVE  \A j \in 1 .. Len(copy[c]) : copy[c][j] = j - 1
    BY DEF CopyIsPrefix
  <2>1. CASE InTransfer(c)
    BY <2>1 DEF FullInv, OneServed, Served, Straight, WellBehaved
  <2>2. CASE ~ InTransfer(c)
    BY <2>2 DEF FullInv, Started, InTransfer
  <2> QED
    BY <2>1, <2>2
<1> QED
  BY <1>1, FullInvCorrect, PTL

\* The end packet, sent once and never acknowledged, comes after every block.
THEOREM WholeWhenDoneCorrect == Spec => []WholeWhenDone
<1>1. FullInv => WholeWhenDone
  <2> SUFFICES ASSUME FullInv, OneClient, WellBehaved, NEW c \in Clients, client[c] = "done"
               PROVE  Len(copy[c]) = NBlocks
    BY DEF WholeWhenDone
  <2>1. Straight(c)
    BY DEF FullInv, OneServed, Served, WellBehaved, InTransfer
  <2> QED
    BY <2>1, StopAndWaitAssumption DEF Straight
<1> QED
  BY <1>1, FullInvCorrect, PTL

\* The server goes on to a block only when the client has written those before
\* it, as long as no answer is later than the timeout.
THEOREM AckedIsWrittenCorrect == Spec => []AckedIsWritten
<1>1. FullInv => AckedIsWritten
  <2> SUFFICES ASSUME FullInv, OneClient, ~ late, ~ swapped, NEW c \in Clients,
                      clnt_adr = c, client[c] # "failed"
               PROVE  i <= Len(copy[c])
    BY DEF AckedIsWritten
  <2>1. InTransfer(c)
    BY DEF FullInv, Started, InTransfer
  <2>2. Prompt(c) /\ Straight(c)
    BY <2>1 DEF FullInv, OneServed, Served
  <2>3. i \in Nat /\ pre_seq[c] \in Packets
    BY DEF FullInv, Inv, Types
  <2> QED
    BY <2>2, <2>3 DEF Prompt, Straight, Packets, End
<1> QED
  BY <1>1, FullInvCorrect, PTL

===============================================================================
