----------------------------- MODULE StopAndWait -----------------------------
(***************************************************************************)
(* practice/hw2: a file sent over UDP, one block at a time.  The server    *)
(* repeats a block every 50 ms until a datagram comes in, then goes on to  *)
(* the next one.  The client acknowledges every block it gets and writes   *)
(* it unless it thinks it has it already.                                  *)
(*                                                                         *)
(* A block is its number; the packet that ends the file has number End, as *)
(* in the code.  The network is external: it may lose datagrams, delay     *)
(* them past the timeout and deliver them out of order.  What it has done  *)
(* so far is recorded, because most of what the programs promise depends   *)
(* on it.                                                                  *)
(***************************************************************************)
EXTENDS Integers, Sequences

CONSTANTS
  Clients,      \* the processes started as clients of one server
  Nobody,       \* the server's clnt_adr before the first datagram
  NBlocks,      \* how often fread() is called before feof() holds
  InFlight,     \* bound: datagrams in flight when the server sends one again
  OpenMayFail   \* TRUE: fopen() may fail, of the file or of a copy

End == -1

ASSUME StopAndWaitAssumption ==
  /\ Nobody \notin Clients
  /\ NBlocks \in Nat \ {0}
  /\ InFlight \in Nat
  /\ OpenMayFail \in BOOLEAN

VARIABLES
  server,    \* the server's program counter
  i,         \* its block number, pkt->seq
  clnt_adr,  \* where it sends to: who sent the last datagram it received
  inbox,     \* datagrams on their way to the server, oldest first
  client,    \* client[c]: c's program counter
  outbox,    \* outbox[c]: numbers of the packets on their way to c, oldest first
  pre_seq,   \* pre_seq[c]
  copy,      \* copy[c]: the blocks c has written
  lost,      \* history: the kinds of datagrams (see KindOf) that have been lost
  late,      \* history: the timeout has fired while an answer was on its way
  swapped    \* history: a datagram has overtaken another one

serverVars == <<server, i, clnt_adr>>
clientVars == <<client, pre_seq, copy>>
netVars    == <<inbox, outbox>>
history    == <<lost, late, swapped>>

vars == <<serverVars, clientVars, netVars, history>>

Init ==
  /\ server   = "listen"
  /\ i        = 0
  /\ clnt_adr = Nobody
  /\ inbox    = << >>
  /\ client   = [c \in Clients |-> "start"]
  /\ outbox   = [c \in Clients |-> << >>]
  /\ pre_seq  = [c \in Clients |-> -1]
  /\ copy     = [c \in Clients |-> << >>]
  /\ lost     = {}
  /\ late     = FALSE
  /\ swapped  = FALSE

-------------------------------------------------------------------------------
(* The network. *)

\* Sequence s without its k-th element.
Without(s, k) == SubSeq(s, 1, k - 1) \o SubSeq(s, k + 1, Len(s))

\* The k-th datagram on the way is the one that comes in.
Deliver(k) ==
  /\ swapped' = (swapped \/ k > 1)
  /\ UNCHANGED <<lost, late>>

\* Client c has left the program: what is sent to it goes nowhere.
Closed(c) == client[c] \in {"done", "failed"}

\* What is in flight to the clients after sending packets ps to c.
WithPackets(c, ps) == IF Closed(c) THEN outbox ELSE [outbox EXCEPT ![c] = @ \o ps]

\* What is in flight to the server after sending it datagram m.
WithDatagram(m) == IF server \in {"done", "crashed"} THEN inbox ELSE Append(inbox, m)

KindOf(seq) == IF seq = End THEN "end" ELSE "block"

\* A datagram is lost.
Lose ==
  /\ \/ \E k \in 1 .. Len(inbox) :
          /\ inbox' = Without(inbox, k)
          /\ lost' = lost \cup {inbox[k].kind}
          /\ UNCHANGED outbox
     \/ \E c \in Clients : \E k \in 1 .. Len(outbox[c]) :
          /\ outbox' = [outbox EXCEPT ![c] = Without(@, k)]
          /\ lost' = lost \cup {KindOf(outbox[c][k])}
          /\ UNCHANGED inbox
  /\ UNCHANGED <<serverVars, clientVars, late, swapped>>

-------------------------------------------------------------------------------
(* The server. *)

\* The first recvfrom(): whatever comes in is taken as a file name, and its
\* sender as the client.
RecvRequest ==
  /\ server = "listen"
  /\ \E k \in 1 .. Len(inbox) :
       /\ Deliver(k)
       /\ clnt_adr' = inbox[k].from
       /\ inbox' = Without(inbox, k)
  /\ server' = "open"
  /\ UNCHANGED <<i, outbox, clientVars>>

\* fopen().  If it fails the server ends in fclose(NULL).
OpenFile ==
  /\ server = "open"
  /\ \/ server' = "read"
     \/ OpenMayFail /\ server' = "crashed"
  /\ UNCHANGED <<i, clnt_adr, netVars, clientVars, history>>

\* Bug for a mutant run: the last block is not read.
MoreBlocksOffByOne == i < NBlocks - 1

\* feof() does not hold yet: as a fread() that fills the buffer does not see the
\* end of the file, a file of k * (MAX_BUF - 1) bytes ends with an empty block.
MoreBlocks == i < NBlocks

\* Reads block i and sends it.
SendBlock ==
  /\ server = "read"
  /\ MoreBlocks
  /\ outbox' = WithPackets(clnt_adr, <<i>>)
  /\ server' = "wait"
  /\ UNCHANGED <<i, clnt_adr, inbox, clientVars, history>>

\* recvfrom() returns a datagram.  Its number is only used for a message on the
\* screen: whatever it is, it counts as the acknowledgement, and whoever sent
\* it is the client from now on.
RecvAck ==
  /\ server = "wait"
  /\ \E k \in 1 .. Len(inbox) :
       /\ Deliver(k)
       /\ clnt_adr' = inbox[k].from
       /\ inbox' = Without(inbox, k)
  /\ i' = i + 1
  /\ server' = "read"
  /\ UNCHANGED <<outbox, clientVars>>

\* Bug for a mutant run: the block is not sent again.
RepeatedNever == << >>

\* What is sent when recvfrom() times out.
Repeated == <<i>>

\* recvfrom() returns -1 after 50 ms.
Timeout ==
  /\ server = "wait"
  /\ Len(inbox) + Len(outbox[clnt_adr]) < InFlight
  /\ outbox' = WithPackets(clnt_adr, Repeated)
  /\ late' = (late \/ inbox # << >> \/ outbox[clnt_adr] # << >>)
  /\ UNCHANGED <<serverVars, inbox, clientVars, lost, swapped>>

\* The file is read: the end packet, once, and the server exits.
SendEnd ==
  /\ server = "read"
  /\ ~ MoreBlocks
  /\ outbox' = WithPackets(clnt_adr, <<End>>)
  /\ server' = "done"
  /\ inbox' = << >>
  /\ UNCHANGED <<i, clnt_adr, clientVars, history>>

-------------------------------------------------------------------------------
(* Client c. *)

\* Sends the file name, once, and creates the copy.
Request(c) ==
  /\ client[c] = "start"
  /\ inbox' = WithDatagram([kind |-> "request", from |-> c, seq |-> End])
  /\ \/ client' = [client EXCEPT ![c] = "recv"]
     \/ OpenMayFail /\ client' = [client EXCEPT ![c] = "failed"]
  /\ UNCHANGED <<serverVars, outbox, pre_seq, copy, history>>

\* Bug for a mutant run: a repeated block is written again.
IsNewOrSame(c, seq) == pre_seq[c] <= seq

\* Bug for a mutant run: a block that follows the last one is not written.
IsNewOffByOne(c, seq) == pre_seq[c] < seq - 1

\* Meant to tell a block that has been received before.
IsNew(c, seq) == pre_seq[c] < seq

\* Gets a block, acknowledges it, then writes it if it seems to be new.
RecvBlock(c) ==
  /\ client[c] = "recv"
  /\ \E k \in 1 .. Len(outbox[c]) :
       LET seq == outbox[c][k] IN
       /\ Deliver(k)
       /\ seq # End
       /\ outbox' = [outbox EXCEPT ![c] = Without(@, k)]
       /\ inbox' = WithDatagram([kind |-> "ack", from |-> c, seq |-> seq])
       /\ copy' = [copy EXCEPT ![c] = IF IsNew(c, seq) THEN Append(@, seq) ELSE @]
       /\ pre_seq' = [pre_seq EXCEPT ![c] = seq]
  /\ UNCHANGED <<serverVars, client>>

\* Gets the end packet.
RecvEnd(c) ==
  /\ client[c] = "recv"
  /\ \E k \in 1 .. Len(outbox[c]) : outbox[c][k] = End /\ Deliver(k)
  /\ outbox' = [outbox EXCEPT ![c] = << >>]
  /\ client' = [client EXCEPT ![c] = "done"]
  /\ UNCHANGED <<serverVars, inbox, pre_seq, copy>>

-------------------------------------------------------------------------------
Over ==
  /\ server \in {"done", "crashed"}
  /\ \A c \in Clients : Closed(c)
  /\ UNCHANGED vars

ServerStep == RecvRequest \/ OpenFile \/ SendBlock \/ RecvAck \/ Timeout \/ SendEnd

ClientStep(c) == Request(c) \/ RecvBlock(c) \/ RecvEnd(c)

Next ==
  \/ ServerStep
  \/ \E c \in Clients : ClientStep(c)
  \/ Lose
  \/ Over

Spec == Init /\ [][Next]_vars

\* Both programs run once they are started, and the network does not lose every
\* copy of what is sent again and again.
FairSpec ==
  /\ Spec
  /\ WF_vars(ServerStep)
  /\ SF_vars(RecvAck)
  /\ \A c \in Clients : WF_vars(RecvBlock(c) \/ RecvEnd(c)) /\ SF_vars(RecvBlock(c))

-------------------------------------------------------------------------------
(* Properties *)

\* One client has been started at most.
OneClient == \A c, d \in Clients : client[c] # "start" /\ client[d] # "start" => c = d

\* The network has delivered in order and either lost no block or answered in
\* time.
WellBehaved == ~ swapped /\ ("block" \in lost => ~ late)

\* What a client has written is the beginning of the file: no block is left
\* out, repeated or exchanged, as long as there is one client and the network
\* does not both lose blocks and answer late.
CopyIsPrefix ==
  OneClient /\ WellBehaved =>
    \A c \in Clients : \A j \in 1 .. Len(copy[c]) : copy[c][j] = j - 1

\* Under the same conditions a client that has been told that the file is over
\* has all of it.
WholeWhenDone ==
  OneClient /\ WellBehaved =>
    \A c \in Clients : client[c] = "done" => Len(copy[c]) = NBlocks

\* A block is not written after itself or a later one, whatever is lost or late
\* and however many clients there are, as long as the network delivers in order:
\* a block that comes in again is not written again.
CopyInOrder ==
  ~ swapped =>
    \A c \in Clients : \A j, k \in 1 .. Len(copy[c]) :
      j < k => copy[c][j] < copy[c][k]

\* The server goes on to block i only when the client has written the ones
\* before it, as long as no answer is later than the timeout.
AckedIsWritten ==
  OneClient /\ ~ late /\ ~ swapped =>
    \A c \in Clients : clnt_adr = c /\ client[c] # "failed" => i <= Len(copy[c])

\* A transfer that has begun ends, for the server and for its client, whatever
\* is late, overtaken or lost of what is sent again: blocks and acknowledgements.
Finishes ==
  [](OneClient /\ lost \subseteq {"block", "ack"} /\ server # "crashed") =>
    \A c \in Clients : client[c] = "recv" ~> client[c] = "done" /\ server = "done"

\* What hw2 is to be: reliable, whatever the network does to one client.
ReliableTransfer ==
  OneClient => \A c \in Clients : client[c] = "done" => copy[c] = [k \in 1 .. NBlocks |-> k - 1]

=============================================================================
