--------------------------------- MODULE Mesh ---------------------------------
(***************************************************************************)
(* The connection phase of the p2p program: server() from its accept loop  *)
(* to the last "Init complete", and client() from its start to the number  *)
(* of segments it is to get from the sender.                               *)
(*                                                                         *)
(* The sender numbers the receivers in the order it accepts them and tells *)
(* each one the addresses of those that came after it.  A receiver opens a *)
(* connection to each of these with a thread of its own (connectReceiver)  *)
(* and accepts the others in one thread (acceptReceiver).  All of them add *)
(* to recv_socks and recv_cnt under clnt_mutx; the main thread polls       *)
(* recv_cnt without it.                                                    *)
(*                                                                         *)
(* A socket is named by the receiver at its other end.                     *)
(***************************************************************************)
EXTENDS Naturals, Sequences, FiniteSets

CONSTANTS
  Receivers,       \* the processes started as receivers
  NoSock,          \* what an unset recv_socks entry holds
  ConnectMayFail   \* TRUE: connect() to a peer may fail

ASSUME MeshAssumption ==
  /\ IsFiniteSet(Receivers)
  /\ Receivers # {}
  /\ NoSock \notin Receivers
  /\ ConnectMayFail \in BOOLEAN

N     == Cardinality(Receivers)
Slots == 0 .. N - 2

VARIABLES
  pending,     \* connections waiting in the sender's listen queue
  clnt_socks,  \* the receivers the sender has accepted, in order
  announced,   \* how many of them it has told about the others
  joined,      \* how many "Init complete" it has waited for
  main,        \* main[r]: program counter of r's main thread
  told,        \* told[r]: peer addresses r has read
  conn,        \* conn[r][q]: program counter of r's thread that connects to q
  acc,         \* acc[r]: program counter of r's accepting thread
  accepted,    \* accepted[r]: the socket it has accepted and not yet stored
  backlog,     \* backlog[r]: connections waiting in r's listen queue
  recv_cnt,    \* recv_cnt[r]
  recv_socks   \* recv_socks[r]

senderVars == <<clnt_socks, announced, joined>>
acceptVars == <<acc, accepted>>
tableVars  == <<recv_cnt, recv_socks>>

vars == <<pending, senderVars, main, told, conn, acceptVars, backlog, tableVars>>

Init ==
  /\ pending    = << >>
  /\ clnt_socks = << >>
  /\ announced  = 0
  /\ joined     = 0
  /\ main       = [r \in Receivers |-> "boot"]
  /\ told       = [r \in Receivers |-> 0]
  /\ conn       = [r \in Receivers |-> [q \in Receivers |-> "none"]]
  /\ acc        = [r \in Receivers |-> "none"]
  /\ accepted   = [r \in Receivers |-> NoSock]
  /\ backlog    = [r \in Receivers |-> << >>]
  /\ recv_cnt   = [r \in Receivers |-> 0]
  /\ recv_socks = [r \in Receivers |-> [i \in Slots |-> NoSock]]

-------------------------------------------------------------------------------
(* The sender.  recv_num of server() is N. *)

\* accept(), clnt_socks[clnt_cnt++] and the read of the listening port.
AcceptReceiver ==
  /\ Len(clnt_socks) < N
  /\ pending # << >>
  /\ clnt_socks' = Append(clnt_socks, Head(pending))
  /\ pending' = Tail(pending)
  /\ UNCHANGED <<announced, joined, main, told, conn, acceptVars, backlog, tableVars>>

\* One turn of the loop that writes to receiver number i the number of
\* receivers, how many it must connect to, their addresses, the ids and the
\* description of the file.  A receiver reads each part when it gets there.
Announce ==
  /\ Len(clnt_socks) = N
  /\ announced < N
  /\ announced' = announced + 1
  /\ UNCHANGED <<pending, clnt_socks, joined, main, told, conn, acceptVars,
                 backlog, tableVars>>

\* The "Init complete" of receiver r can be read.
Reported(r) == main[r] = "reported"

\* That of receiver number joined has been read by its thread, which is joined;
\* the receiver is told how many segments it will get.
JoinReceiver ==
  /\ announced = N
  /\ joined < N
  /\ Reported(clnt_socks[joined + 1])
  /\ joined' = joined + 1
  /\ UNCHANGED <<pending, clnt_socks, announced, main, told, conn, acceptVars,
                 backlog, tableVars>>

\* The sender has left the loop and begins to send segments.
Sending == joined = N

-------------------------------------------------------------------------------
(* What receiver r finds on its connection to the sender. *)

\* The position of r among the accepted receivers: its id, from 0.
Id(r) == (CHOOSE i \in 1 .. Len(clnt_socks) : clnt_socks[i] = r) - 1

Announced(r) == \E i \in 1 .. announced : clnt_socks[i] = r

\* Bug for a mutant run: the receiver after the next is the first to connect to.
ToConnectOffByOne(r) == N - 2 - Id(r)

\* recv_num: how many peers r is told to connect to.
ToConnect(r) == N - 1 - Id(r)

\* Bug for a mutant run: the table is read from its start.
AddressFromStart(r, k) ==
  LET j == IF k <= Id(r) THEN k ELSE k + 1 IN clnt_socks[j]

\* The receiver behind the k-th address r reads.
Address(r, k) == clnt_socks[Id(r) + 1 + k]

-------------------------------------------------------------------------------
(* The main thread of receiver r. *)

\* listen(), then the accepting thread.
Listen(r) ==
  /\ main[r] = "boot"
  /\ main' = [main EXCEPT ![r] = "listening"]
  /\ acc' = [acc EXCEPT ![r] = "test"]
  /\ UNCHANGED <<pending, senderVars, told, conn, accepted, backlog, tableVars>>

\* connect() to the sender and the write of the listening port.
Register(r) ==
  /\ main[r] = "listening"
  /\ main' = [main EXCEPT ![r] = "registered"]
  /\ pending' = Append(pending, r)
  /\ UNCHANGED <<senderVars, told, conn, acceptVars, backlog, tableVars>>

\* Bug for a mutant run: the mutex is not taken.
LockedNever(r) == FALSE

\* A thread of receiver r is between lock and unlock of clnt_mutx.
Locked(r) ==
  \/ acc[r] = "counted"
  \/ \E q \in Receivers : conn[r][q] = "counted"

\* total_recv and recv_num are read and recv_socks is reallocated under the
\* mutex.
ReadTotals(r) ==
  /\ main[r] = "registered"
  /\ Announced(r)
  /\ ~ Locked(r)
  /\ main' = [main EXCEPT ![r] = "connecting"]
  /\ UNCHANGED <<pending, senderVars, told, conn, acceptVars, backlog, tableVars>>

\* Reads one address and creates the thread that connects to it.
ReadAddress(r) ==
  /\ main[r] = "connecting"
  /\ told[r] < ToConnect(r)
  /\ told' = [told EXCEPT ![r] = @ + 1]
  /\ conn' = [conn EXCEPT ![r][Address(r, told[r] + 1)] = "connect"]
  /\ UNCHANGED <<pending, senderVars, main, acceptVars, backlog, tableVars>>

\* Bug for a mutant run: the busy wait ends one connection early.
EnoughSocketsOffByOne(r) == recv_cnt[r] + 1 >= N - 1

EnoughSockets(r) == recv_cnt[r] >= N - 1

\* The busy wait for recv_cnt, without the mutex.
SeeCount(r) ==
  /\ main[r] = "connecting"
  /\ told[r] = ToConnect(r)
  /\ EnoughSockets(r)
  /\ main' = [main EXCEPT ![r] = "joining"]
  /\ UNCHANGED <<pending, senderVars, told, conn, acceptVars, backlog, tableVars>>

\* The connecting threads are joined, the accepting thread is not;
\* "Init complete" is written to the sender.
ReportInit(r) ==
  /\ main[r] = "joining"
  /\ \A q \in Receivers : conn[r][q] \in {"none", "done", "failed"}
  /\ main' = [main EXCEPT ![r] = "reported"]
  /\ UNCHANGED <<pending, senderVars, told, conn, acceptVars, backlog, tableVars>>

\* The number of segments to expect is there: receiver r goes on to the data
\* phase with the table of sockets as it is.
ReadQuota(r) ==
  /\ main[r] = "reported"
  /\ \E i \in 1 .. joined : clnt_socks[i] = r
  /\ main' = [main EXCEPT ![r] = "ready"]
  /\ UNCHANGED <<pending, senderVars, told, conn, acceptVars, backlog, tableVars>>

-------------------------------------------------------------------------------
(* The thread of receiver r that connects to q. *)

\* connect() completes in the listen queue of q, before q accepts.  It is
\* refused when q does not listen.
Connect(r, q) ==
  /\ conn[r][q] = "connect"
  /\ \/ /\ main[q] # "boot"
        /\ conn' = [conn EXCEPT ![r][q] = "connected"]
        /\ backlog' = [backlog EXCEPT ![q] = Append(@, r)]
     \/ /\ main[q] = "boot" \/ ConnectMayFail
        /\ conn' = [conn EXCEPT ![r][q] = "failed"]
        /\ UNCHANGED backlog
  /\ UNCHANGED <<pending, senderVars, main, told, acceptVars, tableVars>>

\* recv_socks[recv_cnt++] = recv_sock, first half: the counter is stored before
\* the entry (the order gcc emits).
CountConnected(r, q) ==
  /\ conn[r][q] = "connected"
  /\ ~ Locked(r)
  /\ conn' = [conn EXCEPT ![r][q] = "counted"]
  /\ recv_cnt' = [recv_cnt EXCEPT ![r] = @ + 1]
  /\ UNCHANGED <<pending, senderVars, main, told, acceptVars, backlog, recv_socks>>

\* Second half: the entry, then the mutex is released.
StoreConnected(r, q) ==
  /\ conn[r][q] = "counted"
  /\ conn' = [conn EXCEPT ![r][q] = "done"]
  /\ recv_socks' = [recv_socks EXCEPT ![r][recv_cnt[r] - 1] = q]
  /\ UNCHANGED <<pending, senderVars, main, told, acceptVars, backlog, recv_cnt>>

-------------------------------------------------------------------------------
(* The accepting thread of receiver r. *)

\* Bug for a mutant run: the accepting thread stops one connection early.
StillExpectedOffByOne(r) ==
  main[r] \in {"boot", "listening", "registered"} \/ recv_cnt[r] + 1 < N - 1

\* total_recv - 1 as the thread sees it: no bound until main has read it.
StillExpected(r) ==
  main[r] \in {"boot", "listening", "registered"} \/ recv_cnt[r] < N - 1

\* The loop test, without the mutex.
TestAccept(r) ==
  /\ acc[r] = "test"
  /\ acc' = [acc EXCEPT ![r] = IF StillExpected(r) THEN "accept" ELSE "ended"]
  /\ UNCHANGED <<pending, senderVars, main, told, conn, accepted, backlog, tableVars>>

Accept(r) ==
  /\ acc[r] = "accept"
  /\ backlog[r] # << >>
  /\ accepted' = [accepted EXCEPT ![r] = Head(backlog[r])]
  /\ backlog' = [backlog EXCEPT ![r] = Tail(@)]
  /\ acc' = [acc EXCEPT ![r] = "accepted"]
  /\ UNCHANGED <<pending, senderVars, main, told, conn, tableVars>>

\* As CountConnected and StoreConnected.
CountAccepted(r) ==
  /\ acc[r] = "accepted"
  /\ ~ Locked(r)
  /\ acc' = [acc EXCEPT ![r] = "counted"]
  /\ recv_cnt' = [recv_cnt EXCEPT ![r] = @ + 1]
  /\ UNCHANGED <<pending, senderVars, main, told, conn, accepted, backlog, recv_socks>>

StoreAccepted(r) ==
  /\ acc[r] = "counted"
  /\ acc' = [acc EXCEPT ![r] = "test"]
  /\ recv_socks' = [recv_socks EXCEPT ![r][recv_cnt[r] - 1] = accepted[r]]
  /\ accepted' = [accepted EXCEPT ![r] = NoSock]
  /\ UNCHANGED <<pending, senderVars, main, told, conn, backlog, recv_cnt>>

-------------------------------------------------------------------------------
\* Everybody has gone on to the data phase and no thread of this phase can
\* still do anything.
Settled ==
  /\ Sending
  /\ \A r \in Receivers : main[r] = "ready" /\ acc[r] \in {"accept", "ended"}

SetUp == Settled /\ UNCHANGED vars

SenderStep == AcceptReceiver \/ Announce \/ JoinReceiver

MainThread(r) ==
  \/ Listen(r)
  \/ Register(r)
  \/ ReadTotals(r)
  \/ ReadAddress(r)
  \/ SeeCount(r)
  \/ ReportInit(r)
  \/ ReadQuota(r)

ConnectThread(r, q) ==
  \/ Connect(r, q)
  \/ CountConnected(r, q)
  \/ StoreConnected(r, q)

AcceptThread(r) ==
  \/ TestAccept(r)
  \/ Accept(r)
  \/ CountAccepted(r)
  \/ StoreAccepted(r)

ProgramStep ==
  \/ SenderStep
  \/ \E r \in Receivers : MainThread(r) \/ AcceptThread(r)
  \/ \E r, q \in Receivers : ConnectThread(r, q)

Next == ProgramStep \/ SetUp

Spec == Init /\ [][Next]_vars

\* No step is ever undone, so it is enough that some thread goes on.
FairSpec == Spec /\ WF_vars(ProgramStep)

-------------------------------------------------------------------------------
(* Properties *)

\* The sockets receiver r has stored, or has counted and is about to store.
Counted(r) ==
  ({recv_socks[r][i] : i \in Slots} \ {NoSock})
    \cup {q \in Receivers : \/ conn[r][q] = "counted"
                            \/ (acc[r] = "counted" /\ accepted[r] = q)}

\* recv_cnt never counts a connection twice or one that is not there: it is the
\* number of different peers r is connected to.  With this the busy wait on
\* recv_cnt means what it is meant to: everybody is connected to r.
CountIsPeers ==
  \A r \in Receivers :
    /\ r \notin Counted(r)
    /\ Cardinality(Counted(r)) = recv_cnt[r]

\* The two ends of a pair agree that there is one connection between them: of
\* two receivers exactly one is told to connect, so no pair is ever joined by
\* two connections, of which each side would pick one.
OneLinkPerPair ==
  \A r, q \in Receivers : conn[r][q] # "none" => conn[q][r] = "none"

\* The sender starts to send segments only when every receiver has connections
\* to all the others, although each receiver only counts its own end.
SendingMeansMesh ==
  Sending => \A r \in Receivers : Counted(r) = Receivers \ {r}

\* The accepting thread leaves its loop, on a count that the connecting threads
\* raise too and that it reads without the mutex, only when no peer waits in
\* the listen queue: no peer is left with a connection nobody has accepted.
NobodyLeftWaiting ==
  \A r \in Receivers : acc[r] = "ended" => backlog[r] = << >>

\* What the sockets of receiver r are to be for the data phase.
TableIsWhole(r) == {recv_socks[r][i] : i \in Slots} = Receivers \ {r}

\* What may still have q's socket in hand once the main thread of r has seen the
\* count: a connecting thread until it is joined, and the accepting thread, which
\* never is.
InHand(r, q) ==
  \/ acc[r] = "counted" /\ accepted[r] = q
  \/ conn[r][q] = "counted" /\ main[r] = "joining"

\* From the moment its main thread, which polls recv_cnt without the mutex, has
\* seen the count, a receiver's table holds each of its peers once, whatever the
\* order of the threads that add to it: no entry is overwritten or skipped.
\* All that may be missing is the last entry, while the thread that has raised
\* the counter, and holds the mutex, has that peer's socket still in hand.  So the
\* data phase can find that one unset, and no other.
TablesAreWholeButTheLast ==
  \A r \in Receivers : main[r] \in {"joining", "reported", "ready"} =>
    \/ TableIsWhole(r)
    \/ /\ recv_socks[r][N - 2] = NoSock
       /\ \E q \in Receivers \ {r} :
            /\ InHand(r, q)
            /\ {recv_socks[r][i] : i \in Slots \ {N - 2}} = Receivers \ {r, q}

\* Unless a connect() fails the connection phase ends: everybody goes on to the
\* data phase, with a table that holds each peer once, which is the table the
\* data phase assumes.  It needs in particular that everybody listens before
\* anybody is told to connect to it, because connectReceiver does not try again
\* when it is refused.
EndsWithMesh ==
  <>[](\/ \E r, q \in Receivers : conn[r][q] = "failed"
       \/ Sending /\ \A r \in Receivers : main[r] = "ready" /\ TableIsWhole(r))

===============================================================================
