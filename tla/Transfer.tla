------------------------------- MODULE Transfer -------------------------------
(***************************************************************************)
(* The data phase of the p2p program: server.c from the point where every  *)
(* receiver has reported "Init complete", and client.c from the point      *)
(* where it has read the number of segments the sender will give it.       *)
(*                                                                         *)
(* The sender is one process with a progress thread.  A receiver is one    *)
(* process with, besides its main thread, one reader thread                *)
(* (recvSegFromPeer) and one forwarding thread (sendSeg2Peers) per peer    *)
(* connection, a file writer (writeSeg2File) and a progress thread         *)
(* (printRecvProgress).  The threads share the segment table, the flags    *)
(* and the counters of client.c, and run in any order.                     *)
(*                                                                         *)
(* A segment's content is its number: two segments with the same number    *)
(* hold the same bytes.  NoData is what an unwritten Segment holds.        *)
(***************************************************************************)
EXTENDS Integers, Sequences

CONSTANTS
  N,            \* number of receivers (-n, recv_num in server.c)
  FileSize,     \* bytes of the file
  SegSize,      \* bytes of a segment (-g)
  Cap,          \* whole segments a connection buffers before write() blocks
  peerAt,       \* peerAt[r][j]: the peer behind recv_socks[j] of receiver r
  Late,         \* receivers whose new reader threads may start after i++
  OpenMayFail,  \* TRUE: fopen() of the copy may fail
  Crashable     \* the processes that may crash

Receivers == 0 .. N - 1
Sender    == N
Procs     == 0 .. N
Slots     == 0 .. N - 2      \* indices into recv_socks; recv_cnt = N - 1

NoData    == -1

\* peerAt is a whole table.  Mesh shows that only the last entry may be unset when
\* the main thread goes on, while a thread has that socket in hand; it is taken to
\* be stored before the data phase first reads it.
ASSUME TransferAssumption ==
  /\ N \in Nat \ {0}
  /\ FileSize \in Nat
  /\ SegSize \in Nat \ {0}
  /\ Cap \in Nat \ {0}
  /\ peerAt \in [Receivers -> [Slots -> Receivers]]
  /\ \A r \in Receivers : \A q \in Receivers \ {r} : \E j \in Slots : peerAt[r][j] = q
  /\ \A r \in Receivers : \A j \in Slots :
       /\ peerAt[r][j] # r
       /\ \A l \in Slots : peerAt[r][l] = peerAt[r][j] => l = j
  /\ Late \subseteq Receivers
  /\ OpenMayFail \in BOOLEAN
  /\ Crashable \subseteq Procs

-------------------------------------------------------------------------------
(* The segmentation of the file and how many segments each receiver is told *)
(* to expect from the sender.                                               *)

total_seg == FileSize \div SegSize + 1
Segs      == 0 .. total_seg - 1

\* Bytes of segment k: the last one holds the remainder, which may be 0.
Size(k) == IF k < total_seg - 1 THEN SegSize ELSE FileSize % SegSize

\* Bytes of the first n segments.
BytesOf(n) == IF n < total_seg THEN n * SegSize ELSE FileSize

\* Bug for a mutant run: the dealing starts at the second receiver.
TargetOffByOne(k) == (k + 1) % N

\* The receiver the sender writes segment k to.
Target(k) == k % N

\* The number of segments announced to receiver r.
Quota(r) == total_seg \div N + (IF r < total_seg % N THEN 1 ELSE 0)

\* Bug for a mutant run: one segment too few is expected from the peers.
FromPeersOffByOne(r) == total_seg - Quota(r) - 1

\* The number of segments receiver r expects from its peers.
FromPeers(r) == total_seg - Quota(r)

-------------------------------------------------------------------------------
VARIABLES
  status,   \* status[p]: "run", "done", "crashed", "killed" (SIGPIPE) or "wild"
  sidx,     \* the sender's loop variable: segments below it are written
  chan,     \* chan[p][r]: segments in flight from p to r, oldest first
  hdr,      \* hdr[p][r]: the header of the oldest one, or the error after all, has been read
  main,     \* main[r]: program counter of r's main thread
  ivar,     \* ivar[r]: i of client(), the loop variable whose address reader threads are given
  mseq,     \* mseq[r]: local seq of getSegmentFromSock
  own,      \* own[r]: recv_seg_num up to sender_seg_cnt
  rpc,      \* rpc[r][t]: program counter of reader thread t
  ridx,     \* ridx[r][t]: its recv_idx
  rseq,     \* rseq[r][t]: its local seq
  sent,     \* sent[r][t]: local i of forwarding thread t
  segment,  \* segment[r][k]: content of r's segment k
  flag,     \* flag[r][k]: all_seg_flag
  remain,   \* remain[r]: remain_seg_num
  curSize,  \* curSize[r]: snd_info->cur_size plus every rcv_info[]->cur_size
  writer,   \* writer[r]: the file writer is about to "open", can "write" or has "failed"
  file      \* file[r]: contents written to the copy so far

senderVars  == <<sidx>>
netVars     == <<chan, hdr>>
mainVars    == <<main, ivar, mseq, own>>
readerVars  == <<rpc, ridx, rseq, remain>>
bufferVars  == <<segment, flag>>
outputVars  == <<writer, file>>

vars == <<status, senderVars, netVars, mainVars, readerVars, sent,
          bufferVars, curSize, outputVars>>

\* The process still executes the program.
Running(p) == status[p] = "run"

\* The process is gone and its sockets are closed.
Gone(p) == status[p] \in {"done", "crashed", "killed"}

Init ==
  /\ status   = [p \in Procs |-> "run"]
  /\ sidx     = 0
  /\ chan     = [p \in Procs |-> [r \in Receivers |-> << >>]]
  /\ hdr      = [p \in Procs |-> [r \in Receivers |-> FALSE]]
  /\ main     = [r \in Receivers |-> IF N = 1 THEN "recv" ELSE "create"]
  /\ ivar     = [r \in Receivers |-> 0]
  /\ mseq     = [r \in Receivers |-> NoData]
  /\ own      = [r \in Receivers |-> << >>]
  /\ rpc      = [r \in Receivers |-> [t \in Slots |-> "unborn"]]
  /\ ridx     = [r \in Receivers |-> [t \in Slots |-> NoData]]
  /\ rseq     = [r \in Receivers |-> [t \in Slots |-> NoData]]
  /\ sent     = [r \in Receivers |-> [t \in Slots |-> 0]]
  /\ segment  = [r \in Receivers |-> [k \in Segs |-> NoData]]
  /\ flag     = [r \in Receivers |-> [k \in Segs |-> FALSE]]
  /\ remain   = [r \in Receivers |-> FromPeers(r)]
  /\ curSize  = [r \in Receivers |-> 0]
  /\ writer   = [r \in Receivers |-> "open"]
  /\ file     = [r \in Receivers |-> << >>]

-------------------------------------------------------------------------------
\* Process p goes down at once.  Of what it has written, each connection may
\* still deliver all that is in flight or none of it.
Die(p, how) ==
  /\ status' = [status EXCEPT ![p] = how]
  /\ \E lost \in SUBSET {r \in Receivers : chan[p][r] # << >>} :
       chan' = [chan EXCEPT ![p] = [r \in Receivers |->
                                     IF r \in lost THEN << >> ELSE @[r]]]

-------------------------------------------------------------------------------
(* The sender. *)

\* Bug for a mutant run: the loop runs one turn too many.
MoreToSendOffByOne == sidx <= total_seg

MoreToSend == sidx < total_seg

\* One turn of the round-robin loop.  A receiver that is gone either swallows
\* the write (its reset has not come back yet) or the write raises SIGPIPE,
\* which the program does not handle.
SendSegment ==
  LET r == Target(sidx) IN
  /\ Running(Sender)
  /\ MoreToSend
  /\ \/ /\ ~ Gone(r)
        /\ Len(chan[Sender][r]) < Cap
        /\ chan' = [chan EXCEPT ![Sender][r] = Append(@, sidx)]
        /\ sidx' = sidx + 1
        /\ UNCHANGED status
     \/ /\ Gone(r)
        /\ sidx' = sidx + 1
        /\ UNCHANGED <<status, chan>>
     \/ /\ Gone(r)
        /\ Die(Sender, "killed")
        /\ UNCHANGED sidx
  /\ UNCHANGED <<hdr, mainVars, readerVars, sent, bufferVars, curSize,
                 outputVars>>

\* The sender's progress thread ends when the bytes written reach the file size.
SenderConsoleEnded == BytesOf(sidx) >= FileSize

\* The loop is over, and the progress thread is joined.
SenderExit ==
  /\ Running(Sender)
  /\ ~ MoreToSend
  /\ SenderConsoleEnded
  /\ status' = [status EXCEPT ![Sender] = "done"]
  /\ UNCHANGED <<senderVars, netVars, mainVars, readerVars, sent, bufferVars,
                 curSize, outputVars>>

-------------------------------------------------------------------------------
(* The main thread of receiver r. *)

\* Two pthread_create()s: reader thread ivar[r], which is given the address of
\* ivar[r] itself, and the forwarding thread of the same connection.
CreatePeerThreads(r) ==
  /\ Running(r)
  /\ main[r] = "create"
  /\ rpc' = [rpc EXCEPT ![r][ivar[r]] = "born"]
  /\ main' = [main EXCEPT ![r] = "next"]
  /\ UNCHANGED <<status, senderVars, netVars, ivar, mseq, own, ridx, rseq,
                 remain, sent, bufferVars, curSize, outputVars>>

\* The i++ of the creation loop.  After the last turn the writer and progress
\* threads are created and the main thread enters getSegmentFromSock.
NextPeer(r) ==
  /\ Running(r)
  /\ main[r] = "next"
  /\ r \notin Late => rpc[r][ivar[r]] # "born"
  /\ ivar' = [ivar EXCEPT ![r] = @ + 1]
  /\ main' = [main EXCEPT ![r] = IF ivar[r] + 1 < N - 1 THEN "create" ELSE "recv"]
  /\ UNCHANGED <<status, senderVars, netVars, mseq, own, readerVars, sent,
                 bufferVars, curSize, outputVars>>

\* Reads a segment from the sender into the table and counts its bytes.
RecvFromSender(r) ==
  /\ Running(r)
  /\ main[r] = "recv"
  /\ Len(own[r]) < Quota(r)
  /\ chan[Sender][r] # << >>
  /\ LET k == Head(chan[Sender][r]) IN
       /\ chan' = [chan EXCEPT ![Sender][r] = Tail(@)]
       /\ mseq' = [mseq EXCEPT ![r] = k]
       /\ segment' = [segment EXCEPT ![r][k] = k]
       /\ curSize' = [curSize EXCEPT ![r] = @ + Size(k)]
  /\ main' = [main EXCEPT ![r] = "publish"]
  /\ UNCHANGED <<status, senderVars, hdr, ivar, own, readerVars, sent, flag,
                 outputVars>>

\* all_seg_flag[seq] = 1 shows the segment to the file writer,
\* recv_seg_num[sender_seg_cnt++] = seq to the forwarding threads.
PublishOwn(r) ==
  /\ Running(r)
  /\ main[r] = "publish"
  /\ flag' = [flag EXCEPT ![r][mseq[r]] = TRUE]
  /\ own' = [own EXCEPT ![r] = Append(@, mseq[r])]
  /\ main' = [main EXCEPT ![r] = "recv"]
  /\ UNCHANGED <<status, senderVars, netVars, ivar, mseq, readerVars, sent,
                 segment, curSize, outputVars>>

\* stored_size
Stored(r) == BytesOf(Len(file[r]))

\* The file writer has left writeSeg2File.
WriterEnded(r) == writer[r] = "failed" \/ Len(file[r]) = total_seg

\* Bug for a mutant run: the progress thread only looks at what is stored.
ConsoleEndedOnStored(r) == Stored(r) >= FileSize

\* The progress thread has left its loop: everything is received and stored.
ConsoleEnded(r) == curSize[r] >= FileSize /\ Stored(r) >= FileSize

\* The forwarding threads have left theirs.
ForwardersEnded(r) == \A t \in Slots : sent[r][t] = Quota(r)

\* Bugs for mutant runs: one kind of thread is not joined.
JoinedForwardersOnly(r)  == ForwardersEnded(r)
JoinedWithoutForwarders(r) == WriterEnded(r) /\ ConsoleEnded(r)

\* What the pthread_join()s of client() wait for.  Nothing waits for the reader
\* threads.
Joined(r) == ForwardersEnded(r) /\ WriterEnded(r) /\ ConsoleEnded(r)

\* getSegmentFromSock is over, the threads are joined and the segment table is
\* freed.
JoinAndFree(r) ==
  /\ Running(r)
  /\ main[r] = "recv"
  /\ Len(own[r]) = Quota(r)
  /\ Joined(r)
  /\ main' = [main EXCEPT ![r] = "freed"]
  /\ UNCHANGED <<status, senderVars, netVars, ivar, mseq, own, readerVars,
                 sent, bufferVars, curSize, outputVars>>

\* client() returns, main() returns and every thread still alive goes with it.
ReceiverExit(r) ==
  /\ Running(r)
  /\ main[r] = "freed"
  /\ status' = [status EXCEPT ![r] = "done"]
  /\ UNCHANGED <<senderVars, netVars, mainVars, readerVars, sent, bufferVars,
                 curSize, outputVars>>

-------------------------------------------------------------------------------
(* Reader thread t of receiver r (recvSegFromPeer). *)

\* recv_idx = *(int *)arg reads the creator's loop variable as it is now.  With
\* ivar[r] = N - 1 the thread takes recv_socks[recv_cnt], the entry that no peer
\* has: the pages malloc() got for 2^31 - 1 entries are zero, so it reads the
\* standard input, where nothing is assumed to be typed, and is astray.
StartReader(r, t) ==
  /\ Running(r)
  /\ rpc[r][t] = "born"
  /\ ridx' = [ridx EXCEPT ![r][t] = ivar[r]]
  /\ \/ /\ remain[r] > 0
        /\ ivar[r] < N - 1
        /\ rpc' = [rpc EXCEPT ![r][t] = "read"]
     \/ /\ remain[r] > 0
        /\ ivar[r] = N - 1
        /\ rpc' = [rpc EXCEPT ![r][t] = "astray"]
     \/ /\ remain[r] <= 0
        /\ rpc' = [rpc EXCEPT ![r][t] = "end"]
  /\ UNCHANGED <<status, senderVars, netVars, mainVars, rseq, remain, sent,
                 bufferVars, curSize, outputVars>>

\* The peer whose connection reader thread t reads.
Source(r, t) == peerAt[r][ridx[r][t]]

\* readSegmentInfo: the header of the oldest segment on the connection.  An
\* empty segment is its header alone.
ReadHeader(r, t) ==
  LET s == Source(r, t)
      k == Head(chan[s][r])
  IN
  /\ Running(r)
  /\ rpc[r][t] = "read"
  /\ chan[s][r] # << >>
  /\ ~ hdr[s][r]
  /\ k # NoData
  /\ rseq' = [rseq EXCEPT ![r][t] = k]
  /\ rpc' = [rpc EXCEPT ![r][t] = "body"]
  /\ IF Size(k) = 0
       THEN /\ chan' = [chan EXCEPT ![s][r] = Tail(@)]
            /\ UNCHANGED hdr
       ELSE /\ hdr' = [hdr EXCEPT ![s][r] = TRUE]
            /\ UNCHANGED chan
  /\ UNCHANGED <<status, senderVars, mainVars, ridx, remain, sent, bufferVars,
                 curSize, outputVars>>

\* The bytes at the front of the connection are not a header (another thread
\* has read that one and not yet the body) or carry no number: seq and size are
\* garbage that readSegmentInfo and its caller use as index and length.  What
\* the process does from there on is undefined and is not modelled.
ReadGarbage(r, t) ==
  LET s == Source(r, t) IN
  /\ Running(r)
  /\ rpc[r][t] = "read"
  /\ chan[s][r] # << >>
  /\ hdr[s][r] \/ Head(chan[s][r]) = NoData
  /\ status' = [status EXCEPT ![r] = "wild"]
  /\ UNCHANGED <<senderVars, netVars, mainVars, readerVars, sent, bufferVars,
                 curSize, outputVars>>

\* recvStr of the body, then the copy into segment[seq].
StoreBody(r, t) ==
  LET s == Source(r, t)
      k == rseq[r][t]
  IN
  /\ Running(r)
  /\ rpc[r][t] = "body"
  /\ Size(k) # 0 => chan[s][r] # << >>
  /\ IF Size(k) = 0
       THEN /\ segment' = [segment EXCEPT ![r][k] = k]
            /\ UNCHANGED netVars
       ELSE /\ segment' = [segment EXCEPT ![r][k] = Head(chan[s][r])]
            /\ chan' = [chan EXCEPT ![s][r] = Tail(@)]
            /\ hdr' = [hdr EXCEPT ![s][r] = FALSE]
  /\ rpc' = [rpc EXCEPT ![r][t] = "flag"]
  /\ UNCHANGED <<status, senderVars, mainVars, ridx, rseq, remain, sent, flag,
                 curSize, outputVars>>

\* What came from s has been read and s was gone before it had read all that r
\* wrote to it: the next read() of r on their connection fails.
Reset(r, s) == Gone(s) /\ chan[s][r] = << >> /\ chan[r][s] # << >>

\* read() of a header returns -1, which is taken for a large number, and what the
\* thread has of the segment before is taken for a new one.  If it has none its
\* number is garbage; if it was empty it is counted once more (to store and flag
\* it again changes nothing); for the content of any other recvStr loops for
\* ever.  The error is reported once, which hdr keeps.
HeaderReset(r, t) ==
  LET s == Source(r, t) IN
  /\ Running(r)
  /\ rpc[r][t] = "read"
  /\ Reset(r, s)
  /\ ~ hdr[s][r]
  /\ hdr' = [hdr EXCEPT ![s][r] = TRUE]
  /\ IF rseq[r][t] = NoData
       THEN /\ status' = [status EXCEPT ![r] = "wild"]
            /\ UNCHANGED rpc
       ELSE /\ rpc' = [rpc EXCEPT ![r][t] =
                        IF Size(rseq[r][t]) = 0 THEN "count" ELSE "astray"]
            /\ UNCHANGED status
  /\ UNCHANGED <<senderVars, chan, mainVars, ridx, rseq, remain, sent, bufferVars,
                 curSize, outputVars>>

\* The first read() of a content returns -1 and recvStr with it: content[-1] is
\* written, and the content of the segment before is stored under this one's
\* number.  What the process does from there on is not modelled.
BodyReset(r, t) ==
  /\ Running(r)
  /\ rpc[r][t] = "body"
  /\ Size(rseq[r][t]) # 0
  /\ Reset(r, Source(r, t))
  /\ status' = [status EXCEPT ![r] = "wild"]
  /\ UNCHANGED <<senderVars, netVars, mainVars, readerVars, sent, bufferVars,
                 curSize, outputVars>>

\* all_seg_flag[seq] = 1
FlagFromPeer(r, t) ==
  /\ Running(r)
  /\ rpc[r][t] = "flag"
  /\ flag' = [flag EXCEPT ![r][rseq[r][t]] = TRUE]
  /\ rpc' = [rpc EXCEPT ![r][t] = "count"]
  /\ UNCHANGED <<status, senderVars, netVars, mainVars, ridx, rseq, remain,
                 sent, segment, curSize, outputVars>>

\* remain_seg_num-- under remain_mutx
CountDown(r, t) ==
  /\ Running(r)
  /\ rpc[r][t] = "count"
  /\ remain' = [remain EXCEPT ![r] = @ - 1]
  /\ rpc' = [rpc EXCEPT ![r][t] = "update"]
  /\ UNCHANGED <<status, senderVars, netVars, mainVars, ridx, rseq, sent,
                 bufferVars, curSize, outputVars>>

\* updateRecvInfo with segment[seq]->size, then the loop test, which reads
\* remain_seg_num without the mutex.  Nor is cur_size added to under one: of two
\* readers with the same recv_idx one may overwrite what the other adds.
UpdateRecvInfo(r, t) ==
  /\ Running(r)
  /\ rpc[r][t] = "update"
  /\ \/ curSize' = [curSize EXCEPT ![r] = @ + Size(rseq[r][t])]
     \/ /\ \E u \in Slots \ {t} : rpc[r][u] = "update" /\ ridx[r][u] = ridx[r][t]
        /\ UNCHANGED curSize
  /\ rpc' = [rpc EXCEPT ![r][t] = IF remain[r] > 0 THEN "read" ELSE "end"]
  /\ UNCHANGED <<status, senderVars, netVars, mainVars, ridx, rseq, remain,
                 sent, bufferVars, outputVars>>

-------------------------------------------------------------------------------
(* Forwarding thread t of receiver r (sendSeg2Peers): the segments received *)
(* from the sender, in the order of recv_seg_num.                           *)

ForwardSegment(r, t) ==
  LET q == peerAt[r][t]
      k == own[r][sent[r][t] + 1]
  IN
  /\ Running(r)
  /\ rpc[r][t] # "unborn"
  /\ sent[r][t] < Len(own[r])
  /\ \/ /\ ~ Gone(q)
        /\ Len(chan[r][q]) < Cap
        /\ chan' = [chan EXCEPT ![r][q] = Append(@, segment[r][k])]
        /\ sent' = [sent EXCEPT ![r][t] = @ + 1]
        /\ UNCHANGED status
     \/ /\ Gone(q)
        /\ sent' = [sent EXCEPT ![r][t] = @ + 1]
        /\ UNCHANGED <<status, chan>>
     \/ /\ Gone(q)
        /\ Die(r, "killed")
        /\ UNCHANGED sent
  /\ UNCHANGED <<senderVars, hdr, mainVars, readerVars, bufferVars, curSize,
                 outputVars>>

-------------------------------------------------------------------------------
(* The file writer of receiver r. *)

\* The thread is created after the loop that creates the peer threads.
OpenFile(r) ==
  /\ Running(r)
  /\ main[r] \notin {"create", "next"}
  /\ writer[r] = "open"
  /\ \/ writer' = [writer EXCEPT ![r] = "write"]
     \/ /\ OpenMayFail
        /\ writer' = [writer EXCEPT ![r] = "failed"]
  /\ UNCHANGED <<status, senderVars, netVars, mainVars, readerVars, sent,
                 bufferVars, curSize, file>>

\* Bug for a mutant run: the writer takes whatever is in the table.
NextFlaggedAlways(r) == Len(file[r]) < total_seg

\* There is a next segment of the file and it is flagged.
NextFlagged(r) == Len(file[r]) < total_seg /\ flag[r][Len(file[r])]

\* Busy-waits for the flag of the next segment of the file, then writes it.
WriteSegment(r) ==
  LET k == Len(file[r]) IN
  /\ Running(r)
  /\ writer[r] = "write"
  /\ NextFlagged(r)
  /\ file' = [file EXCEPT ![r] = Append(@, segment[r][k])]
  /\ UNCHANGED <<status, senderVars, netVars, mainVars, readerVars, sent,
                 bufferVars, curSize, writer>>

-------------------------------------------------------------------------------
\* A process dies: its threads stop and its sockets close.
Crash(p) ==
  /\ p \in Crashable
  /\ Running(p)
  /\ Die(p, "crashed")
  /\ UNCHANGED <<senderVars, hdr, mainVars, readerVars, sent, bufferVars,
                 curSize, outputVars>>

\* Every process has left the program.
Terminated ==
  /\ \A p \in Procs : ~ Running(p)
  /\ UNCHANGED vars

MainThread(r) ==
  \/ CreatePeerThreads(r)
  \/ NextPeer(r)
  \/ RecvFromSender(r)
  \/ PublishOwn(r)
  \/ JoinAndFree(r)
  \/ ReceiverExit(r)

PeerThreads(r, t) ==
  \/ StartReader(r, t)
  \/ ReadHeader(r, t)
  \/ ReadGarbage(r, t)
  \/ StoreBody(r, t)
  \/ HeaderReset(r, t)
  \/ BodyReset(r, t)
  \/ FlagFromPeer(r, t)
  \/ CountDown(r, t)
  \/ UpdateRecvInfo(r, t)
  \/ ForwardSegment(r, t)

FileWriter(r) ==
  \/ OpenFile(r)
  \/ WriteSegment(r)

ProgramStep ==
  \/ SendSegment
  \/ SenderExit
  \/ \E r \in Receivers : MainThread(r) \/ FileWriter(r)
  \/ \E r \in Receivers, t \in Slots : PeerThreads(r, t)

Next ==
  \/ ProgramStep
  \/ \E p \in Procs : Crash(p)
  \/ Terminated

Spec == Init /\ [][Next]_vars

\* Some thread that can go on does: no thread is assumed to be scheduled before
\* any other.
FairSpec == Spec /\ WF_vars(ProgramStep)

-------------------------------------------------------------------------------
(* Properties *)

ReaderStates == {"unborn", "born", "read", "body", "flag", "count", "update",
                 "astray", "end"}

TypeOK ==
  /\ status \in [Procs -> {"run", "done", "crashed", "killed", "wild"}]
  /\ sidx \in 0 .. total_seg
  /\ chan \in [Procs -> [Receivers -> Seq(Segs \cup {NoData})]]
  /\ hdr \in [Procs -> [Receivers -> BOOLEAN]]
  /\ main \in [Receivers -> {"create", "next", "recv", "publish", "freed"}]
  /\ ivar \in [Receivers -> 0 .. N - 1]
  /\ mseq \in [Receivers -> Segs \cup {NoData}]
  /\ own \in [Receivers -> Seq(Segs)]
  /\ rpc \in [Receivers -> [Slots -> ReaderStates]]
  /\ ridx \in [Receivers -> [Slots -> Int]]
  /\ rseq \in [Receivers -> [Slots -> Segs \cup {NoData}]]
  /\ sent \in [Receivers -> [Slots -> Nat]]
  /\ segment \in [Receivers -> [Segs -> Segs \cup {NoData}]]
  /\ flag \in [Receivers -> [Segs -> BOOLEAN]]
  /\ remain \in [Receivers -> Int]
  /\ curSize \in [Receivers -> Nat]
  /\ writer \in [Receivers -> {"open", "write", "failed"}]
  /\ file \in [Receivers -> Seq(Segs \cup {NoData})]

\* Whatever the schedule, the copy a receiver is writing is a prefix of the
\* file: no segment is written before its bytes are there, twice, out of order
\* or from another segment's bytes (writeSeg2File against the threads that
\* fill segment[] and set all_seg_flag).
FilePrefix ==
  \A r \in Receivers :
    /\ Len(file[r]) <= total_seg
    /\ \A j \in 1 .. Len(file[r]) : file[r][j] = j - 1

\* A reader thread only leaves its loop when every segment its receiver was to
\* get from its peers has arrived: remain_seg_num, shared by all the reader
\* threads, never runs out early.
ReadersEndLast ==
  \A r \in Receivers :
    (\E t \in Slots : rpc[r][t] = "end") =>
      \A k \in Segs : Target(k) # r => flag[r][k]

\* When a receiver's process is finished nothing is on its way to it: no
\* connection to it holds unread bytes, and neither the sender nor a forwarding
\* thread of a peer still has a segment to write to its closed socket, which
\* would kill the writer with SIGPIPE.
DoneIsQuiet ==
  \A r \in Receivers : status[r] = "done" =>
    /\ \A p \in Procs : chan[p][r] = << >>
    /\ \A k \in sidx .. total_seg - 1 : Target(k) # r
    /\ \A q \in Receivers, t \in Slots :
         peerAt[q][t] = r => sent[q][t] = Quota(q)

\* Reader threads inside the loop body of recvSegFromPeer after a segment has
\* been read: they still write to, or read from, the segment table.
InSegmentTable == {"body", "flag", "count", "update"}

\* The segment table is freed only when no reader thread is still using it:
\* the reader threads are detached, so nothing but the byte counts the progress
\* thread waits for stands between them and the free() at the end of client().
NoUseAfterFree ==
  \A r \in Receivers : main[r] = "freed" =>
    \A t \in Slots : rpc[r][t] \notin InSegmentTable

-------------------------------------------------------------------------------
(* Why FilePrefix holds: where every segment number in the system came from *)
(* and what is known of whoever has it.                                     *)

\* The threads index the tables with what their program counters promise: the
\* creation loop with a slot, a reader that reads with a slot, and whoever holds
\* a segment with that segment's number.  The sender writes only segments of the
\* file.
LocalsOK ==
  /\ chan[Sender] \in [Receivers -> Seq(Segs)]
  /\ \A r \in Receivers :
       /\ main[r] \in {"create", "next"} => ivar[r] \in Slots
       /\ main[r] = "publish" => mseq[r] \in Segs
  /\ \A r \in Receivers, t \in Slots :
       /\ rpc[r][t] \in {"read"} \cup InSegmentTable => ridx[r][t] \in Slots
       /\ rpc[r][t] \in InSegmentTable => rseq[r][t] \in Segs

\* An entry of the table is empty or right, and right once it is flagged.
TableOK ==
  \A r \in Receivers, k \in Segs :
    /\ segment[r][k] \in {NoData, k}
    /\ flag[r][k] => segment[r][k] = k

\* Segment k was dealt to q, who has flagged it.
HasOwn(q, k) == Target(k) = q /\ flag[q][k]

\* What a receiver forwards is its own.
OwnOK ==
  \A r \in Receivers : \A i \in 1 .. Len(own[r]) : HasOwn(r, own[r][i])

\* The segment the main thread is about to publish was dealt to its receiver
\* and is in the table.
PublishOK ==
  \A r \in Receivers : main[r] = "publish" =>
    Target(mseq[r]) = r /\ segment[r][mseq[r]] = mseq[r]

\* What is in flight from the sender was dealt to the reader ...
FromSenderOK ==
  \A r \in Receivers : \A i \in 1 .. Len(chan[Sender][r]) :
    Target(chan[Sender][r][i]) = r

\* ... and what is in flight from a peer, to that peer.
FromPeersOK ==
  \A q, r \in Receivers : \A i \in 1 .. Len(chan[q][r]) :
    chan[q][r][i] \in Segs /\ HasOwn(q, chan[q][r][i])

\* A segment a reader holds belongs to the peer it reads from.
ReadersHoldOwn ==
  \A r \in Receivers, t \in Slots :
    rpc[r][t] \in {"body", "flag"} => HasOwn(Source(r, t), rseq[r][t])

\* Once a reader has stored it the entry is right.
ReadersStored ==
  \A r \in Receivers, t \in Slots :
    rpc[r][t] = "flag" => segment[r][rseq[r][t]] = rseq[r][t]

\* Reader thread t is about to read a body from its connection.
ReadsBody(r, t) == rpc[r][t] = "body" /\ Size(rseq[r][t]) # 0

\* The body a reader is about to read is at the front of the connection, unless
\* the peer died and took it along ...
BodyFirst ==
  \A r \in Receivers, t \in Slots : ReadsBody(r, t) =>
    /\ hdr[Source(r, t)][r]
    /\ chan[Source(r, t)][r] # << >> => Head(chan[Source(r, t)][r]) = rseq[r][t]

\* ... and no other reader is about to read it.
BodyAlone ==
  \A r \in Receivers : \A t, u \in Slots :
    ReadsBody(r, t) /\ ReadsBody(r, u) /\ Source(r, t) = Source(r, u) => t = u

\* A header is only ahead of its body where the body is there, as long as the
\* writer lives: nothing written later can take its place.
HeadersOK ==
  \A q, r \in Receivers : hdr[q][r] /\ Running(q) => chan[q][r] # << >>

\* Only an open file is written, and the segment table is freed after the copy
\* is whole, unless the file is empty and could not be opened.
WriterOK ==
  \A r \in Receivers :
    /\ writer[r] # "write" => file[r] = << >>
    /\ writer[r] = "failed" => OpenMayFail
    /\ main[r] = "freed" => Len(file[r]) = total_seg \/ (FileSize = 0 /\ OpenMayFail)

IInv ==
  /\ LocalsOK
  /\ TableOK
  /\ OwnOK
  /\ PublishOK
  /\ FromSenderOK
  /\ FromPeersOK
  /\ ReadersHoldOwn
  /\ ReadersStored
  /\ BodyFirst
  /\ BodyAlone
  /\ HeadersOK
  /\ FilePrefix
  /\ WriterOK

-------------------------------------------------------------------------------
\* Something has gone wrong that the program does not cause or that it only
\* causes by the order its threads start in: a crash, a copy that cannot be
\* opened, a reader thread that took another connection than its own.
Disturbed ==
  \/ \E p \in Procs : status[p] = "crashed"
  \/ \E r \in Receivers : writer[r] = "failed"
  \/ \E r \in Receivers, t \in Slots : ridx[r][t] \notin {NoData, t}

\* Undisturbed, every process finishes, although connections fill up and
\* forwarding threads wait for readers of processes that wait themselves; none
\* is killed by writing to a receiver that has finished before it.
AllFinish == <>(Disturbed \/ \A p \in Procs : status[p] = "done")

\* The program does what FileSharing promises.
Promise == INSTANCE FileSharing WITH
  have     <- [r \in Receivers |-> {k \in Segs : flag[r][k]}],
  copied   <- [r \in Receivers |-> Len(file[r])],
  finished <- [r \in Receivers |-> status[r] = "done"]

ImplementsFileSharing == Promise!Spec

=============================================================================
