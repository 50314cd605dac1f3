---------------------------- MODULE Transfer_proofs ----------------------------
(***************************************************************************)
(* What TLAPS proves about Transfer, for any number of receivers, any file *)
(* and segment size, any connection buffer, and any of the schedules and   *)
(* failures the constants allow: types, the data phase's safety, that it   *)
(* implements FileSharing, and how it ends.                                *)
(***************************************************************************)
EXTENDS Transfer, FiniteSetTheorems, TLAPS

-------------------------------------------------------------------------------
(* Arithmetic of the segmentation. *)

\* Division and remainder stay in range.
LEMMA DivMod ==
  ASSUME NEW a \in Nat, NEW b \in Nat \ {0}
  PROVE  a \div b \in Nat /\ a % b \in 0 .. b - 1
  OBVIOUS

\* A file has at least one segment, numbered from 0, and no negative size
\* appears among its segments (server.c:90, file.c:33-47).
LEMMA Segmentation ==
  /\ total_seg \in Nat \ {0}
  /\ \A k \in Segs : Size(k) \in Nat
<1>1. FileSize \div SegSize \in Nat /\ FileSize % SegSize \in Nat
  BY DivMod, TransferAssumption
<1>2. total_seg \in Nat \ {0}
  BY <1>1 DEF total_seg
<1> QED
  BY <1>1, <1>2, TransferAssumption DEF Segs, Size

\* Every segment is dealt to a receiver, and what each of them is told to expect
\* is a natural number.
LEMMA Dealing ==
  /\ \A k \in Nat : Target(k) \in Receivers
  /\ \A r \in Receivers : Quota(r) \in Nat
<1>1. N \in Nat \ {0}
  BY TransferAssumption
<1>2. \A k \in Nat : k % N \in 0 .. N - 1
  BY <1>1, DivMod
<1>3. total_seg \div N \in Nat
  BY <1>1, DivMod, Segmentation
<1> QED
  BY <1>1, <1>2, <1>3 DEF Target, Quota, Receivers

\* The other ends of a receiver's connections are other receivers.
LEMMA PeersAreReceivers ==
  \A r \in Receivers, j \in Slots : peerAt[r][j] \in Receivers /\ peerAt[r][j] # r
  BY TransferAssumption

LEMMA NNat == N \in Nat \ {0}
  BY TransferAssumption

-------------------------------------------------------------------------------
(* Type correctness. *)

TypeInv == TypeOK /\ LocalsOK

LEMMA Domains ==
  Receivers \subseteq Procs /\ Sender \in Procs /\ Sender \notin Receivers
  BY NNat DEF Receivers, Procs, Sender

LEMMA TypeInit == Init => TypeInv
<1> SUFFICES ASSUME Init PROVE TypeInv
  OBVIOUS
<1>1. \A r \in Receivers : FromPeers(r) \in Int
  BY Segmentation, Dealing DEF FromPeers
<1>2. 0 \in 0 .. total_seg /\ 0 \in 0 .. N - 1
  BY Segmentation, NNat
<1>3. TypeOK
  BY <1>1, <1>2 DEF Init, TypeOK, ReaderStates, NoData
<1>4. N # 1 => 0 \in Slots
  BY NNat DEF Slots
<1>5. LocalsOK
  BY <1>4, Domains DEF Init, LocalsOK, InSegmentTable
<1> QED
  BY <1>3, <1>5 DEF TypeInv

\* What a connection carries.
LEMMA ChanType ==
  ASSUME TypeOK, NEW p \in Procs, NEW r \in Receivers
  PROVE  chan[p][r] \in Seq(Segs \cup {NoData})
  BY DEF TypeOK

LEMMA TypeDie ==
  ASSUME TypeOK, NEW p \in Procs, NEW how \in {"crashed", "killed"}, Die(p, how)
  PROVE  /\ status' \in [Procs -> {"run", "done", "crashed", "killed", "wild"}]
         /\ chan' \in [Procs -> [Receivers -> Seq(Segs \cup {NoData})]]
         /\ chan[Sender] \in [Receivers -> Seq(Segs)]
              => chan'[Sender] \in [Receivers -> Seq(Segs)]
<1>1. PICK lost \in SUBSET {r \in Receivers : chan[p][r] # << >>} :
        chan' = [chan EXCEPT ![p] = [r \in Receivers |->
                                      IF r \in lost THEN << >> ELSE @[r]]]
  BY DEF Die
<1>2. status' \in [Procs -> {"run", "done", "crashed", "killed", "wild"}]
  BY DEF Die, TypeOK
<1>3. chan' \in [Procs -> [Receivers -> Seq(Segs \cup {NoData})]]
  BY <1>1 DEF TypeOK
<1>4. chan[Sender] \in [Receivers -> Seq(Segs)]
        => chan'[Sender] \in [Receivers -> Seq(Segs)]
  BY <1>1, Domains DEF TypeOK
<1> QED
  BY <1>2, <1>3, <1>4

LEMMA TypeStep == TypeInv /\ [Next]_vars => TypeInv'
<1> SUFFICES ASSUME TypeInv, [Next]_vars PROVE TypeInv'
  OBVIOUS
<1> USE DEF TypeInv, senderVars, netVars, mainVars, readerVars, bufferVars,
            outputVars
<1>1. ASSUME SendSegment PROVE TypeInv'
  <2>1. sidx \in Segs /\ sidx + 1 \in 0 .. total_seg
    BY <1>1, Segmentation DEF SendSegment, MoreToSend, Segs, TypeOK
  <2>2. Target(sidx) \in Receivers
    BY <2>1, Segmentation, Dealing DEF Segs
  <2>3. /\ status' \in [Procs -> {"run", "done", "crashed", "killed", "wild"}]
        /\ chan' \in [Procs -> [Receivers -> Seq(Segs \cup {NoData})]]
        /\ sidx' \in 0 .. total_seg
        /\ chan'[Sender] \in [Receivers -> Seq(Segs)]
    <3>1. CASE Die(Sender, "killed") /\ UNCHANGED sidx
      BY <3>1, TypeDie, Domains DEF TypeOK, LocalsOK
    <3>2. CASE /\ chan' = [chan EXCEPT ![Sender][Target(sidx)] = Append(@, sidx)]
               /\ sidx' = sidx + 1
               /\ UNCHANGED status
      <4>1. chan' \in [Procs -> [Receivers -> Seq(Segs \cup {NoData})]]
        <5>1. chan[Sender][Target(sidx)] \in Seq(Segs \cup {NoData})
          BY <2>2, Domains DEF TypeOK
        <5>2. Append(chan[Sender][Target(sidx)], sidx) \in Seq(Segs \cup {NoData})
          BY <5>1, <2>1
        <5> QED
          BY <3>2, <5>2, <2>2, Domains DEF TypeOK
      <4>2. chan'[Sender] = [chan[Sender] EXCEPT ![Target(sidx)] = Append(@, sidx)]
        BY <3>2, Domains DEF TypeOK
      <4>3. chan'[Sender] \in [Receivers -> Seq(Segs)]
        BY <4>2, <2>1, <2>2 DEF LocalsOK
      <4> QED
        BY <3>2, <4>1, <4>3, <2>1 DEF TypeOK
    <3>3. CASE sidx' = sidx + 1 /\ UNCHANGED <<status, chan>>
      BY <3>3, <2>1 DEF TypeOK, LocalsOK
    <3> QED
      BY <1>1, <3>1, <3>2, <3>3 DEF SendSegment
  <2>4. TypeOK'
    BY <1>1, <2>3 DEF SendSegment, TypeOK
  <2>5. LocalsOK'
    BY <1>1, <2>3 DEF SendSegment, LocalsOK
  <2> QED
    BY <2>4, <2>5
<1>2. ASSUME SenderExit PROVE TypeInv'
  <2>1. status' \in [Procs -> {"run", "done", "crashed", "killed", "wild"}]
    BY <1>2, Domains DEF SenderExit, TypeOK, ReaderStates, LocalsOK, InSegmentTable
  <2>2. TypeOK'
    BY <1>2, <2>1 DEF SenderExit, TypeOK
  <2>3. LocalsOK'
    BY <1>2, Domains DEF SenderExit, TypeOK, LocalsOK, InSegmentTable
  <2> QED
    BY <2>2, <2>3
<1>3. ASSUME NEW r \in Receivers, CreatePeerThreads(r) PROVE TypeInv'
  <2>1. rpc' \in [Receivers -> [Slots -> ReaderStates]]
    BY <1>3 DEF CreatePeerThreads, TypeOK, ReaderStates, LocalsOK, InSegmentTable
  <2>2. main' \in [Receivers -> {"create", "next", "recv", "publish", "freed"}]
    BY <1>3 DEF CreatePeerThreads, TypeOK, ReaderStates, LocalsOK, InSegmentTable
  <2>3. TypeOK'
    BY <1>3, <2>1, <2>2 DEF CreatePeerThreads, TypeOK
  <2>4. LocalsOK'
    BY <1>3 DEF CreatePeerThreads, TypeOK, LocalsOK, InSegmentTable
  <2> QED
    BY <2>3, <2>4
<1>4. ASSUME NEW r \in Receivers, NextPeer(r) PROVE TypeInv'
  <2>1. ivar[r] \in 0 .. N - 2
    BY <1>4 DEF NextPeer, LocalsOK, Slots
  <2>2. ivar' \in [Receivers -> 0 .. N - 1]
    BY <1>4, <2>1, NNat DEF NextPeer, TypeOK
  <2>3. main' \in [Receivers -> {"create", "next", "recv", "publish", "freed"}]
    BY <1>4 DEF NextPeer, TypeOK
  <2>4. TypeOK'
    BY <1>4, <2>2, <2>3 DEF NextPeer, TypeOK
  <2>5. main'[r] # "recv" => ivar'[r] \in Slots
    <3>1. main'[r] = IF ivar[r] + 1 < N - 1 THEN "create" ELSE "recv"
      BY <1>4 DEF NextPeer, TypeOK
    <3>2. ivar'[r] = ivar[r] + 1
      BY <1>4 DEF NextPeer, TypeOK
    <3> QED
      BY <2>1, <3>1, <3>2, NNat DEF Slots
  <2>6. main'[r] # "publish"
    BY <1>4 DEF NextPeer, TypeOK
  <2>7. LocalsOK'
    BY <1>4, <2>5, <2>6 DEF NextPeer, TypeOK, LocalsOK
  <2> QED
    BY <2>4, <2>7
<1>5. ASSUME NEW r \in Receivers, RecvFromSender(r) PROVE TypeInv'
  <2> DEFINE k == Head(chan[Sender][r])
  <2>1. k \in Segs
    BY <1>5 DEF RecvFromSender, LocalsOK
  <2>2. Tail(chan[Sender][r]) \in Seq(Segs \cup {NoData})
    BY <1>5, Domains DEF RecvFromSender, TypeOK
  <2>3. chan' \in [Procs -> [Receivers -> Seq(Segs \cup {NoData})]]
    BY <1>5, <2>2, Domains DEF RecvFromSender, TypeOK
  <2>4. /\ mseq' \in [Receivers -> Segs \cup {NoData}]
        /\ segment' \in [Receivers -> [Segs -> Segs \cup {NoData}]]
    BY <1>5, <2>1 DEF RecvFromSender, TypeOK
  <2>5. curSize' \in [Receivers -> Nat]
    <3>1. curSize[r] + Size(k) \in Nat
      BY <2>1, Segmentation DEF TypeOK
    <3> QED
      BY <1>5, <3>1 DEF RecvFromSender, TypeOK
  <2>6. main' \in [Receivers -> {"create", "next", "recv", "publish", "freed"}]
    BY <1>5 DEF RecvFromSender, TypeOK
  <2>7. TypeOK'
    BY <1>5, <2>3, <2>4, <2>5, <2>6 DEF RecvFromSender, TypeOK
  <2>8. mseq'[r] \in Segs
    BY <1>5, <2>1 DEF RecvFromSender, TypeOK
  <2>9. chan'[Sender] \in [Receivers -> Seq(Segs)]
    BY <1>5, Domains DEF RecvFromSender, TypeOK, LocalsOK
  <2>10. LocalsOK'
    BY <1>5, <2>8, <2>9 DEF RecvFromSender, TypeOK, LocalsOK
  <2> QED
    BY <2>7, <2>10
<1>6. ASSUME NEW r \in Receivers, PublishOwn(r) PROVE TypeInv'
  <2>1. flag' \in [Receivers -> [Segs -> BOOLEAN]]
    BY <1>6 DEF PublishOwn, TypeOK, ReaderStates, LocalsOK, InSegmentTable
  <2>2. own' \in [Receivers -> Seq(Segs)]
    BY <1>6 DEF PublishOwn, TypeOK, ReaderStates, LocalsOK, InSegmentTable
  <2>3. main' \in [Receivers -> {"create", "next", "recv", "publish", "freed"}]
    BY <1>6 DEF PublishOwn, TypeOK, ReaderStates, LocalsOK, InSegmentTable
  <2>4. TypeOK'
    BY <1>6, <2>1, <2>2, <2>3 DEF PublishOwn, TypeOK
  <2>5. LocalsOK'
    BY <1>6 DEF PublishOwn, TypeOK, LocalsOK, InSegmentTable
  <2> QED
    BY <2>4, <2>5
<1>7. ASSUME NEW r \in Receivers, JoinAndFree(r) PROVE TypeInv'
  <2>1. main' \in [Receivers -> {"create", "next", "recv", "publish", "freed"}]
    BY <1>7 DEF JoinAndFree, TypeOK, ReaderStates, LocalsOK, InSegmentTable
  <2>2. TypeOK'
    BY <1>7, <2>1 DEF JoinAndFree, TypeOK
  <2>3. LocalsOK'
    BY <1>7 DEF JoinAndFree, TypeOK, LocalsOK, InSegmentTable
  <2> QED
    BY <2>2, <2>3
<1>8. ASSUME NEW r \in Receivers, ReceiverExit(r) PROVE TypeInv'
  <2>1. status' \in [Procs -> {"run", "done", "crashed", "killed", "wild"}]
    BY <1>8, Domains DEF ReceiverExit, TypeOK, ReaderStates, LocalsOK, InSegmentTable
  <2>2. TypeOK'
    BY <1>8, <2>1 DEF ReceiverExit, TypeOK
  <2>3. LocalsOK'
    BY <1>8, Domains DEF ReceiverExit, TypeOK, LocalsOK, InSegmentTable
  <2> QED
    BY <2>2, <2>3
<1>9. ASSUME NEW r \in Receivers, NEW t \in Slots, StartReader(r, t) PROVE TypeInv'
  <2>1. ivar[r] \in 0 .. N - 1
    BY DEF TypeOK
  <2>2. ridx' \in [Receivers -> [Slots -> Int]]
    BY <1>9, <2>1, NNat DEF StartReader, TypeOK
  <2> PICK pc \in {"read", "astray", "end"} : rpc' = [rpc EXCEPT ![r][t] = pc]
    BY <1>9 DEF StartReader
  <2>3. rpc' \in [Receivers -> [Slots -> ReaderStates]]
    BY DEF TypeOK, ReaderStates
  <2>4. TypeOK'
    BY <1>9, <2>2, <2>3 DEF StartReader, TypeOK
  <2>5. /\ rpc'[r][t] \in {"read", "astray", "end"}
        /\ rpc'[r][t] = "read" => ridx'[r][t] \in Slots
    BY <1>9, <2>1, NNat DEF StartReader, TypeOK, Slots
  <2>6. \A q \in Receivers, u \in Slots : q # r \/ u # t =>
          rpc'[q][u] = rpc[q][u] /\ ridx'[q][u] = ridx[q][u]
    <3>1. ridx' = [ridx EXCEPT ![r][t] = ivar[r]]
      BY <1>9 DEF StartReader
    <3> QED
      BY <3>1 DEF TypeOK
  <2>7. LocalsOK'
    BY <1>9, <2>5, <2>6 DEF StartReader, LocalsOK, InSegmentTable
  <2> QED
    BY <2>4, <2>7
<1>10. ASSUME NEW r \in Receivers, NEW t \in Slots, ReadHeader(r, t) PROVE TypeInv'
  <2>1. PICK s \in Receivers : s = Source(r, t)
    BY <1>10, PeersAreReceivers DEF ReadHeader, LocalsOK, Source, InSegmentTable
  <2> DEFINE k == Head(chan[s][r])
  <2>2. k \in Segs /\ Tail(chan[s][r]) \in Seq(Segs \cup {NoData})
    <3>1. chan[s][r] # << >> /\ k # NoData
      BY <1>10, <2>1 DEF ReadHeader
    <3>2. chan[s][r] \in Seq(Segs \cup {NoData})
      BY ChanType, Domains
    <3> QED
      BY <3>1, <3>2
  <2>3. /\ chan' \in [Procs -> [Receivers -> Seq(Segs \cup {NoData})]]
        /\ chan'[Sender] = chan[Sender]
        /\ hdr' \in [Procs -> [Receivers -> BOOLEAN]]
    <3>1. CASE Size(k) = 0
      <4>1. chan' = [chan EXCEPT ![s][r] = Tail(@)] /\ hdr' = hdr
        BY <3>1, <1>10, <2>1 DEF ReadHeader
      <4> QED
        BY <4>1, <2>1, <2>2, Domains DEF TypeOK
    <3>2. CASE Size(k) # 0
      <4>1. chan' = chan /\ hdr' = [hdr EXCEPT ![s][r] = TRUE]
        BY <3>2, <1>10, <2>1 DEF ReadHeader
      <4> QED
        BY <4>1, <2>1, Domains DEF TypeOK
    <3> QED
      BY <3>1, <3>2
  <2>4. /\ rseq' \in [Receivers -> [Slots -> Segs \cup {NoData}]]
        /\ rpc' \in [Receivers -> [Slots -> ReaderStates]]
    BY <1>10, <2>1, <2>2 DEF ReadHeader, TypeOK, ReaderStates
  <2>5. TypeOK'
    BY <1>10, <2>3, <2>4 DEF ReadHeader, TypeOK
  <2>6. rpc'[r][t] = "body" /\ rseq'[r][t] \in Segs /\ ridx[r][t] \in Slots
    BY <1>10, <2>1, <2>2 DEF ReadHeader, TypeOK, LocalsOK
  <2>7. \A q \in Receivers, u \in Slots : q # r \/ u # t =>
          rpc'[q][u] = rpc[q][u] /\ rseq'[q][u] = rseq[q][u]
    BY <1>10 DEF ReadHeader, TypeOK
  <2>8. LocalsOK'
    BY <1>10, <2>3, <2>6, <2>7 DEF ReadHeader, LocalsOK, InSegmentTable
  <2> QED
    BY <2>5, <2>8
<1>11. ASSUME NEW r \in Receivers, NEW t \in Slots, ReadGarbage(r, t) PROVE TypeInv'
  <2>1. status' \in [Procs -> {"run", "done", "crashed", "killed", "wild"}]
    BY <1>11, Domains DEF ReadGarbage, TypeOK, ReaderStates, LocalsOK, InSegmentTable
  <2>2. TypeOK'
    BY <1>11, <2>1 DEF ReadGarbage, TypeOK
  <2>3. LocalsOK'
    BY <1>11, Domains DEF ReadGarbage, TypeOK, LocalsOK, InSegmentTable
  <2> QED
    BY <2>2, <2>3
<1>12. ASSUME NEW r \in Receivers, NEW t \in Slots, StoreBody(r, t) PROVE TypeInv'
  <2> DEFINE k == rseq[r][t]
  <2>1. PICK s \in Receivers : s = Source(r, t) /\ k \in Segs
    BY <1>12, PeersAreReceivers DEF StoreBody, LocalsOK, Source, InSegmentTable
  <2>2. /\ chan' \in [Procs -> [Receivers -> Seq(Segs \cup {NoData})]]
        /\ chan'[Sender] = chan[Sender]
        /\ hdr' \in [Procs -> [Receivers -> BOOLEAN]]
        /\ segment' \in [Receivers -> [Segs -> Segs \cup {NoData}]]
    <3>1. CASE Size(k) = 0
      <4>1. /\ segment' = [segment EXCEPT ![r][k] = k]
            /\ chan' = chan
            /\ hdr' = hdr
        BY <3>1, <1>12 DEF StoreBody, netVars
      <4> HIDE DEF k
      <4> QED
        BY <4>1, <2>1 DEF TypeOK
    <3>2. CASE Size(k) # 0
      <4>1. /\ chan[s][r] # << >>
            /\ segment' = [segment EXCEPT ![r][k] = Head(chan[s][r])]
            /\ chan' = [chan EXCEPT ![s][r] = Tail(@)]
            /\ hdr' = [hdr EXCEPT ![s][r] = FALSE]
        BY <3>2, <1>12, <2>1 DEF StoreBody
      <4> HIDE DEF k
      <4>2. chan[s][r] \in Seq(Segs \cup {NoData})
        BY ChanType, Domains
      <4>3. /\ Head(chan[s][r]) \in Segs \cup {NoData}
            /\ Tail(chan[s][r]) \in Seq(Segs \cup {NoData})
        BY <4>1, <4>2
      <4> QED
        BY <4>1, <4>3, <2>1, Domains DEF TypeOK
    <3> QED
      BY <3>1, <3>2
  <2>3. rpc' \in [Receivers -> [Slots -> ReaderStates]]
    BY <1>12 DEF StoreBody, TypeOK, ReaderStates
  <2>4. TypeOK'
    BY <1>12, <2>2, <2>3 DEF StoreBody, TypeOK
  <2>5. /\ rpc'[r][t] = "flag"
        /\ \A q \in Receivers, u \in Slots : q # r \/ u # t => rpc'[q][u] = rpc[q][u]
    BY <1>12 DEF StoreBody, TypeOK
  <2>6. LocalsOK'
    BY <1>12, <2>1, <2>2, <2>5 DEF StoreBody, LocalsOK, InSegmentTable
  <2> QED
    BY <2>4, <2>6
<1>13. ASSUME NEW r \in Receivers, NEW t \in Slots, FlagFromPeer(r, t) PROVE TypeInv'
  <2>1. flag' \in [Receivers -> [Segs -> BOOLEAN]]
    BY <1>13 DEF FlagFromPeer, TypeOK, ReaderStates, LocalsOK, InSegmentTable
  <2>2. rpc' \in [Receivers -> [Slots -> ReaderStates]]
    BY <1>13 DEF FlagFromPeer, TypeOK, ReaderStates, LocalsOK, InSegmentTable
  <2>3. TypeOK'
    BY <1>13, <2>1, <2>2 DEF FlagFromPeer, TypeOK
  <2>4. LocalsOK'
    BY <1>13 DEF FlagFromPeer, TypeOK, LocalsOK, InSegmentTable
  <2> QED
    BY <2>3, <2>4
<1>14. ASSUME NEW r \in Receivers, NEW t \in Slots, CountDown(r, t) PROVE TypeInv'
  <2>1. remain' \in [Receivers -> Int]
    BY <1>14 DEF CountDown, TypeOK, ReaderStates, LocalsOK, InSegmentTable
  <2>2. rpc' \in [Receivers -> [Slots -> ReaderStates]]
    BY <1>14 DEF CountDown, TypeOK, ReaderStates, LocalsOK, InSegmentTable
  <2>3. TypeOK'
    BY <1>14, <2>1, <2>2 DEF CountDown, TypeOK
  <2>4. LocalsOK'
    BY <1>14 DEF CountDown, TypeOK, LocalsOK, InSegmentTable
  <2> QED
    BY <2>3, <2>4
<1>15. ASSUME NEW r \in Receivers, NEW t \in Slots, UpdateRecvInfo(r, t) PROVE TypeInv'
  <2>1. curSize[r] + Size(rseq[r][t]) \in Nat
    BY <1>15, Segmentation DEF UpdateRecvInfo, TypeOK, LocalsOK, InSegmentTable
  <2>2. curSize' \in [Receivers -> Nat]
    <3>1. CASE curSize' = [curSize EXCEPT ![r] = @ + Size(rseq[r][t])]
      BY <2>1, <3>1 DEF TypeOK
    <3>2. CASE UNCHANGED curSize
      BY <3>2 DEF TypeOK
    <3> QED
      BY <1>15, <3>1, <3>2 DEF UpdateRecvInfo
  <2>3. rpc' \in [Receivers -> [Slots -> ReaderStates]]
    BY <1>15 DEF UpdateRecvInfo, TypeOK, ReaderStates
  <2>4. TypeOK'
    BY <1>15, <2>2, <2>3 DEF UpdateRecvInfo, TypeOK
  <2>5. /\ rpc'[r][t] \in {"read", "end"}
        /\ \A q \in Receivers, u \in Slots : q # r \/ u # t => rpc'[q][u] = rpc[q][u]
    BY <1>15 DEF UpdateRecvInfo, TypeOK
  <2>6. ridx[r][t] \in Slots
    BY <1>15 DEF UpdateRecvInfo, LocalsOK, InSegmentTable
  <2>7. LocalsOK'
    BY <1>15, <2>5, <2>6 DEF UpdateRecvInfo, LocalsOK, InSegmentTable
  <2> QED
    BY <2>4, <2>7
<1>16. ASSUME NEW r \in Receivers, NEW t \in Slots, ForwardSegment(r, t) PROVE TypeInv'
  <2> DEFINE q == peerAt[r][t]
             k == own[r][sent[r][t] + 1]
  <2>1. q \in Receivers
    BY PeersAreReceivers
  <2>2. k \in Segs
    BY <1>16 DEF ForwardSegment, TypeOK
  <2>3. /\ status' \in [Procs -> {"run", "done", "crashed", "killed", "wild"}]
        /\ chan' \in [Procs -> [Receivers -> Seq(Segs \cup {NoData})]]
        /\ chan'[Sender] \in [Receivers -> Seq(Segs)]
        /\ sent' \in [Receivers -> [Slots -> Nat]]
    <3>1. CASE Die(r, "killed") /\ UNCHANGED sent
      BY <3>1, TypeDie, Domains DEF TypeOK, LocalsOK
    <3>2. CASE /\ chan' = [chan EXCEPT ![r][q] = Append(@, segment[r][k])]
               /\ sent' = [sent EXCEPT ![r][t] = @ + 1]
               /\ UNCHANGED status
      <4>1. segment[r][k] \in Segs \cup {NoData}
        BY <2>2 DEF TypeOK
      <4>2. chan' \in [Procs -> [Receivers -> Seq(Segs \cup {NoData})]]
        <5> DEFINE x == segment[r][k]
        <5> HIDE DEF q, x
        <5>1. chan[r][q] \in Seq(Segs \cup {NoData})
          BY <2>1, ChanType, Domains
        <5>2. Append(chan[r][q], x) \in Seq(Segs \cup {NoData})
          BY <5>1, <4>1 DEF x
        <5>3. chan' = [chan EXCEPT ![r] = [chan[r] EXCEPT ![q] = Append(chan[r][q], x)]]
          BY <3>2, Domains DEF x, TypeOK
        <5>4. /\ chan \in [Procs -> [Receivers -> Seq(Segs \cup {NoData})]]
              /\ chan[r] \in [Receivers -> Seq(Segs \cup {NoData})]
          BY Domains DEF TypeOK
        <5>5. [chan[r] EXCEPT ![q] = Append(chan[r][q], x)]
                \in [Receivers -> Seq(Segs \cup {NoData})]
          BY <5>2, <5>4
        <5> QED
          BY <5>3, <5>4, <5>5
      <4>3. chan'[Sender] = chan[Sender]
        BY <3>2, Domains DEF TypeOK
      <4>4. sent' \in [Receivers -> [Slots -> Nat]]
        BY <3>2 DEF TypeOK
      <4> QED
        BY <3>2, <4>2, <4>3, <4>4 DEF TypeOK, LocalsOK
    <3>3. CASE sent' = [sent EXCEPT ![r][t] = @ + 1] /\ UNCHANGED <<status, chan>>
      <4>1. sent' \in [Receivers -> [Slots -> Nat]]
        BY <3>3 DEF TypeOK
      <4> QED
        BY <3>3, <4>1 DEF TypeOK, LocalsOK
    <3> QED
      BY <1>16, <3>1, <3>2, <3>3 DEF ForwardSegment
  <2>4. TypeOK'
    BY <1>16, <2>3 DEF ForwardSegment, TypeOK
  <2>5. LocalsOK'
    BY <1>16, <2>3 DEF ForwardSegment, LocalsOK
  <2> QED
    BY <2>4, <2>5
<1>17. ASSUME NEW r \in Receivers, OpenFile(r) PROVE TypeInv'
  <2>1. writer' \in [Receivers -> {"open", "write", "failed"}]
    BY <1>17 DEF OpenFile, TypeOK, ReaderStates, LocalsOK, InSegmentTable
  <2>2. TypeOK'
    BY <1>17, <2>1 DEF OpenFile, TypeOK
  <2>3. LocalsOK'
    BY <1>17 DEF OpenFile, TypeOK, LocalsOK, InSegmentTable
  <2> QED
    BY <2>2, <2>3
<1>18. ASSUME NEW r \in Receivers, WriteSegment(r) PROVE TypeInv'
  <2>1. Len(file[r]) \in Segs
    BY <1>18, Segmentation DEF WriteSegment, NextFlagged, Segs, TypeOK
  <2>2. file' \in [Receivers -> Seq(Segs \cup {NoData})]
    BY <1>18, <2>1 DEF WriteSegment, TypeOK
  <2>3. TypeOK'
    BY <1>18, <2>2 DEF WriteSegment, TypeOK
  <2>4. LocalsOK'
    BY <1>18 DEF WriteSegment, LocalsOK
  <2> QED
    BY <2>3, <2>4
<1>19. ASSUME NEW p \in Procs, Crash(p) PROVE TypeInv'
  <2>1. status' \in [Procs -> {"run", "done", "crashed", "killed", "wild"}]
    BY <1>19, TypeDie DEF Crash, TypeOK, ReaderStates, LocalsOK, InSegmentTable
  <2>2. chan' \in [Procs -> [Receivers -> Seq(Segs \cup {NoData})]]
    BY <1>19, TypeDie DEF Crash, TypeOK, ReaderStates, LocalsOK, InSegmentTable
  <2>3. TypeOK'
    BY <1>19, <2>1, <2>2 DEF Crash, TypeOK
  <2>4. LocalsOK'
    BY <1>19, TypeDie DEF Crash, TypeOK, LocalsOK, InSegmentTable
  <2> QED
    BY <2>3, <2>4
<1>20. ASSUME NEW r \in Receivers, NEW t \in Slots, HeaderReset(r, t) PROVE TypeInv'
  <2>1. PICK s \in Receivers : s = Source(r, t)
    BY <1>20, PeersAreReceivers DEF HeaderReset, LocalsOK, Source
  <2>2. hdr' \in [Procs -> [Receivers -> BOOLEAN]]
    BY <1>20, <2>1, Domains DEF HeaderReset, TypeOK
  <2>3. status' \in [Procs -> {"run", "done", "crashed", "killed", "wild"}]
    BY <1>20, Domains DEF HeaderReset, TypeOK
  <2>4. \/ rpc' = rpc
        \/ rpc' = [rpc EXCEPT ![r][t] = "astray"]
        \/ rpc' = [rpc EXCEPT ![r][t] = "count"] /\ rseq[r][t] # NoData
    BY <1>20 DEF HeaderReset
  <2>5. /\ rpc \in [Receivers -> [Slots -> ReaderStates]]
        /\ rpc' \in [Receivers -> [Slots -> ReaderStates]]
    <3>1. rpc \in [Receivers -> [Slots -> ReaderStates]]
      BY DEF TypeOK
    <3>2. CASE rpc' = [rpc EXCEPT ![r][t] = "astray"]
      BY <3>1, <3>2 DEF ReaderStates
    <3>3. CASE rpc' = [rpc EXCEPT ![r][t] = "count"]
      BY <3>1, <3>3 DEF ReaderStates
    <3> QED
      BY <2>4, <3>1, <3>2, <3>3
  <2>6. TypeOK'
    BY <1>20, <2>2, <2>3, <2>5 DEF HeaderReset, TypeOK
  <2>7. /\ \A q \in Receivers, u \in Slots : q # r \/ u # t => rpc'[q][u] = rpc[q][u]
        /\ \/ rpc'[r][t] = rpc[r][t]
           \/ rpc'[r][t] = "count" /\ rseq[r][t] \in Segs
           \/ rpc'[r][t] = "astray"
    <3>1. rseq[r][t] \in Segs \cup {NoData}
      BY DEF TypeOK
    <3>2. CASE rpc' = [rpc EXCEPT ![r][t] = "astray"]
      BY <2>5, <3>2
    <3>3. CASE rpc' = [rpc EXCEPT ![r][t] = "count"] /\ rseq[r][t] # NoData
      BY <2>5, <3>1, <3>3
    <3> QED
      BY <2>4, <3>2, <3>3
  <2>8. ridx[r][t] \in Slots
    BY <1>20 DEF HeaderReset, LocalsOK
  <2>9. LocalsOK'
    BY <1>20, <2>7, <2>8 DEF HeaderReset, LocalsOK, InSegmentTable
  <2> QED
    BY <2>6, <2>9
<1>21. ASSUME NEW r \in Receivers, NEW t \in Slots, BodyReset(r, t) PROVE TypeInv'
  <2>1. status' \in [Procs -> {"run", "done", "crashed", "killed", "wild"}]
    BY <1>21, Domains DEF BodyReset, TypeOK
  <2>2. TypeOK'
    BY <1>21, <2>1 DEF BodyReset, TypeOK
  <2>3. LocalsOK'
    BY <1>21 DEF BodyReset, LocalsOK
  <2> QED
    BY <2>2, <2>3
<1>22. CASE Terminated
  BY <1>22 DEF Terminated, vars, TypeOK, LocalsOK
<1>23. CASE UNCHANGED vars
  BY <1>23 DEF vars, TypeOK, LocalsOK
<1> QED
  BY <1>1, <1>2, <1>3, <1>4, <1>5, <1>6, <1>7, <1>8, <1>9, <1>10, <1>11, <1>12, <1>13,
     <1>14, <1>15, <1>16, <1>17, <1>18, <1>19, <1>20, <1>21, <1>22, <1>23
  DEF Next, ProgramStep, MainThread, PeerThreads, FileWriter

\* Every variable keeps its type, under every schedule, crash and open failure.
THEOREM TypeCorrect == Spec => []TypeOK
<1>1. TypeInv => TypeOK
  BY DEF TypeInv
<1> QED
  BY <1>1, TypeInit, TypeStep, PTL DEF Spec

-------------------------------------------------------------------------------
(* Sequences as the connections and recv_seg_num use them. *)

LEMMA AppendElements ==
  ASSUME NEW S, NEW s \in Seq(S), NEW x
  PROVE  \A i \in 1 .. Len(Append(s, x)) :
           \/ Append(s, x)[i] = x
           \/ i \in 1 .. Len(s) /\ Append(s, x)[i] = s[i]
  OBVIOUS

LEMMA TailElements ==
  ASSUME NEW S, NEW s \in Seq(S), s # << >>
  PROVE  \A i \in 1 .. Len(Tail(s)) : i + 1 \in 1 .. Len(s) /\ Tail(s)[i] = s[i + 1]
  OBVIOUS

LEMMA AppendHead ==
  ASSUME NEW S, NEW s \in Seq(S), NEW x \in S, s # << >>
  PROVE  Append(s, x) # << >> /\ Head(Append(s, x)) = Head(s)
  OBVIOUS

-------------------------------------------------------------------------------
(* Steps that leave a part of IInv alone. *)

\* Flags are set and never cleared, so who has a segment keeps it.
LEMMA OwnersKeep ==
  ASSUME NEW q \in Receivers, NEW k \in Segs,
         flag[q][k] => flag'[q][k]
  PROVE  HasOwn(q, k) => HasOwn(q, k)'
  BY DEF HasOwn

\* Nobody comes to hold a segment, and a connection stays or is lost whole: what
\* is known of the readers stays true.
LEMMA ReadersKeep ==
  ASSUME ReadersHoldOwn, ReadersStored, BodyFirst, BodyAlone, LocalsOK,
         \A q \in Receivers, k \in Segs : flag[q][k] => flag'[q][k],
         \A q \in Receivers, k \in Segs : segment[q][k] = k => segment'[q][k] = k,
         \A q \in Receivers, u \in Slots : rpc'[q][u] \in {"body", "flag"} =>
           /\ rpc'[q][u]  = rpc[q][u]
           /\ ridx'[q][u] = ridx[q][u]
           /\ rseq'[q][u] = rseq[q][u],
         \A q, r \in Receivers :
           (hdr[q][r] => hdr'[q][r]) /\ chan'[q][r] \in {chan[q][r], << >>}
  PROVE  ReadersHoldOwn' /\ ReadersStored' /\ BodyFirst' /\ BodyAlone'
<1>1. \A q \in Receivers, u \in Slots : rpc'[q][u] \in {"body", "flag"} =>
        /\ rseq[q][u] \in Segs
        /\ Source(q, u) \in Receivers
        /\ Source(q, u)' = Source(q, u)
  BY PeersAreReceivers DEF LocalsOK, InSegmentTable, Source
<1>2. ReadersHoldOwn'
  BY <1>1 DEF ReadersHoldOwn, HasOwn
<1>3. ReadersStored'
  BY <1>1 DEF ReadersStored
<1>4. \A q \in Receivers, u \in Slots : ReadsBody(q, u)' =>
        ReadsBody(q, u) /\ Source(q, u) \in Receivers /\ Source(q, u)' = Source(q, u)
                        /\ rseq'[q][u] = rseq[q][u]
  BY <1>1 DEF ReadsBody
<1>5. BodyFirst'
  BY <1>4 DEF BodyFirst
<1>6. BodyAlone'
  BY <1>4 DEF BodyAlone
<1> QED
  BY <1>2, <1>3, <1>5, <1>6

\* Connections between peers stay or are lost whole.
LEMMA FlightKeeps ==
  ASSUME FromPeersOK,
         \A q \in Receivers, k \in Segs : flag[q][k] => flag'[q][k],
         \A q, r \in Receivers : chan'[q][r] \in {chan[q][r], << >>}
  PROVE  FromPeersOK'
<1> SUFFICES ASSUME NEW q \in Receivers, NEW r \in Receivers,
                    NEW i \in 1 .. Len(chan'[q][r])
             PROVE  (chan[q][r][i] \in Segs /\ HasOwn(q, chan[q][r][i]))'
  BY DEF FromPeersOK
<1>1. chan'[q][r] = chan[q][r]
  OBVIOUS
<1> QED
  BY <1>1 DEF FromPeersOK, HasOwn

\* Headers stay where they are, and whoever still runs keeps its connections.
LEMMA HeadersKeep ==
  ASSUME HeadersOK,
         \A q, r \in Receivers :
           /\ hdr'[q][r] => hdr[q][r]
           /\ Running(q)' => Running(q) /\ chan'[q][r] = chan[q][r]
  PROVE  HeadersOK'
  BY DEF HeadersOK

\* Steps that touch neither the tables nor the connections.
LEMMA TablesKeep ==
  ASSUME TableOK, OwnOK, FromSenderOK, FromPeersOK,
         UNCHANGED <<segment, flag, own, chan>>
  PROVE  TableOK' /\ OwnOK' /\ FromSenderOK' /\ FromPeersOK'
<1>1. TableOK' /\ OwnOK'
  BY DEF TableOK, OwnOK, HasOwn
<1>2. FromSenderOK' /\ FromPeersOK'
  BY DEF FromSenderOK, FromPeersOK, HasOwn
<1> QED
  BY <1>1, <1>2

\* Steps in which the reader threads have no part.
LEMMA ReadersSame ==
  ASSUME ReadersHoldOwn, ReadersStored, BodyFirst, BodyAlone,
         UNCHANGED <<rpc, ridx, rseq, segment, flag, chan, hdr>>
  PROVE  ReadersHoldOwn' /\ ReadersStored' /\ BodyFirst' /\ BodyAlone'
<1>1. ReadersHoldOwn' /\ ReadersStored'
  BY DEF ReadersHoldOwn, ReadersStored, HasOwn, Source
<1>2. BodyFirst' /\ BodyAlone'
  BY DEF BodyFirst, BodyAlone, ReadsBody, Source
<1> QED
  BY <1>1, <1>2

\* A process that dies loses what it has in flight or not; nothing else changes.
LEMMA DieChan ==
  ASSUME TypeOK, NEW p \in Procs, NEW how \in {"crashed", "killed"}, Die(p, how)
  PROVE  /\ \A q \in Procs, r \in Receivers : chan'[q][r] \in {chan[q][r], << >>}
         /\ \A q \in Procs : Running(q)' => Running(q) /\ chan'[q] = chan[q]
<1>1. PICK lost \in SUBSET {r \in Receivers : chan[p][r] # << >>} :
        chan' = [chan EXCEPT ![p] = [r \in Receivers |->
                                      IF r \in lost THEN << >> ELSE @[r]]]
  BY DEF Die
<1>2. status' = [status EXCEPT ![p] = how]
  BY DEF Die
<1>3. \A q \in Procs, r \in Receivers : chan'[q][r] \in {chan[q][r], << >>}
  BY <1>1 DEF TypeOK
<1>4. \A q \in Procs : Running(q)' => q # p /\ Running(q)
  BY <1>2 DEF Running, TypeOK
<1> QED
  BY <1>1, <1>3, <1>4 DEF TypeOK

-------------------------------------------------------------------------------
(* IInv is inductive. *)

LEMMA IInvInit == Init => IInv
<1> SUFFICES ASSUME Init PROVE IInv
  OBVIOUS
<1>1. LocalsOK
  BY TypeInit DEF TypeInv
<1>2. TableOK /\ HeadersOK
  BY Domains DEF Init, TableOK, HeadersOK
<1>3. OwnOK /\ PublishOK /\ FromSenderOK /\ FromPeersOK
  BY Domains DEF Init, OwnOK, PublishOK, FromSenderOK, FromPeersOK
<1>4. ReadersHoldOwn /\ ReadersStored /\ BodyFirst /\ BodyAlone
  BY DEF Init, ReadersHoldOwn, ReadersStored, BodyFirst, BodyAlone, ReadsBody
<1>5. FilePrefix /\ WriterOK
  BY Segmentation DEF Init, FilePrefix, WriterOK
<1> QED
  BY <1>1, <1>2, <1>3, <1>4, <1>5 DEF IInv

LEMMA IInvStep == TypeInv /\ IInv /\ [Next]_vars => IInv'
<1> SUFFICES ASSUME TypeInv, IInv, [Next]_vars PROVE IInv'
  OBVIOUS
<1>0. TypeInv' /\ TypeOK /\ LocalsOK /\ LocalsOK'
  BY TypeStep DEF TypeInv
<1> USE DEF IInv, senderVars, netVars, mainVars, readerVars, bufferVars, outputVars
<1>1. ASSUME SendSegment PROVE IInv'
  <2>1. sidx \in Nat /\ Target(sidx) \in Receivers
    BY <1>0, <1>1, Segmentation, Dealing DEF SendSegment, MoreToSend, TypeOK
  <2>2. /\ \A q, r \in Receivers : chan'[q][r] = chan[q][r]
        /\ \A q \in Receivers : Running(q)' => Running(q)
        /\ \A r \in Receivers :
             \/ chan'[Sender][r] \in {chan[Sender][r], << >>}
             \/ r = Target(sidx) /\ chan'[Sender][r] = Append(chan[Sender][r], sidx)
    <3>1. CASE Die(Sender, "killed")
      <4>1. chan' = [chan EXCEPT ![Sender] = chan'[Sender]]
        BY <1>0, <3>1 DEF Die, TypeOK
      <4> QED
        BY <1>0, <3>1, <4>1, DieChan, Domains DEF TypeOK
    <3>2. CASE /\ chan' = [chan EXCEPT ![Sender][Target(sidx)] = Append(@, sidx)]
               /\ UNCHANGED status
      BY <1>0, <2>1, <3>2, Domains DEF Running, TypeOK
    <3>3. CASE UNCHANGED <<status, chan>>
      BY <3>3 DEF Running
    <3> QED
      BY <1>1, <3>1, <3>2, <3>3 DEF SendSegment
  <2>3. FromSenderOK'
    <3> SUFFICES ASSUME NEW r \in Receivers, NEW i \in 1 .. Len(chan'[Sender][r])
                 PROVE  Target(chan'[Sender][r][i]) = r
      BY DEF FromSenderOK
    <3>1. CASE chan'[Sender][r] = chan[Sender][r]
      BY <3>1 DEF FromSenderOK
    <3>2. CASE chan'[Sender][r] = << >>
      BY <3>2
    <3>3. CASE r = Target(sidx) /\ chan'[Sender][r] = Append(chan[Sender][r], sidx)
      <4>1. chan[Sender][r] \in Seq(Segs)
        BY <1>0 DEF LocalsOK
      <4> QED
        BY <3>3, <4>1, AppendElements DEF FromSenderOK
    <3> QED
      BY <2>2, <3>1, <3>2, <3>3
  <2>4. FromPeersOK'
    BY <1>1, <2>2, FlightKeeps DEF SendSegment
  <2>5. ReadersHoldOwn' /\ ReadersStored' /\ BodyFirst' /\ BodyAlone'
    BY <1>0, <1>1, <2>2, ReadersKeep DEF SendSegment
  <2>6. HeadersOK'
    BY <1>1, <2>2, HeadersKeep DEF SendSegment
  <2>7. TableOK' /\ OwnOK' /\ PublishOK' /\ FilePrefix' /\ WriterOK'
    BY <1>1 DEF SendSegment, TableOK, OwnOK, PublishOK, FilePrefix, WriterOK, HasOwn
  <2> QED
    BY <1>0, <2>3, <2>4, <2>5, <2>6, <2>7
<1>2. ASSUME SenderExit PROVE IInv'
  <2>1. \A q \in Receivers : Running(q)' => Running(q)
    BY <1>0, <1>2, Domains DEF SenderExit, Running, TypeOK
  <2>2. HeadersOK'
    BY <1>2, <2>1, HeadersKeep DEF SenderExit
  <2> QED
    BY <1>0, <1>2, <2>2, TablesKeep, ReadersSame
    DEF SenderExit, PublishOK, FilePrefix, WriterOK
<1>3. ASSUME NEW r \in Receivers, CreatePeerThreads(r) PROVE IInv'
  <2>1. \A q \in Receivers, u \in Slots : rpc'[q][u] \in {"body", "flag"} =>
          rpc'[q][u] = rpc[q][u]
    BY <1>0, <1>3 DEF CreatePeerThreads, TypeOK
  <2>2. \A q \in Receivers : main'[q] \in {"publish", "freed"} => main'[q] = main[q]
    BY <1>0, <1>3 DEF CreatePeerThreads, TypeOK
  <2>3. ReadersHoldOwn' /\ ReadersStored' /\ BodyFirst' /\ BodyAlone'
    BY <1>0, <1>3, <2>1, ReadersKeep DEF CreatePeerThreads
  <2>4. PublishOK' /\ WriterOK'
    BY <1>3, <2>2 DEF CreatePeerThreads, PublishOK, WriterOK
  <2> QED
    BY <1>0, <1>3, <2>3, <2>4 DEF CreatePeerThreads, TableOK, OwnOK, FromSenderOK, FromPeersOK,
       HeadersOK, FilePrefix, HasOwn, Running
<1>4. ASSUME NEW r \in Receivers, NextPeer(r) PROVE IInv'
  <2>1. \A q \in Receivers, u \in Slots : rpc'[q][u] \in {"body", "flag"} =>
          rpc'[q][u] = rpc[q][u]
    BY <1>0, <1>4 DEF NextPeer, TypeOK
  <2>2. \A q \in Receivers : main'[q] \in {"publish", "freed"} => main'[q] = main[q]
    BY <1>0, <1>4 DEF NextPeer, TypeOK
  <2>3. ReadersHoldOwn' /\ ReadersStored' /\ BodyFirst' /\ BodyAlone'
    BY <1>0, <1>4, <2>1, ReadersKeep DEF NextPeer
  <2>4. PublishOK' /\ WriterOK'
    BY <1>4, <2>2 DEF NextPeer, PublishOK, WriterOK
  <2> QED
    BY <1>0, <1>4, <2>3, <2>4 DEF NextPeer, TableOK, OwnOK, FromSenderOK, FromPeersOK,
       HeadersOK, FilePrefix, HasOwn, Running
<1>5. ASSUME NEW r \in Receivers, RecvFromSender(r) PROVE IInv'
  <2> DEFINE k == Head(chan[Sender][r])
  <2>1. /\ chan[Sender][r] # << >>
        /\ chan[Sender][r] \in Seq(Segs)
        /\ k \in Segs
        /\ Target(k) = r
    <3>1. chan[Sender][r] # << >>
      BY <1>5 DEF RecvFromSender
    <3>2. chan[Sender][r] \in Seq(Segs)
      BY <1>0 DEF LocalsOK
    <3>3. 1 \in 1 .. Len(chan[Sender][r]) /\ k = chan[Sender][r][1] /\ k \in Segs
      BY <3>1, <3>2
    <3> QED
      BY <3>1, <3>2, <3>3 DEF FromSenderOK
  <2>2. /\ \A q \in Receivers : q # r => chan'[Sender][q] = chan[Sender][q]
        /\ chan'[Sender][r] = Tail(chan[Sender][r])
        /\ \A q, p \in Receivers : chan'[q][p] = chan[q][p]
    BY <1>0, <1>5, Domains DEF RecvFromSender, TypeOK
  <2>3. FromSenderOK'
    <3> SUFFICES ASSUME NEW q \in Receivers, NEW i \in 1 .. Len(chan'[Sender][q])
                 PROVE  Target(chan'[Sender][q][i]) = q
      BY DEF FromSenderOK
    <3>1. CASE q # r
      BY <3>1, <2>2 DEF FromSenderOK
    <3>2. CASE q = r
      BY <3>2, <2>1, <2>2, TailElements DEF FromSenderOK
    <3> QED
      BY <3>1, <3>2
  <2>4. /\ segment'[r][k] = k
        /\ \A q \in Receivers, l \in Segs : q # r \/ l # k =>
             segment'[q][l] = segment[q][l]
    BY <1>0, <1>5, <2>1 DEF RecvFromSender, TypeOK
  <2>5. TableOK'
    BY <1>5, <2>1, <2>4 DEF RecvFromSender, TableOK
  <2>6. \A q \in Receivers, l \in Segs : segment[q][l] = l => segment'[q][l] = l
    BY <2>4
  <2>7. ReadersHoldOwn' /\ ReadersStored' /\ BodyFirst' /\ BodyAlone'
    BY <1>0, <1>5, <2>2, <2>6, ReadersKeep DEF RecvFromSender
  <2>8. FromPeersOK'
    BY <1>5, <2>2, FlightKeeps DEF RecvFromSender
  <2>9. HeadersOK'
    BY <1>5, <2>2, HeadersKeep DEF RecvFromSender, Running
  <2>10. PublishOK'
    <3> SUFFICES ASSUME NEW q \in Receivers, main'[q] = "publish"
                 PROVE  Target(mseq'[q]) = q /\ segment'[q][mseq'[q]] = mseq'[q]
      BY DEF PublishOK
    <3>1. CASE q = r
      <4>1. mseq'[r] = k
        BY <1>0, <1>5 DEF RecvFromSender, TypeOK
      <4> HIDE DEF k
      <4> QED
        BY <3>1, <2>1, <2>4, <4>1
    <3>2. CASE q # r
      <4>1. main[q] = "publish" /\ mseq'[q] = mseq[q] /\ mseq[q] \in Segs
        BY <1>0, <1>5, <3>2 DEF RecvFromSender, TypeOK, LocalsOK
      <4> HIDE DEF k
      <4> QED
        BY <3>2, <2>4, <4>1 DEF PublishOK
    <3> QED
      BY <3>1, <3>2
  <2>11. OwnOK' /\ FilePrefix' /\ WriterOK'
    <3>1. \A q \in Receivers : main'[q] = "freed" => main[q] = "freed"
      BY <1>0, <1>5 DEF RecvFromSender, TypeOK
    <3> QED
      BY <1>5, <3>1 DEF RecvFromSender, OwnOK, FilePrefix, WriterOK, HasOwn
  <2> QED
    BY <1>0, <2>3, <2>5, <2>7, <2>8, <2>9, <2>10, <2>11
<1>6. ASSUME NEW r \in Receivers, PublishOwn(r) PROVE IInv'
  <2> DEFINE k == mseq[r]
  <2>1. k \in Segs /\ Target(k) = r /\ segment[r][k] = k
    BY <1>0, <1>6 DEF PublishOwn, LocalsOK, PublishOK
  <2>2. /\ flag'[r][k]
        /\ \A q \in Receivers, l \in Segs : q # r \/ l # k => flag'[q][l] = flag[q][l]
    BY <1>0, <1>6, <2>1 DEF PublishOwn, TypeOK
  <2>3. \A q \in Receivers, l \in Segs : flag[q][l] => flag'[q][l]
    BY <2>2
  <2>4. TableOK'
    BY <1>6, <2>1, <2>2 DEF PublishOwn, TableOK
  <2>5. OwnOK'
    <3> SUFFICES ASSUME NEW q \in Receivers, NEW i \in 1 .. Len(own'[q])
                 PROVE  Target(own'[q][i]) = q /\ flag'[q][own'[q][i]]
      BY DEF OwnOK, HasOwn
    <3>1. own[q] \in Seq(Segs)
      BY <1>0 DEF TypeOK
    <3>2. CASE i \in 1 .. Len(own[q]) /\ own'[q][i] = own[q][i]
      BY <2>3, <3>1, <3>2 DEF OwnOK, HasOwn
    <3>3. CASE q = r /\ own'[q][i] = k
      BY <2>1, <2>2, <3>3
    <3>4. own'[q] = IF q = r THEN Append(own[q], k) ELSE own[q]
      BY <1>0, <1>6 DEF PublishOwn, TypeOK
    <3> QED
      BY <3>1, <3>2, <3>3, <3>4, AppendElements
  <2>6. ReadersHoldOwn' /\ ReadersStored' /\ BodyFirst' /\ BodyAlone'
    BY <1>0, <1>6, <2>3, ReadersKeep DEF PublishOwn
  <2>7. FromPeersOK'
    BY <1>6, <2>3, FlightKeeps DEF PublishOwn
  <2>8. \A q \in Receivers : main'[q] \in {"publish", "freed"} => main'[q] = main[q]
    BY <1>0, <1>6 DEF PublishOwn, TypeOK
  <2> QED
    BY <1>0, <1>6, <2>4, <2>5, <2>6, <2>7, <2>8
    DEF PublishOwn, PublishOK, WriterOK, FromSenderOK, HeadersOK, FilePrefix, Running
<1>7. ASSUME NEW r \in Receivers, JoinAndFree(r) PROVE IInv'
  <2>1. Len(file[r]) = total_seg \/ (FileSize = 0 /\ OpenMayFail)
    <3>1. CASE Len(file[r]) = total_seg
      BY <3>1
    <3>2. CASE writer[r] = "failed"
      <4>1. file[r] = << >> /\ OpenMayFail
        BY <3>2 DEF WriterOK
      <4>2. Stored(r) = 0
        BY <4>1, Segmentation, TransferAssumption DEF Stored, BytesOf
      <4>3. FileSize \in Nat /\ 0 >= FileSize
        BY <1>7, <4>2, TransferAssumption DEF JoinAndFree, Joined, ConsoleEnded
      <4> QED
        BY <4>1, <4>3
    <3> QED
      BY <1>7, <3>1, <3>2 DEF JoinAndFree, Joined, WriterEnded
  <2>2. WriterOK'
    <3>1. \A q \in Receivers : main'[q] = "freed" => q = r \/ main[q] = "freed"
      BY <1>0, <1>7 DEF JoinAndFree, TypeOK
    <3> QED
      BY <1>7, <2>1, <3>1 DEF JoinAndFree, WriterOK
  <2>3. PublishOK'
    <3>1. \A q \in Receivers : main'[q] = "publish" => main[q] = "publish"
      BY <1>0, <1>7 DEF JoinAndFree, TypeOK
    <3> QED
      BY <1>7, <3>1 DEF JoinAndFree, PublishOK
  <2> QED
    BY <1>0, <1>7, <2>2, <2>3, TablesKeep, ReadersSame
    DEF JoinAndFree, HeadersOK, FilePrefix, Running
<1>8. ASSUME NEW r \in Receivers, ReceiverExit(r) PROVE IInv'
  <2>1. \A q \in Receivers : Running(q)' => Running(q)
    BY <1>0, <1>8, Domains DEF ReceiverExit, Running, TypeOK
  <2>2. HeadersOK'
    BY <1>8, <2>1, HeadersKeep DEF ReceiverExit
  <2>3. ReadersHoldOwn' /\ ReadersStored' /\ BodyFirst' /\ BodyAlone'
    BY <1>0, <1>8, ReadersKeep DEF ReceiverExit
  <2> QED
    BY <1>0, <1>8, <2>2, <2>3 DEF ReceiverExit, TableOK, OwnOK, PublishOK, FromSenderOK,
       FromPeersOK, FilePrefix, WriterOK, HasOwn
<1>9. ASSUME NEW r \in Receivers, NEW t \in Slots, StartReader(r, t) PROVE IInv'
  <2> PICK pc \in {"read", "astray", "end"} : rpc' = [rpc EXCEPT ![r][t] = pc]
    BY <1>9 DEF StartReader
  <2>1. \A q \in Receivers, u \in Slots : rpc'[q][u] \in {"body", "flag"} =>
          rpc'[q][u] = rpc[q][u] /\ ridx'[q][u] = ridx[q][u]
    <3> SUFFICES ASSUME NEW q \in Receivers, NEW u \in Slots,
                        rpc'[q][u] \in {"body", "flag"}
                 PROVE  rpc'[q][u] = rpc[q][u] /\ ridx'[q][u] = ridx[q][u]
      OBVIOUS
    <3>1. rpc'[r][t] = pc
      BY <1>0 DEF TypeOK
    <3>2. q # r \/ u # t
      BY <3>1
    <3> QED
      BY <1>0, <1>9, <3>2 DEF StartReader, TypeOK
  <2>2. ReadersHoldOwn' /\ ReadersStored' /\ BodyFirst' /\ BodyAlone'
    BY <1>0, <1>9, <2>1, ReadersKeep DEF StartReader
  <2> QED
    BY <1>0, <1>9, <2>2 DEF StartReader, TableOK, OwnOK, PublishOK, FromSenderOK,
       FromPeersOK, HeadersOK, FilePrefix, WriterOK, HasOwn, Running
<1>10. ASSUME NEW r \in Receivers, NEW t \in Slots, ReadHeader(r, t) PROVE IInv'
  <2>1. PICK s \in Receivers : s = Source(r, t)
    BY <1>0, <1>10, PeersAreReceivers
    DEF ReadHeader, LocalsOK, Source, InSegmentTable
  <2> DEFINE k == Head(chan[s][r])
  <2>2. chan[s][r] # << >> /\ ~ hdr[s][r]
    BY <1>10, <2>1 DEF ReadHeader
  <2>3. chan[s][r] \in Seq(Segs \cup {NoData})
    BY <1>0, ChanType, Domains
  <2>4. k \in Segs /\ HasOwn(s, k)
    BY <2>2, <2>3 DEF FromPeersOK
  <2>5. /\ chan'[s][r] = IF Size(k) = 0 THEN Tail(chan[s][r]) ELSE chan[s][r]
        /\ hdr'[s][r] = (Size(k) # 0)
        /\ \A p \in Procs, q \in Receivers : p # s \/ q # r =>
             chan'[p][q] = chan[p][q] /\ hdr'[p][q] = hdr[p][q]
    <3>1. CASE Size(k) = 0
      <4>1. chan' = [chan EXCEPT ![s][r] = Tail(@)] /\ hdr' = hdr
        BY <3>1, <1>10, <2>1 DEF ReadHeader
      <4> HIDE DEF k
      <4>2. hdr'[s][r] = FALSE
        BY <1>0, <2>2, <4>1, Domains DEF TypeOK
      <4>3. /\ chan'[s][r] = Tail(chan[s][r])
            /\ \A p \in Procs, q \in Receivers : p # s \/ q # r =>
                 chan'[p][q] = chan[p][q]
        BY <1>0, <4>1, Domains DEF TypeOK
      <4> QED
        BY <3>1, <4>1, <4>2, <4>3
    <3>2. CASE Size(k) # 0
      <4>1. chan' = chan /\ hdr' = [hdr EXCEPT ![s][r] = TRUE]
        BY <3>2, <1>10, <2>1 DEF ReadHeader
      <4> HIDE DEF k
      <4> QED
        BY <1>0, <3>2, <4>1, Domains DEF TypeOK
    <3> QED
      BY <3>1, <3>2
  <2>6. /\ rpc[r][t] = "read" /\ rpc'[r][t] = "body" /\ rseq'[r][t] = k
        /\ \A q \in Receivers, u \in Slots : q # r \/ u # t =>
             rpc'[q][u] = rpc[q][u] /\ rseq'[q][u] = rseq[q][u]
        /\ \A q \in Receivers, u \in Slots : Source(q, u)' = Source(q, u)
    BY <1>0, <1>10, <2>1 DEF ReadHeader, TypeOK, Source
  <2> HIDE DEF k
  <2>7. FromSenderOK'
    BY <2>5, Domains DEF FromSenderOK
  <2>8. FromPeersOK'
    <3> SUFFICES ASSUME NEW p \in Receivers, NEW q \in Receivers,
                        NEW i \in 1 .. Len(chan'[p][q])
                 PROVE  (chan[p][q][i] \in Segs /\ HasOwn(p, chan[p][q][i]))'
      BY DEF FromPeersOK
    <3>1. UNCHANGED flag
      BY <1>10 DEF ReadHeader
    <3>2. \E j \in 1 .. Len(chan[p][q]) : chan'[p][q][i] = chan[p][q][j]
      <4>1. CASE p = s /\ q = r /\ Size(k) = 0
        <5>1. \A j \in 1 .. Len(Tail(chan[s][r])) :
                j + 1 \in 1 .. Len(chan[s][r]) /\ Tail(chan[s][r])[j] = chan[s][r][j + 1]
          BY <2>2, <2>3, TailElements
        <5>2. chan'[p][q] = Tail(chan[s][r])
          BY <2>5, <4>1
        <5> QED
          BY <4>1, <5>1, <5>2
      <4>2. CASE ~(p = s /\ q = r /\ Size(k) = 0)
        BY <2>5, <4>2, Domains
      <4> QED
        BY <4>1, <4>2
    <3> QED
      BY <3>1, <3>2 DEF FromPeersOK, HasOwn
  <2>9. ReadersHoldOwn'
    <3> SUFFICES ASSUME NEW q \in Receivers, NEW u \in Slots,
                        rpc'[q][u] \in {"body", "flag"}
                 PROVE  HasOwn(Source(q, u), rseq[q][u])'
      BY DEF ReadersHoldOwn
    <3>1. UNCHANGED flag
      BY <1>10 DEF ReadHeader
    <3>2. CASE q = r /\ u = t
      BY <2>1, <2>4, <2>6, <3>1, <3>2 DEF HasOwn
    <3>3. CASE q # r \/ u # t
      BY <2>6, <3>1, <3>3 DEF HasOwn, ReadersHoldOwn
    <3> QED
      BY <3>2, <3>3
  <2>10. \A q \in Receivers, u \in Slots : q # r \/ u # t =>
           ReadsBody(q, u)' = ReadsBody(q, u)
    BY <2>6 DEF ReadsBody
  <2>11. \A u \in Slots : u # t => ~ (ReadsBody(r, u) /\ Source(r, u) = s)
    BY <2>2 DEF BodyFirst
  <2>12. \A q \in Receivers, u \in Slots : ReadsBody(q, u) => Source(q, u) \in Receivers
    BY <1>0, PeersAreReceivers DEF LocalsOK, InSegmentTable, Source, ReadsBody
  <2>13. BodyFirst'
    <3> SUFFICES ASSUME NEW q \in Receivers, NEW u \in Slots, ReadsBody(q, u)'
                 PROVE  /\ hdr'[Source(q, u)][q]
                        /\ chan'[Source(q, u)][q] # << >> =>
                             Head(chan'[Source(q, u)][q]) = rseq'[q][u]
      BY <2>6 DEF BodyFirst
    <3>1. CASE q = r /\ u = t
      <4>1. Size(k) # 0
        BY <2>6, <3>1 DEF ReadsBody
      <4> QED
        BY <2>1, <2>5, <2>6, <3>1, <4>1 DEF k
    <3>2. CASE q # r \/ u # t
      <4>1. ReadsBody(q, u) /\ rseq'[q][u] = rseq[q][u]
        BY <2>6, <2>10, <3>2
      <4>2. Source(q, u) \in Receivers /\ (Source(q, u) # s \/ q # r)
        BY <2>11, <2>12, <3>2, <4>1
      <4> QED
        BY <2>5, <4>1, <4>2, Domains DEF BodyFirst
    <3> QED
      BY <3>1, <3>2
  <2>14. BodyAlone'
    BY <2>1, <2>6, <2>10, <2>11 DEF BodyAlone
  <2>15. ReadersStored'
    <3>1. UNCHANGED segment
      BY <1>10 DEF ReadHeader
    <3> QED
      BY <2>6, <3>1 DEF ReadersStored
  <2>16. HeadersOK'
    <3>1. \A q \in Procs : Running(q)' = Running(q)
      BY <1>10 DEF ReadHeader, Running
    <3> SUFFICES ASSUME NEW p \in Receivers, NEW q \in Receivers,
                        hdr'[p][q], Running(p)
                 PROVE  chan'[p][q] # << >>
      BY <3>1, Domains DEF HeadersOK
    <3>2. CASE p = s /\ q = r
      BY <2>2, <2>5, <3>2
    <3>3. CASE p # s \/ q # r
      BY <2>5, <3>3, Domains DEF HeadersOK
    <3> QED
      BY <3>2, <3>3
  <2> QED
    BY <1>0, <1>10, <2>7, <2>8, <2>9, <2>13, <2>14, <2>15, <2>16
    DEF ReadHeader, TableOK, OwnOK, PublishOK, FilePrefix, WriterOK, HasOwn
<1>11. ASSUME NEW r \in Receivers, NEW t \in Slots, ReadGarbage(r, t) PROVE IInv'
  <2>1. \A q \in Receivers : Running(q)' => Running(q)
    BY <1>0, <1>11, Domains DEF ReadGarbage, Running, TypeOK
  <2>2. HeadersOK'
    BY <1>11, <2>1, HeadersKeep DEF ReadGarbage
  <2>3. ReadersHoldOwn' /\ ReadersStored' /\ BodyFirst' /\ BodyAlone'
    BY <1>0, <1>11, ReadersKeep DEF ReadGarbage
  <2>4. TableOK' /\ OwnOK' /\ PublishOK' /\ FilePrefix' /\ WriterOK'
    BY <1>11 DEF ReadGarbage, TableOK, OwnOK, PublishOK, FilePrefix, WriterOK, HasOwn
  <2>5. FromSenderOK' /\ FromPeersOK'
    BY <1>11 DEF ReadGarbage, FromSenderOK, FromPeersOK, HasOwn
  <2> QED
    BY <1>0, <2>2, <2>3, <2>4, <2>5
<1>12. ASSUME NEW r \in Receivers, NEW t \in Slots, StoreBody(r, t) PROVE IInv'
  <2>1. PICK s \in Receivers : s = Source(r, t)
    BY <1>0, <1>12, PeersAreReceivers
    DEF StoreBody, LocalsOK, Source, InSegmentTable
  <2>2. PICK k \in Segs : k = rseq[r][t]
    BY <1>0, <1>12 DEF StoreBody, LocalsOK, InSegmentTable
  <2>3. rpc[r][t] = "body" /\ HasOwn(s, k)
    BY <1>12, <2>1, <2>2 DEF StoreBody, ReadersHoldOwn
  <2>4. /\ segment' = [segment EXCEPT ![r][k] = k]
        /\ Size(k) = 0 => chan' = chan /\ hdr' = hdr
        /\ Size(k) # 0 => /\ chan[s][r] # << >>
                          /\ chan' = [chan EXCEPT ![s][r] = Tail(@)]
                          /\ hdr' = [hdr EXCEPT ![s][r] = FALSE]
    <3>1. CASE Size(k) = 0
      BY <1>12, <2>1, <2>2, <3>1 DEF StoreBody
    <3>2. CASE Size(k) # 0
      <4>1. chan[s][r] # << >>
        BY <1>12, <2>1, <2>2, <3>2 DEF StoreBody
      <4>2. Head(chan[s][r]) = k
        BY <2>1, <2>2, <2>3, <3>2, <4>1 DEF BodyFirst, ReadsBody
      <4> QED
        BY <1>12, <2>1, <2>2, <3>2, <4>1, <4>2 DEF StoreBody
    <3> QED
      BY <3>1, <3>2
  <2>5. /\ segment'[r][k] = k
        /\ \A q \in Receivers, l \in Segs : q # r \/ l # k =>
             segment'[q][l] = segment[q][l]
    BY <1>0, <2>4 DEF TypeOK
  <2>6. TableOK'
    BY <1>12, <2>5 DEF StoreBody, TableOK
  <2>7. PublishOK'
    <3>1. \A q \in Receivers : main[q] = "publish" => mseq[q] \in Segs
      BY <1>0 DEF LocalsOK
    <3> QED
      BY <1>12, <2>5, <3>1 DEF StoreBody, PublishOK
  <2>8. /\ rpc'[r][t] = "flag"
        /\ \A q \in Receivers, u \in Slots : q # r \/ u # t => rpc'[q][u] = rpc[q][u]
        /\ rseq' = rseq /\ ridx' = ridx /\ flag' = flag
    BY <1>0, <1>12 DEF StoreBody, TypeOK
  <2>9. ReadersHoldOwn'
    BY <2>3, <2>8 DEF ReadersHoldOwn, HasOwn, Source
  <2>10. ReadersStored'
    <3>1. \A q \in Receivers, u \in Slots : rpc[q][u] = "flag" => rseq[q][u] \in Segs
      BY <1>0 DEF LocalsOK, InSegmentTable
    <3> QED
      BY <2>2, <2>5, <2>8, <3>1 DEF ReadersStored
  <2>11. \A q \in Receivers, u \in Slots :
           /\ Source(q, u)' = Source(q, u)
           /\ ReadsBody(q, u)' => ReadsBody(q, u) /\ (q # r \/ u # t)
    BY <2>8 DEF ReadsBody, Source
  <2>12. BodyAlone'
    BY <2>11 DEF BodyAlone
  <2>13. chan[s][r] \in Seq(Segs \cup {NoData})
    BY <1>0, ChanType, Domains
  <2>14. /\ \A p \in Procs, q \in Receivers : p # s \/ q # r \/ Size(k) = 0 =>
              chan'[p][q] = chan[p][q] /\ hdr'[p][q] = hdr[p][q]
         /\ Size(k) # 0 => /\ chan[s][r] # << >>
                           /\ chan'[s][r] = Tail(chan[s][r])
                           /\ ~ hdr'[s][r]
    <3>1. CASE Size(k) = 0
      BY <2>4, <3>1
    <3>2. CASE Size(k) # 0
      <4>0. /\ chan' = [chan EXCEPT ![s][r] = Tail(@)]
            /\ hdr' = [hdr EXCEPT ![s][r] = FALSE]
        BY <2>4, <3>2
      <4>1. /\ chan'[s][r] = Tail(chan[s][r])
            /\ \A p \in Procs, q \in Receivers : p # s \/ q # r =>
                 chan'[p][q] = chan[p][q]
        BY <1>0, <4>0, Domains DEF TypeOK
      <4>2. /\ hdr'[s][r] = FALSE
            /\ \A p \in Procs, q \in Receivers : p # s \/ q # r =>
                 hdr'[p][q] = hdr[p][q]
        BY <1>0, <4>0, Domains DEF TypeOK
      <4> QED
        BY <2>4, <3>2, <4>1, <4>2
    <3> QED
      BY <3>1, <3>2
  <2>15. BodyFirst'
    <3> SUFFICES ASSUME NEW q \in Receivers, NEW u \in Slots, ReadsBody(q, u)'
                 PROVE  /\ hdr'[Source(q, u)][q]
                        /\ chan'[Source(q, u)][q] # << >> =>
                             Head(chan'[Source(q, u)][q]) = rseq'[q][u]
      BY <2>11 DEF BodyFirst
    <3>1. ReadsBody(q, u) /\ (q # r \/ u # t)
      BY <2>11
    <3>2. Source(q, u) \in Receivers
      BY <1>0, <3>1, PeersAreReceivers DEF LocalsOK, InSegmentTable, Source, ReadsBody
    <3>3. Source(q, u) # s \/ q # r \/ Size(k) = 0
      BY <2>1, <2>2, <2>3, <3>1 DEF BodyAlone, ReadsBody
    <3> QED
      BY <2>8, <2>14, <3>1, <3>2, <3>3, Domains DEF BodyFirst
  <2>16. FromSenderOK'
    BY <2>14, Domains DEF FromSenderOK
  <2>17. FromPeersOK'
    <3> SUFFICES ASSUME NEW p \in Receivers, NEW q \in Receivers,
                        NEW i \in 1 .. Len(chan'[p][q])
                 PROVE  (chan[p][q][i] \in Segs /\ HasOwn(p, chan[p][q][i]))'
      BY DEF FromPeersOK
    <3>1. \E j \in 1 .. Len(chan[p][q]) : chan'[p][q][i] = chan[p][q][j]
      <4>1. CASE p = s /\ q = r /\ Size(k) # 0
        <5>1. \A j \in 1 .. Len(Tail(chan[s][r])) :
                j + 1 \in 1 .. Len(chan[s][r]) /\ Tail(chan[s][r])[j] = chan[s][r][j + 1]
          BY <2>13, <2>14, <4>1, TailElements
        <5>2. chan'[p][q] = Tail(chan[s][r])
          BY <2>14, <4>1
        <5> QED
          BY <4>1, <5>1, <5>2
      <4>2. CASE ~(p = s /\ q = r /\ Size(k) # 0)
        BY <2>14, <4>2, Domains
      <4> QED
        BY <4>1, <4>2
    <3> QED
      BY <2>8, <3>1 DEF FromPeersOK, HasOwn
  <2>18. HeadersOK'
    <3>1. \A q \in Procs : Running(q)' = Running(q)
      BY <1>12 DEF StoreBody, Running
    <3> QED
      BY <2>14, <3>1, Domains DEF HeadersOK
  <2> QED
    BY <1>0, <1>12, <2>6, <2>7, <2>9, <2>10, <2>12, <2>15, <2>16, <2>17, <2>18
    DEF StoreBody, OwnOK, FilePrefix, WriterOK, HasOwn
<1>13. ASSUME NEW r \in Receivers, NEW t \in Slots, FlagFromPeer(r, t) PROVE IInv'
  <2>1. PICK k \in Segs : k = rseq[r][t] /\ segment[r][k] = k
    <3>1. rpc[r][t] = "flag"
      BY <1>13 DEF FlagFromPeer
    <3>2. rseq[r][t] \in Segs
      BY <1>0, <3>1 DEF LocalsOK, InSegmentTable
    <3> QED
      BY <3>1, <3>2 DEF ReadersStored
  <2>2. /\ flag'[r][k]
        /\ \A q \in Receivers, l \in Segs : q # r \/ l # k => flag'[q][l] = flag[q][l]
    BY <1>0, <1>13, <2>1 DEF FlagFromPeer, TypeOK
  <2>3. \A q \in Receivers, l \in Segs : flag[q][l] => flag'[q][l]
    BY <2>2
  <2>4. TableOK'
    BY <1>13, <2>1, <2>2 DEF FlagFromPeer, TableOK
  <2>5. OwnOK'
    <3>1. \A q \in Receivers : \A i \in 1 .. Len(own[q]) : own[q][i] \in Segs
      BY <1>0 DEF TypeOK
    <3> QED
      BY <1>13, <2>3, <3>1 DEF FlagFromPeer, OwnOK, HasOwn
  <2>6. \A q \in Receivers, u \in Slots : rpc'[q][u] \in {"body", "flag"} =>
          rpc'[q][u] = rpc[q][u]
    BY <1>0, <1>13 DEF FlagFromPeer, TypeOK
  <2>7. ReadersHoldOwn' /\ ReadersStored' /\ BodyFirst' /\ BodyAlone'
    BY <1>0, <1>13, <2>3, <2>6, ReadersKeep DEF FlagFromPeer
  <2>8. FromPeersOK'
    BY <1>13, <2>3, FlightKeeps DEF FlagFromPeer
  <2> QED
    BY <1>0, <1>13, <2>4, <2>5, <2>7, <2>8
    DEF FlagFromPeer, PublishOK, WriterOK, FromSenderOK, HeadersOK, FilePrefix, Running
<1>14. ASSUME NEW r \in Receivers, NEW t \in Slots, CountDown(r, t) PROVE IInv'
  <2>1. \A q \in Receivers, u \in Slots : rpc'[q][u] \in {"body", "flag"} =>
          rpc'[q][u] = rpc[q][u] /\ ridx'[q][u] = ridx[q][u]
    BY <1>0, <1>14 DEF CountDown, TypeOK
  <2>2. ReadersHoldOwn' /\ ReadersStored' /\ BodyFirst' /\ BodyAlone'
    BY <1>0, <1>14, <2>1, ReadersKeep DEF CountDown
  <2> QED
    BY <1>0, <1>14, <2>2 DEF CountDown, TableOK, OwnOK, PublishOK, FromSenderOK,
       FromPeersOK, HeadersOK, FilePrefix, WriterOK, HasOwn, Running
<1>15. ASSUME NEW r \in Receivers, NEW t \in Slots, UpdateRecvInfo(r, t) PROVE IInv'
  <2>1. \A q \in Receivers, u \in Slots : rpc'[q][u] \in {"body", "flag"} =>
          rpc'[q][u] = rpc[q][u] /\ ridx'[q][u] = ridx[q][u]
    BY <1>0, <1>15 DEF UpdateRecvInfo, TypeOK
  <2>2. ReadersHoldOwn' /\ ReadersStored' /\ BodyFirst' /\ BodyAlone'
    BY <1>0, <1>15, <2>1, ReadersKeep DEF UpdateRecvInfo
  <2> QED
    BY <1>0, <1>15, <2>2 DEF UpdateRecvInfo, TableOK, OwnOK, PublishOK, FromSenderOK,
       FromPeersOK, HeadersOK, FilePrefix, WriterOK, HasOwn, Running
<1>16. ASSUME NEW r \in Receivers, NEW t \in Slots, ForwardSegment(r, t) PROVE IInv'
  <2>1. PICK q \in Receivers : q = peerAt[r][t]
    BY PeersAreReceivers
  <2>2. PICK k \in Segs : k = own[r][sent[r][t] + 1] /\ HasOwn(r, k) /\ segment[r][k] = k
    <3>1. sent[r][t] + 1 \in 1 .. Len(own[r])
      <4>1. sent[r][t] \in Nat /\ own[r] \in Seq(Segs)
        BY <1>0 DEF TypeOK
      <4>2. Len(own[r]) \in Nat
        BY <4>1
      <4>3. sent[r][t] < Len(own[r])
        BY <1>16 DEF ForwardSegment
      <4> QED
        BY <4>1, <4>2, <4>3
    <3>2. own[r][sent[r][t] + 1] \in Segs /\ HasOwn(r, own[r][sent[r][t] + 1])
      <4>1. own[r] \in Seq(Segs)
        BY <1>0 DEF TypeOK
      <4> QED
        BY <3>1, <4>1 DEF OwnOK
    <3> QED
      BY <3>2 DEF TableOK, HasOwn
  <2>3. TableOK' /\ OwnOK' /\ PublishOK' /\ FilePrefix' /\ WriterOK'
    BY <1>16 DEF ForwardSegment, TableOK, OwnOK, PublishOK, FilePrefix, WriterOK, HasOwn
  <2>4. CASE /\ \A p \in Procs, l \in Receivers : chan'[p][l] \in {chan[p][l], << >>}
             /\ \A p \in Procs : Running(p)' => Running(p) /\ chan'[p] = chan[p]
    <3>1. FromSenderOK'
      <4> SUFFICES ASSUME NEW l \in Receivers, NEW i \in 1 .. Len(chan'[Sender][l])
                   PROVE  Target(chan'[Sender][l][i]) = l
        BY DEF FromSenderOK
      <4>1. chan'[Sender][l] = chan[Sender][l]
        BY <2>4, Domains
      <4> QED
        BY <4>1 DEF FromSenderOK
    <3>2. FromPeersOK'
      BY <1>16, <2>4, FlightKeeps, Domains DEF ForwardSegment
    <3>3. ReadersHoldOwn' /\ ReadersStored' /\ BodyFirst' /\ BodyAlone'
      BY <1>0, <1>16, <2>4, ReadersKeep, Domains DEF ForwardSegment
    <3>4. HeadersOK'
      BY <1>16, <2>4, HeadersKeep, Domains DEF ForwardSegment
    <3> QED
      BY <1>0, <2>3, <3>1, <3>2, <3>3, <3>4
  <2>5. CASE chan' = [chan EXCEPT ![r][q] = Append(@, k)] /\ UNCHANGED status
    <3>1. chan[r][q] \in Seq(Segs \cup {NoData})
      BY <1>0, ChanType, Domains
    <3>2. /\ chan'[r][q] = Append(chan[r][q], k)
          /\ \A p \in Procs, l \in Receivers : p # r \/ l # q => chan'[p][l] = chan[p][l]
      BY <1>0, <2>5, Domains DEF TypeOK
    <3>3. FromSenderOK'
      BY <3>2, Domains DEF FromSenderOK
    <3>4. FromPeersOK'
      <4> SUFFICES ASSUME NEW p \in Receivers, NEW l \in Receivers,
                          NEW i \in 1 .. Len(chan'[p][l])
                   PROVE  (chan[p][l][i] \in Segs /\ HasOwn(p, chan[p][l][i]))'
        BY DEF FromPeersOK
      <4>1. UNCHANGED flag
        BY <1>16 DEF ForwardSegment
      <4>2. CASE p = r /\ l = q
        <5>1. \A j \in 1 .. Len(Append(chan[r][q], k)) :
                \/ Append(chan[r][q], k)[j] = k
                \/ /\ j \in 1 .. Len(chan[r][q])
                   /\ Append(chan[r][q], k)[j] = chan[r][q][j]
          BY <3>1, AppendElements
        <5>2. \/ chan'[p][l][i] = k
              \/ i \in 1 .. Len(chan[r][q]) /\ chan'[p][l][i] = chan[r][q][i]
          BY <3>2, <4>2, <5>1
        <5> QED
          BY <2>2, <4>1, <4>2, <5>2 DEF FromPeersOK, HasOwn
      <4>3. CASE p # r \/ l # q
        BY <3>2, <4>1, <4>3, Domains DEF FromPeersOK, HasOwn
      <4> QED
        BY <4>2, <4>3
    <3>5. /\ rpc' = rpc /\ ridx' = ridx /\ rseq' = rseq /\ hdr' = hdr
          /\ segment' = segment /\ flag' = flag
      BY <1>16 DEF ForwardSegment
    <3>6. ReadersHoldOwn' /\ ReadersStored' /\ BodyAlone'
      BY <3>5 DEF ReadersHoldOwn, ReadersStored, BodyAlone, HasOwn, ReadsBody, Source
    <3>7. Running(r) /\ \A p \in Procs : Running(p)' = Running(p)
      BY <1>16, <2>5 DEF ForwardSegment, Running
    <3>8. HeadersOK'
      BY <3>1, <3>2, <3>5, <3>7, AppendHead, Domains DEF HeadersOK
    <3>9. BodyFirst'
      <4> SUFFICES ASSUME NEW l \in Receivers, NEW u \in Slots, ReadsBody(l, u)
                   PROVE  /\ hdr[Source(l, u)][l]
                          /\ chan'[Source(l, u)][l] # << >> =>
                               Head(chan'[Source(l, u)][l]) = rseq[l][u]
        BY <3>5 DEF BodyFirst, ReadsBody, Source
      <4>1. Source(l, u) \in Receivers
        BY <1>0, PeersAreReceivers DEF LocalsOK, InSegmentTable, Source, ReadsBody
      <4>2. CASE Source(l, u) = r /\ l = q
        <5>1. hdr[r][q] /\ chan[r][q] # << >>
          BY <3>7, <4>2 DEF BodyFirst, HeadersOK
        <5>2. Head(chan'[r][q]) = Head(chan[r][q])
          BY <3>1, <3>2, <5>1, AppendHead
        <5> QED
          BY <4>2, <5>1, <5>2 DEF BodyFirst
      <4>3. CASE Source(l, u) # r \/ l # q
        BY <3>2, <4>1, <4>3, Domains DEF BodyFirst
      <4> QED
        BY <4>2, <4>3
    <3> QED
      BY <1>0, <2>3, <3>3, <3>4, <3>6, <3>8, <3>9
  <2>6. CASE Die(r, "killed")
    BY <1>0, <2>4, <2>6, DieChan, Domains
  <2>7. CASE UNCHANGED <<status, chan>>
    BY <2>4, <2>7 DEF Running
  <2> QED
    BY <1>16, <2>1, <2>2, <2>5, <2>6, <2>7 DEF ForwardSegment
<1>17. ASSUME NEW r \in Receivers, OpenFile(r) PROVE IInv'
  <2>1. WriterOK'
    BY <1>0, <1>17 DEF OpenFile, WriterOK, TypeOK
  <2> QED
    BY <1>0, <1>17, <2>1, TablesKeep, ReadersSame
    DEF OpenFile, PublishOK, HeadersOK, FilePrefix, Running
<1>18. ASSUME NEW r \in Receivers, WriteSegment(r) PROVE IInv'
  <2> DEFINE k == Len(file[r])
  <2>1. /\ file[r] \in Seq(Segs \cup {NoData})
        /\ k \in Segs
        /\ k + 1 <= total_seg
        /\ segment[r][k] = k
    <3>1. file[r] \in Seq(Segs \cup {NoData})
      BY <1>0 DEF TypeOK
    <3>2. k < total_seg /\ flag[r][k]
      BY <1>18 DEF WriteSegment, NextFlagged
    <3>3. k \in Segs /\ k + 1 <= total_seg
      BY <3>1, <3>2, Segmentation DEF Segs
    <3> HIDE DEF k
    <3> QED
      BY <3>1, <3>2, <3>3 DEF TableOK
  <2>2. file'[r] = Append(file[r], k) /\ \A q \in Receivers : q # r => file'[q] = file[q]
    BY <1>0, <1>18, <2>1 DEF WriteSegment, TypeOK
  <2>3. FilePrefix'
    <3> SUFFICES ASSUME NEW q \in Receivers
                 PROVE  /\ Len(file'[q]) <= total_seg
                        /\ \A j \in 1 .. Len(file'[q]) : file'[q][j] = j - 1
      BY DEF FilePrefix
    <3>1. CASE q = r
      BY <2>1, <2>2, <3>1 DEF FilePrefix
    <3>2. CASE q # r
      BY <2>2, <3>2 DEF FilePrefix
    <3> QED
      BY <3>1, <3>2
  <2>4. WriterOK'
    <3>1. writer[r] = "write" /\ ~ (k = total_seg)
      BY <1>18, <2>1, Segmentation DEF WriteSegment, Segs
    <3>2. writer' = writer /\ main' = main
      BY <1>18 DEF WriteSegment
    <3> QED
      BY <2>2, <3>1, <3>2 DEF WriterOK
  <2> QED
    BY <1>0, <1>18, <2>3, <2>4, TablesKeep, ReadersSame
    DEF WriteSegment, PublishOK, HeadersOK, Running
<1>19. ASSUME NEW p \in Procs, Crash(p) PROVE IInv'
  <2>1. /\ \A q \in Procs, r \in Receivers : chan'[q][r] \in {chan[q][r], << >>}
        /\ \A q \in Procs : Running(q)' => Running(q) /\ chan'[q] = chan[q]
    BY <1>0, <1>19, DieChan DEF Crash
  <2>2. FromSenderOK'
    <3> SUFFICES ASSUME NEW r \in Receivers, NEW i \in 1 .. Len(chan'[Sender][r])
                 PROVE  Target(chan'[Sender][r][i]) = r
      BY DEF FromSenderOK
    <3>1. chan'[Sender][r] = chan[Sender][r]
      BY <2>1, Domains
    <3> QED
      BY <3>1 DEF FromSenderOK
  <2>3. FromPeersOK'
    BY <1>19, <2>1, FlightKeeps, Domains DEF Crash
  <2>4. ReadersHoldOwn' /\ ReadersStored' /\ BodyFirst' /\ BodyAlone'
    BY <1>0, <1>19, <2>1, ReadersKeep, Domains DEF Crash
  <2>5. HeadersOK'
    BY <1>19, <2>1, HeadersKeep, Domains DEF Crash
  <2> QED
    BY <1>0, <1>19, <2>2, <2>3, <2>4, <2>5
    DEF Crash, TableOK, OwnOK, PublishOK, FilePrefix, WriterOK, HasOwn
<1>20. ASSUME NEW r \in Receivers, NEW t \in Slots, HeaderReset(r, t) PROVE IInv'
  <2>1. PICK s \in Receivers : s = Source(r, t)
    BY <1>0, <1>20, PeersAreReceivers DEF HeaderReset, LocalsOK, Source
  <2>2. /\ \A q \in Receivers : Running(q)' => Running(q)
        /\ ~ Running(s)'
    BY <1>0, <1>20, <2>1, Domains DEF HeaderReset, Reset, Gone, Running, TypeOK
  <2>3. /\ \A q, u \in Receivers : hdr[q][u] => hdr'[q][u]
        /\ \A q, u \in Receivers : q # s => hdr'[q][u] = hdr[q][u]
    BY <1>0, <1>20, <2>1, Domains DEF HeaderReset, TypeOK
  <2>4. HeadersOK'
    BY <1>20, <2>2, <2>3 DEF HeaderReset, HeadersOK
  <2>5. \/ rpc' = rpc
        \/ rpc' = [rpc EXCEPT ![r][t] = "astray"]
        \/ rpc' = [rpc EXCEPT ![r][t] = "count"]
    BY <1>20 DEF HeaderReset
  <2>6. \A q \in Receivers, u \in Slots : rpc'[q][u] \in {"body", "flag"} =>
          rpc'[q][u] = rpc[q][u]
    <3>1. rpc \in [Receivers -> [Slots -> ReaderStates]]
      BY <1>0 DEF TypeOK
    <3>2. CASE rpc' = [rpc EXCEPT ![r][t] = "astray"]
      BY <3>1, <3>2
    <3>3. CASE rpc' = [rpc EXCEPT ![r][t] = "count"]
      BY <3>1, <3>3
    <3> QED
      BY <2>5, <3>2, <3>3
  <2>7. ReadersHoldOwn' /\ ReadersStored' /\ BodyFirst' /\ BodyAlone'
    BY <1>0, <1>20, <2>3, <2>6, ReadersKeep DEF HeaderReset
  <2>8. TableOK' /\ OwnOK' /\ FromSenderOK' /\ FromPeersOK'
    BY <1>20, TablesKeep DEF HeaderReset
  <2>9. PublishOK' /\ FilePrefix' /\ WriterOK'
    BY <1>20 DEF HeaderReset, PublishOK, FilePrefix, WriterOK
  <2> QED
    BY <1>0, <2>4, <2>7, <2>8, <2>9
<1>21. ASSUME NEW r \in Receivers, NEW t \in Slots, BodyReset(r, t) PROVE IInv'
  <2>1. \A q \in Receivers : Running(q)' => Running(q)
    BY <1>0, <1>21, Domains DEF BodyReset, Running, TypeOK
  <2>2. HeadersOK'
    BY <1>21, <2>1, HeadersKeep DEF BodyReset
  <2>3. ReadersHoldOwn' /\ ReadersStored' /\ BodyFirst' /\ BodyAlone'
    BY <1>0, <1>21, ReadersSame DEF BodyReset
  <2>4. TableOK' /\ OwnOK' /\ FromSenderOK' /\ FromPeersOK'
    BY <1>21, TablesKeep DEF BodyReset
  <2>5. PublishOK' /\ FilePrefix' /\ WriterOK'
    BY <1>21 DEF BodyReset, PublishOK, FilePrefix, WriterOK
  <2> QED
    BY <1>0, <2>2, <2>3, <2>4, <2>5
<1>22. CASE UNCHANGED vars
  BY <1>0, <1>22, TablesKeep, ReadersSame
  DEF vars, PublishOK, HeadersOK, FilePrefix, WriterOK, Running
<1>23. CASE Terminated
  BY <1>22, <1>23 DEF Terminated
<1> QED
  BY <1>1, <1>2, <1>3, <1>4, <1>5, <1>6, <1>7, <1>8, <1>9, <1>10, <1>11, <1>12,
     <1>13,
     <1>14, <1>15, <1>16, <1>17, <1>18, <1>19, <1>20, <1>21, <1>22, <1>23
  DEF Next, ProgramStep, MainThread, PeerThreads, FileWriter

\* The strengthening of FilePrefix that is inductive holds in every reachable
\* state: every number in flight, held by a thread or flagged is where it belongs.
THEOREM IInvCorrect == Spec => []IInv
<1>1. Init => TypeInv /\ IInv
  BY TypeInit, IInvInit
<1>2. TypeInv /\ IInv /\ [Next]_vars => TypeInv' /\ IInv'
  BY TypeStep, IInvStep
<1>3. TypeInv /\ IInv => IInv
  OBVIOUS
<1> QED
  BY <1>1, <1>2, <1>3, PTL DEF Spec

\* What a receiver has written is a prefix of the file, however the threads of
\* all the processes interleave, whoever crashes, and whichever reader threads
\* have taken the wrong connection.
THEOREM FilePrefixCorrect == Spec => []FilePrefix
<1>1. IInv => FilePrefix
  BY DEF IInv
<1> QED
  BY <1>1, IInvCorrect, PTL

-------------------------------------------------------------------------------
(* Transfer implements FileSharing: flagging a segment is receiving it,    *)
(* appending to the file is copying, and the exit of a receiver's process  *)
(* is its declaration that the copy is whole.  The one exception is an     *)
(* empty file whose copy cannot be opened, for which receivers exit        *)
(* without a copy; the theorem excludes it.                                *)

\* There is something to copy, or the copy can be opened.
CopyIsNeeded == FileSize > 0 \/ ~ OpenMayFail

\* The three abstract variables are read off flag, file and status.
LEMMA Stutter ==
  ASSUME UNCHANGED <<flag, file>>,
         \A r \in Receivers : status'[r] = "done" <=> status[r] = "done"
  PROVE  UNCHANGED Promise!vars
  BY DEF Promise!vars

\* A process that fails or is killed is no more finished than it was.
LEMMA NoExit ==
  ASSUME TypeOK, NEW p \in Procs, NEW how \in {"crashed", "killed", "wild"},
         Running(p), status' = [status EXCEPT ![p] = how]
  PROVE  \A r \in Receivers : status'[r] = "done" <=> status[r] = "done"
  BY Domains DEF TypeOK, Running

LEMMA InitRefines == Init => Promise!Init
<1> SUFFICES ASSUME Init PROVE Promise!Init
  OBVIOUS
<1>1. \A r \in Receivers : {k \in Segs : flag[r][k]} = {}
  BY DEF Init
<1>2. \A r \in Receivers : Len(file[r]) = 0 /\ status[r] = "run"
  BY Domains DEF Init
<1> QED
  BY <1>1, <1>2 DEF Promise!Init, Promise!Receivers, Receivers

\* A receiver that flags a segment it did not have moves it into have.
LEMMA FlagMovesHave ==
  ASSUME TypeOK, NEW r \in Receivers, NEW k \in Segs,
         flag' = [flag EXCEPT ![r][k] = TRUE]
  PROVE  [q \in Receivers |-> {l \in Segs : flag[q][l]}]' =
           [[q \in Receivers |-> {l \in Segs : flag[q][l]}]
              EXCEPT ![r] = @ \cup {k}]
<1>1. \A q \in Receivers : {l \in Segs : flag'[q][l]} =
        IF q = r THEN {l \in Segs : flag[q][l]} \cup {k} ELSE {l \in Segs : flag[q][l]}
  BY DEF TypeOK
<1> QED
  BY <1>1

LEMMA StepRefines ==
  ASSUME CopyIsNeeded, TypeInv, IInv, [Next]_vars
  PROVE  [Promise!Next]_Promise!vars
<1>0. TypeOK /\ LocalsOK
  BY DEF TypeInv
<1> USE DEF senderVars, netVars, mainVars, readerVars, bufferVars, outputVars
<1>1. ASSUME SendSegment PROVE UNCHANGED Promise!vars
  <2>1. \A r \in Receivers : status'[r] = "done" <=> status[r] = "done"
    BY <1>0, <1>1, NoExit, Domains DEF SendSegment, Die
  <2> QED
    BY <1>1, <2>1, Stutter DEF SendSegment
<1>2. ASSUME SenderExit PROVE UNCHANGED Promise!vars
  <2>1. \A r \in Receivers : status'[r] = status[r]
    BY <1>0, <1>2, Domains DEF SenderExit, TypeOK
  <2> QED
    BY <1>2, <2>1, Stutter DEF SenderExit
<1>3. ASSUME NEW r \in Receivers, NEW t \in Slots,
             \/ StartReader(r, t)
             \/ ReadHeader(r, t)
             \/ StoreBody(r, t)
             \/ CountDown(r, t)
             \/ UpdateRecvInfo(r, t)
      PROVE  UNCHANGED Promise!vars
  <2>1. UNCHANGED <<flag, file, status>>
    BY <1>3 DEF StartReader, ReadHeader, StoreBody, CountDown, UpdateRecvInfo
  <2> QED
    BY <2>1, Stutter
<1>4. ASSUME NEW r \in Receivers, PublishOwn(r) PROVE [Promise!Next]_Promise!vars
  <2>1. PICK k \in Segs : k = mseq[r] /\ Target(k) = r
    BY <1>0, <1>4 DEF PublishOwn, LocalsOK, IInv, PublishOK
  <2>2. flag' = [flag EXCEPT ![r][k] = TRUE] /\ UNCHANGED <<file, status>>
    BY <1>4, <2>1 DEF PublishOwn
  <2>3. CASE flag[r][k]
    <3>1. flag' = flag
      BY <1>0, <2>1, <2>2, <2>3 DEF TypeOK
    <3> QED
      BY <2>2, <3>1, Stutter
  <2>4. CASE ~ flag[r][k]
    <3>1. Promise!Deal(k)
      BY <1>0, <2>1, <2>2, <2>4, FlagMovesHave DEF Promise!Deal, Promise!Dealt, Target
    <3> QED
      BY <2>1, <3>1 DEF Promise!Next, Promise!Segs, Segs
  <2> QED
    BY <2>3, <2>4
<1>5. ASSUME NEW r \in Receivers, NEW t \in Slots, FlagFromPeer(r, t)
      PROVE  [Promise!Next]_Promise!vars
  <2>1. rpc[r][t] = "flag"
    BY <1>5 DEF FlagFromPeer
  <2>2. PICK k \in Segs, s \in Receivers :
          k = rseq[r][t] /\ s = Source(r, t) /\ s # r
    BY <1>0, <2>1, PeersAreReceivers DEF LocalsOK, InSegmentTable, Source
  <2>3. Target(k) = s /\ flag[s][k]
    BY <2>1, <2>2 DEF IInv, ReadersHoldOwn, HasOwn
  <2>4. flag' = [flag EXCEPT ![r][k] = TRUE] /\ UNCHANGED <<file, status>>
    BY <1>5, <2>2 DEF FlagFromPeer
  <2>5. CASE flag[r][k]
    <3>1. flag' = flag
      BY <1>0, <2>2, <2>4, <2>5 DEF TypeOK
    <3> QED
      BY <2>4, <3>1, Stutter
  <2>6. CASE ~ flag[r][k]
    <3>1. Promise!Forward(k, r)
      BY <1>0, <2>2, <2>3, <2>4, <2>6, FlagMovesHave
      DEF Promise!Forward, Promise!Dealt, Target
    <3> QED
      BY <2>2, <3>1 DEF Promise!Next, Promise!Segs, Segs, Promise!Receivers, Receivers
  <2> QED
    BY <2>5, <2>6
<1>6. ASSUME NEW r \in Receivers, WriteSegment(r) PROVE [Promise!Next]_Promise!vars
  <2> DEFINE k == Len(file[r])
             x == segment[r][k]
  <2>1. file[r] \in Seq(Segs \cup {NoData}) /\ file \in [Receivers -> Seq(Segs \cup {NoData})]
    BY <1>0 DEF TypeOK
  <2>2. k \in Segs /\ flag[r][k]
    BY <1>6, <2>1, Segmentation DEF WriteSegment, NextFlagged, Segs
  <2>3. file' = [file EXCEPT ![r] = Append(@, x)] /\ UNCHANGED <<flag, status>>
    BY <1>6 DEF WriteSegment
  <2> HIDE DEF x
  <2>4. Len(Append(file[r], x)) = k + 1
    BY <2>1
  <2>5. \A q \in Receivers : Len(file'[q]) = IF q = r THEN k + 1 ELSE Len(file[q])
    BY <2>1, <2>3, <2>4
  <2>6. Promise!Copy(r)
    <3> HIDE DEF k
    <3>1. [q \in Receivers |-> Len(file[q])]' =
            [[q \in Receivers |-> Len(file[q])] EXCEPT ![r] = @ + 1]
      BY <2>5 DEF k
    <3>2. Len(file[r]) \in {l \in Segs : flag[r][l]}
      BY <2>2 DEF k
    <3> QED
      BY <2>3, <3>1, <3>2 DEF Promise!Copy
  <2> QED
    BY <2>6 DEF Promise!Next, Promise!Receivers, Receivers
<1>7. ASSUME NEW r \in Receivers, ReceiverExit(r) PROVE [Promise!Next]_Promise!vars
  <2>1. Len(file[r]) = total_seg
    BY <1>7, TransferAssumption DEF ReceiverExit, IInv, WriterOK, CopyIsNeeded
  <2>2. status[r] # "done" /\ UNCHANGED <<flag, file>>
    BY <1>7 DEF ReceiverExit, Running
  <2>3. \A q \in Receivers : status'[q] = IF q = r THEN "done" ELSE status[q]
    BY <1>0, <1>7, Domains DEF ReceiverExit, TypeOK
  <2>4. Promise!Finish(r)
    BY <2>1, <2>2, <2>3 DEF Promise!Finish
  <2> QED
    BY <2>4 DEF Promise!Next, Promise!Receivers, Receivers
<1>8. ASSUME NEW r \in Receivers, NEW t \in Slots,
             ReadGarbage(r, t) \/ HeaderReset(r, t) \/ BodyReset(r, t)
      PROVE  UNCHANGED Promise!vars
  <2>1. \A q \in Receivers : status'[q] = "done" <=> status[q] = "done"
    BY <1>0, <1>8, NoExit, Domains DEF ReadGarbage, HeaderReset, BodyReset
  <2> QED
    BY <1>8, <2>1, Stutter DEF ReadGarbage, HeaderReset, BodyReset
<1>9. ASSUME NEW r \in Receivers, NEW t \in Slots, ForwardSegment(r, t)
      PROVE  UNCHANGED Promise!vars
  <2>1. \A q \in Receivers : status'[q] = "done" <=> status[q] = "done"
    <3>1. CASE Die(r, "killed")
      BY <1>0, <1>9, <3>1, NoExit, Domains DEF ForwardSegment, Die
    <3>2. CASE UNCHANGED status
      BY <3>2
    <3> QED
      BY <1>9, <3>1, <3>2 DEF ForwardSegment
  <2> QED
    BY <1>9, <2>1, Stutter DEF ForwardSegment
<1>10. ASSUME NEW p \in Procs, Crash(p) PROVE UNCHANGED Promise!vars
  <2>1. \A q \in Receivers : status'[q] = "done" <=> status[q] = "done"
    BY <1>0, <1>10, NoExit DEF Crash, Die
  <2> QED
    BY <1>10, <2>1, Stutter DEF Crash
<1>11. CASE UNCHANGED vars
  BY <1>11, Stutter DEF vars
<1>12. CASE Terminated
  BY <1>11, <1>12 DEF Terminated
<1>13. ASSUME NEW r \in Receivers, MainThread(r) \/ FileWriter(r)
       PROVE  [Promise!Next]_Promise!vars
  <2>1. CASE \/ CreatePeerThreads(r)
             \/ NextPeer(r)
             \/ RecvFromSender(r)
             \/ JoinAndFree(r)
             \/ OpenFile(r)
    <3>1. UNCHANGED <<flag, file, status>>
      BY <2>1 DEF CreatePeerThreads, NextPeer, RecvFromSender, JoinAndFree, OpenFile
    <3> QED
      BY <3>1, Stutter
  <2> QED
    BY <1>4, <1>6, <1>7, <1>13, <2>1 DEF MainThread, FileWriter
<1>14. ASSUME NEW r \in Receivers, NEW t \in Slots, PeerThreads(r, t)
       PROVE  [Promise!Next]_Promise!vars
  BY <1>3, <1>5, <1>8, <1>9, <1>14 DEF PeerThreads
<1> QED
  BY <1>1, <1>2, <1>10, <1>11, <1>12, <1>13, <1>14 DEF Next, ProgramStep

\* For any number of receivers, any file and any schedule, with crashes of any
\* process and reader threads on the wrong connection: a receiver takes a segment
\* only from the sender, if it was dealt to it, or after the receiver it was
\* dealt to has it; the copy grows in file order; and a receiver's process ends
\* (client.c:207-220) only with a whole copy.
THEOREM TransferImplementsFileSharing ==
  ASSUME CopyIsNeeded
  PROVE  Spec => ImplementsFileSharing
<1>1. Init => Promise!Init
  BY InitRefines
<1>2. TypeInv /\ IInv /\ [Next]_vars => [Promise!Next]_Promise!vars
  BY StepRefines
<1>3. Init => TypeInv /\ IInv
  BY TypeInit, IInvInit
<1>4. TypeInv /\ IInv /\ [Next]_vars => TypeInv' /\ IInv'
  BY TypeStep, IInvStep
<1> QED
  BY <1>1, <1>2, <1>3, <1>4, PTL DEF Spec, ImplementsFileSharing, Promise!Spec

-------------------------------------------------------------------------------
(***************************************************************************)
(* How a transfer ends: a reader thread leaves its loop only when its      *)
(* receiver has everything (ReadersEndLast), nothing is on its way to a    *)
(* receiver that has finished (DoneIsQuiet), and no reader thread is left  *)
(* in a segment table that has been freed (NoUseAfterFree).                *)
(*                                                                         *)
(* All three come down to every segment travelling once: DealInv says so   *)
(* of the way from the sender to the receiver it is dealt to, RelayInv of  *)
(* the way from there to the other receivers, and TallyInv that the two    *)
(* counters a receiver decides by, remain_seg_num and the bytes received,  *)
(* therefore count every segment once.                                     *)
(***************************************************************************)

-------------------------------------------------------------------------------
(* Sequences without repetition. *)

In(x, s) == \E i \in 1 .. Len(s) : s[i] = x

Distinct(s) == \A i, j \in 1 .. Len(s) : s[i] = s[j] => i = j

LEMMA EmptyIs ==
  /\ Distinct(<< >>)
  /\ \A x : ~ In(x, << >>)
  BY DEF Distinct, In

LEMMA HeadIn ==
  ASSUME NEW S, NEW s \in Seq(S), s # << >>
  PROVE  In(Head(s), s)
<1>1. 1 \in 1 .. Len(s) /\ s[1] = Head(s)
  OBVIOUS
<1> QED
  BY <1>1 DEF In

LEMMA InAppend ==
  ASSUME NEW S, NEW s \in Seq(S), NEW x \in S, NEW y
  PROVE  In(y, Append(s, x)) <=> In(y, s) \/ y = x
<1>1. Len(Append(s, x)) = Len(s) + 1 /\ Append(s, x)[Len(s) + 1] = x
  OBVIOUS
<1>2. \A i \in 1 .. Len(s) : Append(s, x)[i] = s[i]
  OBVIOUS
<1>3. Len(s) \in Nat
  OBVIOUS
<1>4. In(y, s) => In(y, Append(s, x))
  BY <1>1, <1>2, <1>3 DEF In
<1>5. y = x => In(y, Append(s, x))
  BY <1>1, <1>3 DEF In
<1>6. In(y, Append(s, x)) => In(y, s) \/ y = x
  BY <1>1, <1>2, <1>3, AppendElements DEF In
<1> QED
  BY <1>4, <1>5, <1>6

LEMMA InTail ==
  ASSUME NEW S, NEW s \in Seq(S), s # << >>, NEW y, In(y, Tail(s))
  PROVE  In(y, s)
  BY TailElements DEF In

LEMMA DistinctAppend ==
  ASSUME NEW S, NEW s \in Seq(S), NEW x \in S, Distinct(s), ~ In(x, s)
  PROVE  Distinct(Append(s, x))
<1> DEFINE a == Append(s, x)
<1>1. Len(a) = Len(s) + 1 /\ a[Len(s) + 1] = x /\ Len(s) \in Nat
  OBVIOUS
<1>2. \A i \in 1 .. Len(s) : a[i] = s[i]
  OBVIOUS
<1> HIDE DEF a
<1> SUFFICES ASSUME NEW i \in 1 .. Len(a), NEW j \in 1 .. Len(a), a[i] = a[j]
             PROVE  i = j
  BY DEF Distinct, a
<1>3. CASE i \in 1 .. Len(s) /\ j \in 1 .. Len(s)
  BY <1>2, <1>3 DEF Distinct
<1>4. CASE i \notin 1 .. Len(s) /\ j \in 1 .. Len(s)
  BY <1>1, <1>2, <1>4 DEF In
<1>5. CASE i \in 1 .. Len(s) /\ j \notin 1 .. Len(s)
  BY <1>1, <1>2, <1>5 DEF In
<1>6. CASE i \notin 1 .. Len(s) /\ j \notin 1 .. Len(s)
  BY <1>1, <1>6
<1> QED
  BY <1>3, <1>4, <1>5, <1>6

LEMMA DistinctTail ==
  ASSUME NEW S, NEW s \in Seq(S), s # << >>, Distinct(s)
  PROVE  Distinct(Tail(s)) /\ ~ In(Head(s), Tail(s))
<1>1. /\ \A i \in 1 .. Len(Tail(s)) : i + 1 \in 1 .. Len(s) /\ Tail(s)[i] = s[i + 1]
      /\ 1 \in 1 .. Len(s) /\ Head(s) = s[1]
  BY TailElements
<1>2. \A i \in 1 .. Len(Tail(s)) : i + 1 # 1
  OBVIOUS
<1>3. ~ In(Head(s), Tail(s))
  BY <1>1, <1>2 DEF Distinct, In
<1>4. Distinct(Tail(s))
  <2> SUFFICES ASSUME NEW i \in 1 .. Len(Tail(s)), NEW j \in 1 .. Len(Tail(s)),
                      Tail(s)[i] = Tail(s)[j]
               PROVE  i = j
    BY DEF Distinct
  <2>1. i + 1 = j + 1
    BY <1>1 DEF Distinct
  <2> QED
    BY <2>1
<1> QED
  BY <1>3, <1>4

-------------------------------------------------------------------------------
(* The dealing of the segments (server.c: send_segment[i % recv_num]). *)

\* The segments dealt to receiver r.
Dealt(r) == {k \in Segs : Target(k) = r}

LEMMA Times ==
  ASSUME NEW a \in Nat, NEW b \in Nat, NEW n \in Nat \ {0}
  PROVE  /\ n * a \in Nat
         /\ a <= b => n * a <= n * b
         /\ n * a = n * b => a = b
         /\ n * (a + 1) = n * a + n
  OBVIOUS

LEMMA Quotient ==
  ASSUME NEW a \in Nat, NEW n \in Nat \ {0}
  PROVE  a = n * (a \div n) + (a % n) /\ a \div n \in Nat /\ a % n \in 0 .. n - 1
<1>1. a \div n \in Nat /\ a % n \in 0 .. n - 1
  BY DivMod
<1>2. a = n * (a \div n) + (a % n)
  OBVIOUS
<1> QED
  BY <1>1, <1>2

LEMMA Remainder ==
  ASSUME NEW a \in Nat, NEW n \in Nat \ {0}, NEW c \in 0 .. n - 1
  PROVE  (n * a + c) % n = c
  OBVIOUS

\* Receiver r is dealt as many segments as it is told to expect from the sender
\* (server.c:103-109).
LEMMA DealtCount ==
  ASSUME NEW r \in Receivers
  PROVE  IsFiniteSet(Dealt(r)) /\ Cardinality(Dealt(r)) = Quota(r)
<1> DEFINE d == total_seg \div N
           e == total_seg % N
           q == Quota(r)
           f == [m \in 1 .. q |-> N * (m - 1) + r]
<1>1. N \in Nat \ {0} /\ r \in 0 .. N - 1 /\ total_seg \in Nat /\ q \in Nat
  BY NNat, Segmentation, Dealing DEF Receivers
<1>2. total_seg = N * d + e /\ d \in Nat /\ e \in 0 .. N - 1
  BY <1>1, Quotient
<1>3. q = IF r < e THEN d + 1 ELSE d
  BY <1>1, <1>2 DEF Quota
<1>4. Segs = {k \in Nat : k < total_seg}
  BY <1>1 DEF Segs
<1> HIDE DEF d, e, q
<1>5. \A m \in 1 .. q : f[m] \in Dealt(r)
  <2> SUFFICES ASSUME NEW m \in 1 .. q PROVE N * (m - 1) + r \in Dealt(r)
    OBVIOUS
  <2>1. m - 1 \in Nat /\ m - 1 < q
    BY <1>1
  <2>2. N * (m - 1) \in Nat
    BY <1>1, <2>1, Times
  <2>3. (N * (m - 1) + r) % N = r
    BY <1>1, <2>1, Remainder
  <2>4. N * (m - 1) + r < total_seg
    <3>1. CASE m - 1 <= d - 1
      <4>1. N * ((m - 1) + 1) <= N * d /\ N * ((m - 1) + 1) = N * (m - 1) + N
        BY <1>1, <1>2, <2>1, <3>1, Times
      <4> QED
        BY <4>1, <1>1, <1>2, <2>2, Times
    <3>2. CASE m - 1 = d /\ r < e
      BY <1>1, <1>2, <2>2, <3>2
    <3> QED
      BY <1>2, <1>3, <2>1, <3>1, <3>2
  <2> QED
    BY <1>1, <1>4, <2>2, <2>3, <2>4 DEF Dealt, Target
<1>6. \A k \in Dealt(r) : \E m \in 1 .. q : f[m] = k
  <2> SUFFICES ASSUME NEW k \in Dealt(r) PROVE \E m \in 1 .. q : N * (m - 1) + r = k
    OBVIOUS
  <2> DEFINE c == k \div N
  <2>1. k \in Nat /\ k < total_seg /\ k % N = r
    BY <1>4 DEF Dealt, Target
  <2>2. k = N * c + r /\ c \in Nat
    BY <1>1, <2>1, Quotient
  <2> HIDE DEF c
  <2>3. c < q
    <3>1. c <= d
      <4> SUFFICES ASSUME d + 1 <= c PROVE FALSE
        BY <1>2, <2>2
      <4>1. N * (d + 1) <= N * c /\ N * (d + 1) = N * d + N
        BY <1>1, <1>2, <2>2, Times
      <4>2. N * c \in Nat /\ N * d \in Nat
        BY <1>1, <1>2, <2>2, Times
      <4> QED
        BY <1>1, <1>2, <2>1, <2>2, <4>1, <4>2
    <3>2. CASE c = d
      BY <1>1, <1>2, <1>3, <2>1, <2>2, <3>2, Times
    <3> QED
      BY <1>2, <1>3, <2>2, <3>1, <3>2
  <2>4. c + 1 \in 1 .. q /\ (c + 1) - 1 = c
    BY <1>1, <2>2, <2>3
  <2> QED
    BY <2>2, <2>4
<1>7. \A m, l \in 1 .. q : f[m] = f[l] => m = l
  <2> SUFFICES ASSUME NEW m \in 1 .. q, NEW l \in 1 .. q, N * (m - 1) + r = N * (l - 1) + r
               PROVE  m = l
    OBVIOUS
  <2>1. m - 1 \in Nat /\ l - 1 \in Nat
    BY <1>1
  <2>2. N * (m - 1) \in Nat /\ N * (l - 1) \in Nat
    BY <1>1, <2>1, Times
  <2>3. N * (m - 1) = N * (l - 1)
    BY <1>1, <2>2
  <2>4. m - 1 = l - 1
    BY <1>1, <2>1, <2>3, Times
  <2> QED
    BY <1>1, <2>4
<1>8. f \in Bijection(1 .. q, Dealt(r))
  <2>1. f \in [1 .. q -> Dealt(r)]
    BY <1>5
  <2> HIDE DEF f
  <2> QED
    BY <2>1, <1>6, <1>7 DEF Bijection, Injection, IsInjective, Surjection
<1>9. ExistsBijection(1 .. q, Dealt(r))
  BY <1>8 DEF ExistsBijection
<1>10. IsFiniteSet(1 .. q) /\ Cardinality(1 .. q) = q
  BY <1>1, FS_Interval
<1> QED
  BY <1>9, <1>10, FS_Bijection DEF q

-------------------------------------------------------------------------------
(* From the sender to the receiver a segment is dealt to. *)

\* What a receiver got from the sender it got once ...
OwnDistinct == \A r \in Receivers : Distinct(own[r])

\* ... and it lists all that it shows to its writer.
OwnListed ==
  \A r \in Receivers, k \in Segs :
    Target(k) = r /\ flag[r][k] => k < sidx /\ In(k, own[r])

\* What is in flight from the sender is written once and not received ...
FromSenderFresh ==
  \A r \in Receivers :
    /\ Distinct(chan[Sender][r])
    /\ \A k \in Segs : In(k, chan[Sender][r]) => k < sidx /\ ~ flag[r][k]

\* ... and neither is what the main thread is about to publish.
PublishFresh ==
  \A r \in Receivers : main[r] = "publish" =>
    /\ mseq[r] < sidx
    /\ ~ flag[r][mseq[r]]
    /\ ~ In(mseq[r], chan[Sender][r])

\* A receiver takes no more from the sender than it was told to expect, and
\* forwards no more than it has.
QuotaKept ==
  \A r \in Receivers :
    /\ Len(own[r]) <= Quota(r)
    /\ main[r] = "publish" => Len(own[r]) < Quota(r)
    /\ \A j \in Slots : sent[r][j] <= Len(own[r])

DealInv == OwnDistinct /\ OwnListed /\ FromSenderFresh /\ PublishFresh /\ QuotaKept

LEMMA DealInit == Init => DealInv
<1> SUFFICES ASSUME Init PROVE DealInv
  OBVIOUS
<1>1. OwnDistinct /\ OwnListed
  BY EmptyIs DEF Init, OwnDistinct, OwnListed
<1>2. FromSenderFresh
  BY EmptyIs, Domains DEF Init, FromSenderFresh
<1>3. PublishFresh
  BY DEF Init, PublishFresh
<1>4. QuotaKept
  BY Dealing DEF Init, QuotaKept
<1> QED
  BY <1>1, <1>2, <1>3, <1>4 DEF DealInv

\* Where the number of a segment in flight, or listed, came from.
LEMMA WhereFrom ==
  ASSUME TypeInv, IInv
  PROVE  /\ \A r \in Receivers : \A k :
              In(k, chan[Sender][r]) => k \in Segs /\ Target(k) = r
         /\ \A q, r \in Receivers : \A k :
              In(k, chan[q][r]) => k \in Segs /\ HasOwn(q, k)
         /\ \A r \in Receivers : \A k : In(k, own[r]) => k \in Segs /\ HasOwn(r, k)
<1>1. \A r \in Receivers : chan[Sender][r] \in Seq(Segs) /\ own[r] \in Seq(Segs)
  BY DEF TypeInv, TypeOK, LocalsOK
<1>2. \A r \in Receivers : \A k :
        In(k, chan[Sender][r]) => k \in Segs /\ Target(k) = r
  BY <1>1 DEF IInv, FromSenderOK, In
<1>3. \A q, r \in Receivers : \A k :
        In(k, chan[q][r]) => k \in Segs /\ HasOwn(q, k)
  BY DEF IInv, FromPeersOK, In
<1>4. \A r \in Receivers : \A k : In(k, own[r]) => k \in Segs /\ HasOwn(r, k)
  BY <1>1 DEF IInv, OwnOK, In
<1> QED
  BY <1>2, <1>3, <1>4

\* Steps that skip a segment, lose what is in flight from the sender, flag what
\* came from a peer or forward.
LEMMA DealKeeps ==
  ASSUME TypeInv, IInv, DealInv,
         UNCHANGED <<own, mseq>>,
         sidx' \in {sidx, sidx + 1},
         \A r \in Receivers : main'[r] = "publish" => main[r] = "publish",
         \A r \in Receivers, k \in Segs : Target(k) = r => flag'[r][k] = flag[r][k],
         \A r \in Receivers : chan'[Sender][r] \in {chan[Sender][r], << >>},
         \A r \in Receivers, j \in Slots : sent'[r][j] <= Len(own[r])
  PROVE  DealInv'
<1> USE DEF DealInv
<1>0. \A k \in Segs : k < sidx => k < sidx'
  BY DEF TypeInv, TypeOK, Segs
<1>1. OwnDistinct' /\ OwnListed'
  BY <1>0 DEF OwnDistinct, OwnListed
<1>2. \A r \in Receivers :
        /\ Distinct(chan[Sender][r]) => Distinct(chan'[Sender][r])
        /\ \A k : In(k, chan'[Sender][r]) => In(k, chan[Sender][r])
  BY EmptyIs
<1>3. \A r \in Receivers, k \in Segs : In(k, chan[Sender][r]) => Target(k) = r
  BY WhereFrom
<1>4. FromSenderFresh'
  BY <1>0, <1>2, <1>3 DEF FromSenderFresh
<1>5. \A r \in Receivers : main[r] = "publish" =>
        mseq[r] \in Segs /\ flag'[r][mseq[r]] = flag[r][mseq[r]]
  BY DEF TypeInv, LocalsOK, IInv, PublishOK
<1>6. PublishFresh'
  BY <1>0, <1>2, <1>5 DEF PublishFresh
<1>7. QuotaKept'
  BY DEF QuotaKept
<1> QED
  BY <1>1, <1>4, <1>6, <1>7

\* The number of the next segment is new to the receiver it is dealt to.
LEMMA DealNext ==
  ASSUME TypeInv, IInv, DealInv, NEW r \in Receivers, r = Target(sidx), sidx \in Segs,
         chan'[Sender][r] = Append(chan[Sender][r], sidx),
         \A q \in Receivers : q # r => chan'[Sender][q] = chan[Sender][q],
         sidx' = sidx + 1,
         UNCHANGED <<own, mseq, main, flag, sent>>
  PROVE  DealInv'
<1> USE DEF DealInv
<1>1. chan[Sender][r] \in Seq(Segs) /\ sidx \in Nat /\ Segs \subseteq Nat
  BY DEF TypeInv, LocalsOK, Segs
<1>2. sidx < sidx + 1 /\ \A k \in Segs : k < sidx => k < sidx + 1
  BY <1>1 DEF Segs
<1>3. ~ In(sidx, chan[Sender][r]) /\ ~ flag[r][sidx]
  BY <1>1 DEF FromSenderFresh, OwnListed
<1>4. /\ Distinct(chan'[Sender][r])
      /\ \A k : In(k, chan'[Sender][r]) <=> In(k, chan[Sender][r]) \/ k = sidx
  BY <1>1, <1>3, DistinctAppend, InAppend DEF FromSenderFresh
<1>5. FromSenderFresh'
  <2> SUFFICES ASSUME NEW q \in Receivers
               PROVE  /\ Distinct(chan'[Sender][q])
                      /\ \A k \in Segs : In(k, chan'[Sender][q]) =>
                                           k < sidx + 1 /\ ~ flag[q][k]
    BY DEF FromSenderFresh
  <2>1. CASE q = r
    BY <1>2, <1>3, <1>4, <2>1 DEF FromSenderFresh
  <2>2. CASE q # r
    BY <1>2, <2>2 DEF FromSenderFresh
  <2> QED
    BY <2>1, <2>2
<1>6. OwnListed'
  BY <1>2 DEF OwnListed
<1>7. PublishFresh'
  <2> SUFFICES ASSUME NEW q \in Receivers, main[q] = "publish"
               PROVE  /\ mseq[q] < sidx + 1
                      /\ ~ flag[q][mseq[q]]
                      /\ ~ In(mseq[q], chan'[Sender][q])
    BY DEF PublishFresh
  <2>1. mseq[q] \in Segs
    BY DEF TypeInv, LocalsOK
  <2>2. mseq[q] < sidx /\ ~ flag[q][mseq[q]] /\ ~ In(mseq[q], chan[Sender][q])
    BY DEF PublishFresh
  <2>3. ~ In(mseq[q], chan'[Sender][q])
    <3>1. CASE q = r
      <4>1. mseq[q] # sidx
        BY <1>1, <2>2
      <4> QED
        BY <1>4, <2>2, <3>1, <4>1
    <3>2. CASE q # r
      BY <2>2, <3>2
    <3> QED
      BY <3>1, <3>2
  <2> QED
    BY <1>2, <2>1, <2>2, <2>3
<1>8. OwnDistinct' /\ QuotaKept'
  BY DEF OwnDistinct, QuotaKept
<1> QED
  BY <1>5, <1>6, <1>7, <1>8

\* Receiving the oldest segment of the connection.
LEMMA DealReceive ==
  ASSUME TypeInv, IInv, DealInv, NEW r \in Receivers, RecvFromSender(r)
  PROVE  DealInv'
<1> USE DEF DealInv
<1> DEFINE k == Head(chan[Sender][r])
<1>1. chan[Sender][r] \in Seq(Segs) /\ chan[Sender][r] # << >>
  BY DEF TypeInv, LocalsOK, RecvFromSender
<1>2. k \in Segs /\ In(k, chan[Sender][r])
  BY <1>1, HeadIn
<1>3. /\ chan'[Sender][r] = Tail(chan[Sender][r])
      /\ \A q \in Receivers : q # r => chan'[Sender][q] = chan[Sender][q]
  BY Domains DEF RecvFromSender, TypeInv, TypeOK
<1>4. /\ mseq'[r] = k
      /\ \A q \in Receivers : q # r => mseq'[q] = mseq[q] /\ main'[q] = main[q]
  BY DEF RecvFromSender, TypeInv, TypeOK
<1>5. UNCHANGED <<own, flag, sidx, sent>>
  BY DEF RecvFromSender, senderVars, readerVars, bufferVars
<1> HIDE DEF k
<1>6. /\ Distinct(Tail(chan[Sender][r]))
      /\ ~ In(k, Tail(chan[Sender][r]))
      /\ \A l : In(l, Tail(chan[Sender][r])) => In(l, chan[Sender][r])
  BY <1>1, DistinctTail, InTail DEF k, FromSenderFresh
<1>7. FromSenderFresh'
  <2> SUFFICES ASSUME NEW q \in Receivers
               PROVE  /\ Distinct(chan'[Sender][q])
                      /\ \A l \in Segs : In(l, chan'[Sender][q]) => l < sidx /\ ~ flag[q][l]
    BY <1>5 DEF FromSenderFresh
  <2> QED
    BY <1>3, <1>6 DEF FromSenderFresh
<1>8. PublishFresh'
  <2> SUFFICES ASSUME NEW q \in Receivers, main'[q] = "publish"
               PROVE  /\ mseq'[q] < sidx
                      /\ ~ flag[q][mseq'[q]]
                      /\ ~ In(mseq'[q], chan'[Sender][q])
    BY <1>5 DEF PublishFresh
  <2>1. CASE q = r
    BY <1>2, <1>3, <1>4, <1>6, <2>1 DEF FromSenderFresh
  <2>2. CASE q # r
    BY <1>3, <1>4, <2>2 DEF PublishFresh
  <2> QED
    BY <2>1, <2>2
<1>9. QuotaKept'
  BY <1>4, <1>5 DEF RecvFromSender, QuotaKept
<1>10. OwnDistinct' /\ OwnListed'
  BY <1>5 DEF OwnDistinct, OwnListed
<1> QED
  BY <1>7, <1>8, <1>9, <1>10

\* Showing it to the writer and to the forwarding threads.
LEMMA DealPublish ==
  ASSUME TypeInv, IInv, DealInv, NEW r \in Receivers, PublishOwn(r)
  PROVE  DealInv'
<1> USE DEF DealInv
<1> DEFINE k == mseq[r]
<1>1. /\ k \in Segs
      /\ own \in [Receivers -> Seq(Segs)]
      /\ flag \in [Receivers -> [Segs -> BOOLEAN]]
      /\ Target(k) = r
      /\ k < sidx /\ ~ flag[r][k] /\ ~ In(k, chan[Sender][r])
  BY DEF PublishOwn, TypeInv, TypeOK, LocalsOK, IInv, PublishOK, PublishFresh
<1>2. /\ own'[r] = Append(own[r], k)
      /\ \A q \in Receivers : q # r => own'[q] = own[q]
  BY <1>1 DEF PublishOwn
<1>3. \A q \in Receivers, l \in Segs : flag'[q][l] = (flag[q][l] \/ (q = r /\ l = k))
  BY <1>1 DEF PublishOwn
<1>4. UNCHANGED <<chan, mseq, sidx, sent>>
  BY DEF PublishOwn, senderVars, netVars, readerVars
<1>5. main'[r] = "recv" /\ \A q \in Receivers : q # r => main'[q] = main[q]
  BY DEF PublishOwn, TypeInv, TypeOK
<1>6. \A l : In(l, own[r]) => HasOwn(r, l)
  BY WhereFrom
<1> HIDE DEF k
<1>7. ~ In(k, own[r])
  BY <1>1, <1>6 DEF HasOwn
<1>8. own[r] \in Seq(Segs)
  BY <1>1
<1>9. /\ Distinct(own'[r])
      /\ \A l : In(l, own'[r]) <=> In(l, own[r]) \/ l = k
      /\ Len(own'[r]) = Len(own[r]) + 1
  BY <1>1, <1>2, <1>7, <1>8, DistinctAppend, InAppend DEF OwnDistinct
<1>10. OwnDistinct'
  BY <1>2, <1>9 DEF OwnDistinct
<1>11. OwnListed'
  BY <1>1, <1>2, <1>3, <1>4, <1>9 DEF OwnListed
<1>12. FromSenderFresh'
  BY <1>1, <1>3, <1>4 DEF FromSenderFresh
<1>13. PublishFresh'
  <2> SUFFICES ASSUME NEW q \in Receivers, q # r, main[q] = "publish"
               PROVE  mseq[q] < sidx /\ ~ flag'[q][mseq[q]] /\ ~ In(mseq[q], chan[Sender][q])
    BY <1>4, <1>5 DEF PublishFresh
  <2>1. mseq[q] \in Segs
    BY DEF TypeInv, LocalsOK
  <2> QED
    BY <1>3, <2>1 DEF PublishFresh
<1>14. QuotaKept'
  <2> SUFFICES ASSUME NEW q \in Receivers
               PROVE  /\ Len(own'[q]) <= Quota(q)
                      /\ main'[q] = "publish" => Len(own'[q]) < Quota(q)
                      /\ \A j \in Slots : sent[q][j] <= Len(own'[q])
    BY <1>4 DEF QuotaKept
  <2>1. CASE q = r
    <3>1. Len(own[r]) < Quota(r) /\ Quota(r) \in Nat /\ Len(own[r]) \in Nat
      BY <1>8, Dealing DEF PublishOwn, QuotaKept
    <3>2. \A j \in Slots : sent[r][j] \in Nat /\ sent[r][j] <= Len(own[r])
      BY DEF TypeInv, TypeOK, QuotaKept
    <3> QED
      BY <1>5, <1>9, <2>1, <3>1, <3>2
  <2>2. CASE q # r
    BY <1>2, <1>5, <2>2 DEF QuotaKept
  <2> QED
    BY <2>1, <2>2
<1> QED
  BY <1>10, <1>11, <1>12, <1>13, <1>14

LEMMA DealStep == TypeInv /\ IInv /\ DealInv /\ [Next]_vars => DealInv'
<1> SUFFICES ASSUME TypeInv, IInv, DealInv, [Next]_vars PROVE DealInv'
  OBVIOUS
<1>0. TypeOK /\ LocalsOK
  BY DEF TypeInv
<1> USE DEF senderVars, netVars, mainVars, readerVars, bufferVars, outputVars
<1>a. \A r \in Receivers, j \in Slots : sent[r][j] <= Len(own[r])
  BY DEF DealInv, QuotaKept
<1>1. ASSUME SendSegment PROVE DealInv'
  <2>1. sidx \in Segs /\ Target(sidx) \in Receivers
    <3>1. sidx \in Segs
      BY <1>0, <1>1, Segmentation DEF SendSegment, MoreToSend, TypeOK, Segs
    <3> QED
      BY <3>1, Dealing DEF Segs
  <2>2. UNCHANGED <<own, mseq, main, flag, sent>>
    BY <1>1 DEF SendSegment
  <2>3. CASE /\ chan' = [chan EXCEPT ![Sender][Target(sidx)] = Append(@, sidx)]
             /\ sidx' = sidx + 1
    <3>1. /\ chan'[Sender][Target(sidx)] = Append(chan[Sender][Target(sidx)], sidx)
          /\ \A q \in Receivers : q # Target(sidx) => chan'[Sender][q] = chan[Sender][q]
      BY <1>0, <2>1, <2>3, Domains DEF TypeOK
    <3> QED
      BY <2>1, <2>2, <2>3, <3>1, DealNext
  <2>4. CASE sidx' = sidx + 1 /\ UNCHANGED chan
    BY <1>a, <2>2, <2>4, DealKeeps
  <2>5. CASE Die(Sender, "killed") /\ UNCHANGED sidx
    <3>1. \A r \in Receivers : chan'[Sender][r] \in {chan[Sender][r], << >>}
      BY <1>0, <2>5, DieChan, Domains
    <3> QED
      BY <1>a, <2>2, <2>5, <3>1, DealKeeps
  <2> QED
    BY <1>1, <2>3, <2>4, <2>5 DEF SendSegment
<1>2. ASSUME UNCHANGED <<own, mseq, sidx, flag, sent, chan>>,
             \A q \in Receivers : main'[q] = "publish" => main[q] = "publish"
      PROVE  DealInv'
  BY <1>a, <1>2, DealKeeps
<1>3. ASSUME SenderExit \/ Terminated \/ UNCHANGED vars PROVE DealInv'
  BY <1>2, <1>3 DEF SenderExit, Terminated, vars
<1>4. ASSUME NEW r \in Receivers, MainThread(r) PROVE DealInv'
  <2>1. CASE RecvFromSender(r)
    BY <2>1, DealReceive
  <2>2. CASE PublishOwn(r)
    BY <2>2, DealPublish
  <2>3. CASE CreatePeerThreads(r) \/ NextPeer(r) \/ JoinAndFree(r) \/ ReceiverExit(r)
    <3>1. \A q \in Receivers : main'[q] = "publish" => main[q] = "publish"
      BY <1>0, <2>3 DEF CreatePeerThreads, NextPeer, JoinAndFree, ReceiverExit, TypeOK
    <3>2. UNCHANGED <<own, mseq, sidx, flag, sent, chan>>
      BY <2>3 DEF CreatePeerThreads, NextPeer, JoinAndFree, ReceiverExit
    <3> QED
      BY <1>2, <3>1, <3>2
  <2> QED
    BY <1>4, <2>1, <2>2, <2>3 DEF MainThread
<1>5. ASSUME NEW r \in Receivers, FileWriter(r) PROVE DealInv'
  BY <1>2, <1>5 DEF FileWriter, OpenFile, WriteSegment
<1>6. ASSUME NEW r \in Receivers, NEW t \in Slots, PeerThreads(r, t) PROVE DealInv'
  <2>1. CASE \/ StartReader(r, t)
             \/ ReadGarbage(r, t)
             \/ HeaderReset(r, t)
             \/ BodyReset(r, t)
             \/ CountDown(r, t)
             \/ UpdateRecvInfo(r, t)
    BY <1>2, <2>1
    DEF StartReader, ReadGarbage, HeaderReset, BodyReset, CountDown, UpdateRecvInfo
  <2>2. CASE ReadHeader(r, t) \/ StoreBody(r, t)
    <3>1. Source(r, t) \in Receivers
      BY <1>0, <2>2, PeersAreReceivers DEF ReadHeader, StoreBody, LocalsOK, InSegmentTable, Source
    <3>2. chan'[Sender] = chan[Sender]
      <4>1. \/ chan' = chan
            \/ chan' = [chan EXCEPT ![Source(r, t)][r] = Tail(@)]
        BY <2>2 DEF ReadHeader, StoreBody
      <4> QED
        BY <1>0, <3>1, <4>1, Domains DEF TypeOK
    <3>3. UNCHANGED <<own, mseq, sidx, flag, sent, main>>
      BY <2>2 DEF ReadHeader, StoreBody
    <3> QED
      BY <1>a, <3>2, <3>3, DealKeeps
  <2>3. CASE FlagFromPeer(r, t)
    <3>1. /\ rseq[r][t] \in Segs
          /\ Target(rseq[r][t]) # r
      BY <1>0, <2>3, PeersAreReceivers
      DEF FlagFromPeer, LocalsOK, InSegmentTable, Source, IInv, ReadersHoldOwn, HasOwn
    <3>2. flag' = [flag EXCEPT ![r][rseq[r][t]] = TRUE]
      BY <2>3 DEF FlagFromPeer
    <3>3. \A q \in Receivers, k \in Segs : Target(k) = q => flag'[q][k] = flag[q][k]
      BY <1>0, <3>1, <3>2 DEF TypeOK
    <3>4. UNCHANGED <<own, mseq, sidx, chan, sent, main>>
      BY <2>3 DEF FlagFromPeer
    <3> QED
      BY <1>a, <3>3, <3>4, DealKeeps
  <2>4. CASE ForwardSegment(r, t)
    <3>1. UNCHANGED <<own, mseq, sidx, flag, main>>
      BY <2>4 DEF ForwardSegment
    <3>2. /\ own[r] \in Seq(Segs)
          /\ sent \in [Receivers -> [Slots -> Nat]]
          /\ sent[r][t] < Len(own[r])
      BY <1>0, <2>4 DEF ForwardSegment, TypeOK
    <3>3. sent' = sent \/ sent' = [sent EXCEPT ![r][t] = @ + 1]
      BY <2>4 DEF ForwardSegment
    <3>4. \A q \in Receivers, j \in Slots : sent'[q][j] <= Len(own[q])
      <4>1. sent[r][t] + 1 <= Len(own[r])
        BY <3>2
      <4>2. CASE sent' = [sent EXCEPT ![r][t] = @ + 1]
        <5>1. /\ sent'[r][t] = sent[r][t] + 1
              /\ \A q \in Receivers, j \in Slots :
                   q # r \/ j # t => sent'[q][j] = sent[q][j]
          BY <3>2, <4>2
        <5> QED
          BY <1>a, <4>1, <5>1
      <4> QED
        BY <1>a, <3>3, <4>2
    <3>5. \A q \in Receivers : chan'[Sender][q] \in {chan[Sender][q], << >>}
      <4>1. CASE Die(r, "killed")
        BY <1>0, <4>1, DieChan, Domains
      <4>2. CASE chan' = [chan EXCEPT ![r][peerAt[r][t]] =
                            Append(@, segment[r][own[r][sent[r][t] + 1]])]
        BY <1>0, <4>2, Domains DEF TypeOK
      <4> QED
        BY <2>4, <4>1, <4>2 DEF ForwardSegment
    <3> QED
      BY <3>1, <3>4, <3>5, DealKeeps
  <2> QED
    BY <1>6, <2>1, <2>2, <2>3, <2>4 DEF PeerThreads
<1>7. ASSUME NEW p \in Procs, Crash(p) PROVE DealInv'
  <2>1. \A r \in Receivers : chan'[Sender][r] \in {chan[Sender][r], << >>}
    BY <1>0, <1>7, DieChan, Domains DEF Crash
  <2>2. UNCHANGED <<own, mseq, sidx, flag, sent, main>>
    BY <1>7 DEF Crash
  <2> QED
    BY <1>a, <2>1, <2>2, DealKeeps
<1> QED
  BY <1>1, <1>3, <1>4, <1>5, <1>6, <1>7 DEF Next, ProgramStep

-------------------------------------------------------------------------------
(* From there to the other receivers. *)

\* Receiver q has written segment k to receiver r.
Forwarded(q, r, k) ==
  \E j \in Slots : peerAt[q][j] = r /\ \E i \in 1 .. sent[q][j] : own[q][i] = k

\* What is in flight between two receivers is written once, and not received.
InFlightFresh ==
  \A q, r \in Receivers :
    /\ Distinct(chan[q][r])
    /\ \A k \in Segs : In(k, chan[q][r]) => Forwarded(q, r, k) /\ ~ flag[r][k]

\* A receiver shows a segment of a peer only if the peer has written it.
FlaggedForwarded ==
  \A r \in Receivers, k \in Segs :
    flag[r][k] /\ Target(k) # r => Forwarded(Target(k), r, k)

\* Reader thread t has a segment that it has not shown yet.
Holds(r, t) == rpc[r][t] \in {"body", "flag"}

\* That segment was written by the peer, is not shown by any other thread, and is
\* not in flight any more once it is read.
HeldFresh ==
  \A r \in Receivers, t \in Slots : Holds(r, t) =>
    /\ Forwarded(Source(r, t), r, rseq[r][t])
    /\ ~ flag[r][rseq[r][t]]
    /\ ~ ReadsBody(r, t) => ~ In(rseq[r][t], chan[Source(r, t)][r])

\* Two reader threads never have the same segment.
HeldOnce ==
  \A r \in Receivers : \A t, u \in Slots :
    Holds(r, t) /\ Holds(r, u) /\ rseq[r][t] = rseq[r][u] => t = u

RelayInv == InFlightFresh /\ FlaggedForwarded /\ HeldFresh /\ HeldOnce

LEMMA RelayInit == Init => RelayInv
<1> SUFFICES ASSUME Init PROVE RelayInv
  OBVIOUS
<1>1. InFlightFresh
  BY EmptyIs, Domains DEF Init, InFlightFresh
<1>2. FlaggedForwarded
  BY DEF Init, FlaggedForwarded
<1>3. HeldFresh /\ HeldOnce
  BY DEF Init, HeldFresh, HeldOnce, Holds
<1> QED
  BY <1>1, <1>2, <1>3 DEF RelayInv

\* What is forwarded is the writer's own and goes to another receiver.
LEMMA ForwardedIsOwn ==
  ASSUME TypeInv, IInv, DealInv, NEW q \in Receivers, NEW r \in Receivers, NEW k,
         Forwarded(q, r, k)
  PROVE  q # r /\ k \in Segs /\ HasOwn(q, k)
<1>1. PICK j \in Slots : peerAt[q][j] = r /\ \E i \in 1 .. sent[q][j] : own[q][i] = k
  BY DEF Forwarded
<1>2. PICK i \in 1 .. sent[q][j] : own[q][i] = k
  BY <1>1
<1>3. /\ sent[q][j] \in Nat /\ sent[q][j] <= Len(own[q])
      /\ own[q] \in Seq(Segs)
  BY DEF TypeInv, TypeOK, DealInv, QuotaKept
<1>4. i \in 1 .. Len(own[q])
  BY <1>3
<1>5. In(k, own[q])
  BY <1>2, <1>4 DEF In
<1>6. q # r
  BY <1>1, PeersAreReceivers
<1> QED
  BY <1>5, <1>6, WhereFrom

\* What has been forwarded stays so.
LEMMA ForwardedKeeps ==
  ASSUME TypeInv, DealInv,
         \A q \in Receivers : \A i \in 1 .. Len(own[q]) : own'[q][i] = own[q][i],
         \A q \in Receivers, j \in Slots : sent'[q][j] \in {sent[q][j], sent[q][j] + 1}
  PROVE  \A q, r \in Receivers : \A k : Forwarded(q, r, k) => Forwarded(q, r, k)'
<1> SUFFICES ASSUME NEW q \in Receivers, NEW r \in Receivers, NEW k, Forwarded(q, r, k)
             PROVE  Forwarded(q, r, k)'
  OBVIOUS
<1>1. PICK j \in Slots : peerAt[q][j] = r /\ \E i \in 1 .. sent[q][j] : own[q][i] = k
  BY DEF Forwarded
<1>2. PICK i \in 1 .. sent[q][j] : own[q][i] = k
  BY <1>1
<1>3. /\ sent[q][j] \in Nat /\ sent[q][j] <= Len(own[q])
      /\ Len(own[q]) \in Nat
  BY DEF TypeInv, TypeOK, DealInv, QuotaKept
<1>4. i \in 1 .. Len(own[q]) /\ i \in 1 .. sent'[q][j]
  BY <1>3
<1> QED
  BY <1>1, <1>2, <1>4 DEF Forwarded

\* Steps that lose what is in flight, show what came from the sender, forward, or
\* let a reader go on with nothing in its hands.
LEMMA RelayKeeps ==
  ASSUME TypeInv, IInv, DealInv, RelayInv,
         \A q, r \in Receivers : \A k : Forwarded(q, r, k) => Forwarded(q, r, k)',
         \A r \in Receivers, k \in Segs : Target(k) # r => flag'[r][k] = flag[r][k],
         \A q, r \in Receivers : chan'[q][r] \in {chan[q][r], << >>},
         \A r \in Receivers, t \in Slots : Holds(r, t)' =>
           /\ rpc'[r][t]  = rpc[r][t]
           /\ ridx'[r][t] = ridx[r][t]
           /\ rseq'[r][t] = rseq[r][t]
  PROVE  RelayInv'
<1> USE DEF RelayInv
<1>1. \A q, r \in Receivers : Distinct(chan[q][r]) => Distinct(chan'[q][r])
  BY EmptyIs
<1>2. \A q, r \in Receivers : \A k : In(k, chan'[q][r]) => In(k, chan[q][r])
  BY EmptyIs
<1>3. \A q, r \in Receivers : \A k : Forwarded(q, r, k) =>
        q # r /\ k \in Segs /\ Target(k) = q
  BY ForwardedIsOwn DEF HasOwn
<1>4. InFlightFresh'
  BY <1>1, <1>2, <1>3 DEF InFlightFresh
<1>5. FlaggedForwarded'
  BY Dealing DEF FlaggedForwarded, Segs
<1>6. \A r \in Receivers, t \in Slots : Holds(r, t)' =>
        /\ Holds(r, t)
        /\ rseq'[r][t] = rseq[r][t]
        /\ Source(r, t)' = Source(r, t)
        /\ Source(r, t) \in Receivers
        /\ ReadsBody(r, t)' = ReadsBody(r, t)
  BY PeersAreReceivers DEF Holds, Source, ReadsBody, TypeInv, LocalsOK, InSegmentTable
<1>7. HeldFresh'
  <2> SUFFICES ASSUME NEW r \in Receivers, NEW t \in Slots, Holds(r, t)'
               PROVE  /\ Forwarded(Source(r, t), r, rseq[r][t])'
                      /\ ~ flag'[r][rseq'[r][t]]
                      /\ ~ ReadsBody(r, t)' => ~ In(rseq'[r][t], chan'[Source(r, t)'][r])
    BY DEF HeldFresh
  <2>1. PICK s \in Receivers : s = Source(r, t)
    BY <1>6
  <2>2. PICK k \in Segs : k = rseq[r][t]
    BY <1>6 DEF Holds, TypeInv, LocalsOK, InSegmentTable
  <2>3. /\ Forwarded(s, r, k) /\ ~ flag[r][k]
        /\ ~ ReadsBody(r, t) => ~ In(k, chan[s][r])
    BY <1>6, <2>1, <2>2 DEF HeldFresh
  <2>4. rseq'[r][t] = k /\ Source(r, t)' = s /\ ReadsBody(r, t)' = ReadsBody(r, t)
    BY <1>6, <2>1, <2>2
  <2>5. Forwarded(s, r, k)'
    BY <2>3
  <2>6. Forwarded(Source(r, t), r, rseq[r][t])'
    BY <2>4, <2>5 DEF Forwarded
  <2>7. ~ flag'[r][k]
    BY <1>3, <2>3
  <2> QED
    BY <1>2, <2>1, <2>3, <2>4, <2>6, <2>7
<1>8. HeldOnce'
  BY <1>6 DEF HeldOnce
<1> QED
  BY <1>4, <1>5, <1>7, <1>8

\* A reader in the loop body has a segment of the peer it reads from.
LEMMA HolderFacts ==
  ASSUME TypeInv, IInv, NEW r \in Receivers, NEW t \in Slots, Holds(r, t)
  PROVE  /\ Source(r, t) \in Receivers
         /\ Source(r, t) # r
         /\ rseq[r][t] \in Segs
         /\ Target(rseq[r][t]) = Source(r, t)
<1>1. ridx[r][t] \in Slots /\ rseq[r][t] \in Segs
  BY DEF Holds, TypeInv, LocalsOK, InSegmentTable
<1>2. Source(r, t) \in Receivers /\ Source(r, t) # r
  BY <1>1, PeersAreReceivers DEF Source
<1>3. Target(rseq[r][t]) = Source(r, t)
  BY DEF Holds, IInv, ReadersHoldOwn, HasOwn
<1> QED
  BY <1>1, <1>2, <1>3

\* Reading a header takes a segment off the connection, or will with its body.
LEMMA RelayReadHeader ==
  ASSUME TypeInv, IInv, DealInv, RelayInv, NEW r \in Receivers, NEW t \in Slots,
         ReadHeader(r, t)
  PROVE  RelayInv'
<1> USE DEF RelayInv
<1>0. TypeOK /\ LocalsOK
  BY DEF TypeInv
<1>1. PICK s \in Receivers : s = Source(r, t) /\ s # r
  <2>1. ridx[r][t] \in Slots
    BY <1>0 DEF ReadHeader, LocalsOK
  <2> QED
    BY <2>1, PeersAreReceivers DEF Source
<1>2. /\ chan[s][r] \in Seq(Segs \cup {NoData})
      /\ chan[s][r] # << >>
  BY <1>0, <1>1, ChanType, Domains DEF ReadHeader
<1>3. PICK k \in Segs : k = Head(chan[s][r])
  BY <1>1, <1>2 DEF ReadHeader
<1>4. In(k, chan[s][r]) /\ Forwarded(s, r, k) /\ ~ flag[r][k] /\ Target(k) = s
  <2>1. In(k, chan[s][r])
    BY <1>2, <1>3, HeadIn
  <2> QED
    BY <2>1, WhereFrom DEF InFlightFresh, HasOwn
<1>5. /\ ~ hdr[s][r]
      /\ rpc' = [rpc EXCEPT ![r][t] = "body"]
      /\ rseq' = [rseq EXCEPT ![r][t] = k]
      /\ IF Size(k) = 0 THEN chan' = [chan EXCEPT ![s][r] = Tail(@)] ELSE chan' = chan
      /\ UNCHANGED <<ridx, own, sent, flag>>
  BY <1>1, <1>3 DEF ReadHeader, mainVars, bufferVars
<1>6. /\ rpc'[r][t] = "body" /\ rseq'[r][t] = k
      /\ \A q \in Receivers, u \in Slots : q # r \/ u # t =>
           rpc'[q][u] = rpc[q][u] /\ rseq'[q][u] = rseq[q][u]
  BY <1>0, <1>5 DEF TypeOK
<1>7. /\ chan'[s][r] = IF Size(k) = 0 THEN Tail(chan[s][r]) ELSE chan[s][r]
      /\ \A p, q \in Receivers : p # s \/ q # r => chan'[p][q] = chan[p][q]
  <2>1. CASE Size(k) = 0
    <3>1. chan' = [chan EXCEPT ![s][r] = Tail(@)]
      BY <1>5, <2>1
    <3> QED
      BY <1>0, <2>1, <3>1, Domains DEF TypeOK
  <2>2. CASE Size(k) # 0
    BY <1>5, <2>2
  <2> QED
    BY <2>1, <2>2
<1>8. /\ Distinct(Tail(chan[s][r]))
      /\ ~ In(k, Tail(chan[s][r]))
      /\ \A l : In(l, Tail(chan[s][r])) => In(l, chan[s][r])
  BY <1>1, <1>2, <1>3, DistinctTail, InTail DEF InFlightFresh
<1>9. \A p, q \in Receivers : \A l : In(l, chan'[p][q]) => In(l, chan[p][q])
  BY <1>7, <1>8
<1>10. \A p, q \in Receivers : \A l : Forwarded(p, q, l)' <=> Forwarded(p, q, l)
  BY <1>5 DEF Forwarded
<1>11. InFlightFresh'
  <2>1. \A p, q \in Receivers : Distinct(chan'[p][q])
    BY <1>7, <1>8 DEF InFlightFresh
  <2> QED
    BY <2>1, <1>5, <1>9, <1>10 DEF InFlightFresh
<1>12. FlaggedForwarded'
  <2>1. \A l \in Segs : Target(l) \in Receivers
    BY Dealing DEF Segs
  <2> QED
    BY <1>5, <1>10, <2>1 DEF FlaggedForwarded
<1>13. \A q \in Receivers, u \in Slots : q # r \/ u # t =>
         /\ Holds(q, u)' = Holds(q, u)
         /\ ReadsBody(q, u)' = ReadsBody(q, u)
         /\ Source(q, u)' = Source(q, u)
  BY <1>5, <1>6 DEF Holds, ReadsBody, Source
<1>14. Source(r, t)' = s /\ (~ ReadsBody(r, t)' => Size(k) = 0)
  BY <1>1, <1>5, <1>6 DEF Source, ReadsBody
<1>15. HeldFresh'
  <2> SUFFICES ASSUME NEW q \in Receivers, NEW u \in Slots, Holds(q, u)'
               PROVE  /\ Forwarded(Source(q, u), q, rseq[q][u])'
                      /\ ~ flag'[q][rseq'[q][u]]
                      /\ ~ ReadsBody(q, u)' => ~ In(rseq'[q][u], chan'[Source(q, u)'][q])
    BY DEF HeldFresh
  <2>1. CASE q = r /\ u = t
    <3>1. Forwarded(s, r, k)'
      BY <1>4, <1>10
    <3>2. Forwarded(Source(q, u), q, rseq[q][u])'
      BY <2>1, <3>1, <1>6, <1>14 DEF Forwarded
    <3>3. ~ flag'[r][k]
      BY <1>4, <1>5
    <3>4. ~ ReadsBody(r, t)' => ~ In(k, chan'[s][r])
      BY <1>7, <1>8, <1>14
    <3> QED
      BY <2>1, <3>2, <3>3, <3>4, <1>6, <1>14
  <2>2. CASE q # r \/ u # t
    <3>1. /\ Holds(q, u)
          /\ rseq'[q][u] = rseq[q][u]
          /\ Source(q, u)' = Source(q, u)
          /\ ReadsBody(q, u)' = ReadsBody(q, u)
      BY <1>6, <1>13, <2>2
    <3>2. PICK p \in Receivers, l \in Segs : p = Source(q, u) /\ l = rseq[q][u]
      BY <3>1, HolderFacts
    <3>3. /\ Forwarded(p, q, l) /\ ~ flag[q][l]
          /\ ~ ReadsBody(q, u) => ~ In(l, chan[p][q])
      BY <3>1, <3>2 DEF HeldFresh
    <3>4. Forwarded(Source(q, u), q, rseq[q][u])'
      BY <3>1, <3>2, <3>3, <1>10 DEF Forwarded
    <3>5. ~ flag'[q][l]
      BY <3>3, <1>5
    <3>6. ~ ReadsBody(q, u) => ~ In(l, chan'[p][q])
      BY <3>3, <1>9
    <3> QED
      BY <3>1, <3>2, <3>4, <3>5, <3>6
  <2> QED
    BY <2>1, <2>2
<1>16. \A u \in Slots : u # t /\ Holds(r, u) => rseq[r][u] # k
  <2> SUFFICES ASSUME NEW u \in Slots, Holds(r, u), rseq[r][u] = k PROVE FALSE
    OBVIOUS
  <2>1. Source(r, u) = s
    BY <1>4, HolderFacts
  <2>2. ReadsBody(r, u)
    BY <2>1, <1>4 DEF HeldFresh
  <2>3. hdr[s][r]
    BY <2>1, <2>2 DEF IInv, BodyFirst
  <2> QED
    BY <2>3, <1>5
<1>17. HeldOnce'
  <2> SUFFICES ASSUME NEW q \in Receivers, NEW u \in Slots, NEW v \in Slots,
                      Holds(q, u)', Holds(q, v)', rseq'[q][u] = rseq'[q][v]
               PROVE  u = v
    BY DEF HeldOnce
  <2>1. CASE q # r
    BY <2>1, <1>6, <1>13 DEF HeldOnce
  <2>2. CASE q = r /\ u # t /\ v # t
    BY <2>2, <1>6, <1>13 DEF HeldOnce
  <2>3. CASE q = r /\ u = t /\ v # t
    BY <2>3, <1>6, <1>13, <1>16
  <2>4. CASE q = r /\ u # t /\ v = t
    BY <2>4, <1>6, <1>13, <1>16
  <2> QED
    BY <2>1, <2>2, <2>3, <2>4
<1> QED
  BY <1>11, <1>12, <1>15, <1>17

\* Reading the body takes the segment off the connection.
LEMMA RelayStoreBody ==
  ASSUME TypeInv, IInv, DealInv, RelayInv, NEW r \in Receivers, NEW t \in Slots,
         StoreBody(r, t)
  PROVE  RelayInv'
<1> USE DEF RelayInv
<1>0. TypeOK
  BY DEF TypeInv
<1>1. rpc[r][t] = "body" /\ Holds(r, t)
  BY DEF StoreBody, Holds
<1>2. PICK s \in Receivers, k \in Segs :
        s = Source(r, t) /\ s # r /\ k = rseq[r][t] /\ Target(k) = s
  BY <1>1, HolderFacts
<1>3. /\ rpc' = [rpc EXCEPT ![r][t] = "flag"]
      /\ UNCHANGED <<ridx, rseq, own, sent, flag>>
      /\ \/ Size(k) = 0 /\ chan' = chan
         \/ /\ Size(k) # 0
            /\ chan[s][r] # << >>
            /\ chan' = [chan EXCEPT ![s][r] = Tail(@)]
  BY <1>2 DEF StoreBody, netVars, mainVars
<1>4. /\ rpc'[r][t] = "flag"
      /\ \A q \in Receivers, u \in Slots : q # r \/ u # t => rpc'[q][u] = rpc[q][u]
  BY <1>0, <1>3 DEF TypeOK
<1>5. /\ \A p, q \in Receivers : Distinct(chan'[p][q])
      /\ \A p, q \in Receivers : \A l : In(l, chan'[p][q]) => In(l, chan[p][q])
      /\ ~ In(k, chan'[s][r])
  <2>1. CASE Size(k) = 0 /\ chan' = chan
    <3>1. ~ ReadsBody(r, t)
      BY <1>2, <2>1 DEF ReadsBody
    <3>2. ~ In(k, chan[s][r])
      BY <1>1, <1>2, <3>1 DEF HeldFresh
    <3> QED
      BY <2>1, <3>2 DEF InFlightFresh
  <2>2. CASE /\ Size(k) # 0
             /\ chan[s][r] # << >>
             /\ chan' = [chan EXCEPT ![s][r] = Tail(@)]
    <3>1. chan[s][r] \in Seq(Segs \cup {NoData})
      BY <1>0, ChanType, Domains
    <3>2. Head(chan[s][r]) = k
      BY <1>1, <1>2, <2>2 DEF IInv, BodyFirst, ReadsBody
    <3>3. /\ Distinct(Tail(chan[s][r]))
          /\ ~ In(k, Tail(chan[s][r]))
          /\ \A l : In(l, Tail(chan[s][r])) => In(l, chan[s][r])
      BY <2>2, <3>1, <3>2, DistinctTail, InTail DEF InFlightFresh
    <3>4. /\ chan'[s][r] = Tail(chan[s][r])
          /\ \A p, q \in Receivers : p # s \/ q # r => chan'[p][q] = chan[p][q]
      BY <1>0, <2>2, Domains DEF TypeOK
    <3> QED
      BY <3>3, <3>4 DEF InFlightFresh
  <2> QED
    BY <1>3, <2>1, <2>2
<1>6. \A p, q \in Receivers : \A l : Forwarded(p, q, l)' <=> Forwarded(p, q, l)
  BY <1>3 DEF Forwarded
<1>7. InFlightFresh'
  BY <1>3, <1>5, <1>6 DEF InFlightFresh
<1>8. FlaggedForwarded'
  <2>1. \A l \in Segs : Target(l) \in Receivers
    BY Dealing DEF Segs
  <2> QED
    BY <1>3, <1>6, <2>1 DEF FlaggedForwarded
<1>9. \A q \in Receivers, u \in Slots :
        /\ Holds(q, u)' <=> Holds(q, u)
        /\ Source(q, u)' = Source(q, u)
        /\ rseq'[q][u] = rseq[q][u]
        /\ q # r \/ u # t => ReadsBody(q, u)' = ReadsBody(q, u)
  BY <1>1, <1>3, <1>4 DEF Holds, ReadsBody, Source
<1>10. HeldFresh'
  <2> SUFFICES ASSUME NEW q \in Receivers, NEW u \in Slots, Holds(q, u)'
               PROVE  /\ Forwarded(Source(q, u), q, rseq[q][u])'
                      /\ ~ flag'[q][rseq'[q][u]]
                      /\ ~ ReadsBody(q, u)' => ~ In(rseq'[q][u], chan'[Source(q, u)'][q])
    BY DEF HeldFresh
  <2>1. Holds(q, u)
    BY <1>9
  <2>2. PICK p \in Receivers, l \in Segs : p = Source(q, u) /\ l = rseq[q][u]
    BY <2>1, HolderFacts
  <2>3. /\ Forwarded(p, q, l) /\ ~ flag[q][l]
        /\ ~ ReadsBody(q, u) => ~ In(l, chan[p][q])
    BY <2>1, <2>2 DEF HeldFresh
  <2>4. Source(q, u)' = p /\ rseq'[q][u] = l
    BY <1>9, <2>2
  <2>5. Forwarded(p, q, l)'
    BY <1>6, <2>3
  <2>6. Forwarded(Source(q, u), q, rseq[q][u])'
    BY <2>4, <2>5 DEF Forwarded
  <2>7. ~ ReadsBody(q, u)' => ~ In(l, chan'[p][q])
    <3>1. CASE q = r /\ u = t
      BY <1>2, <1>5, <2>2, <3>1
    <3>2. CASE q # r \/ u # t
      BY <1>5, <1>9, <2>3, <3>2
    <3> QED
      BY <3>1, <3>2
  <2> QED
    BY <1>3, <2>3, <2>4, <2>6, <2>7
<1>11. HeldOnce'
  BY <1>9 DEF HeldOnce
<1> QED
  BY <1>7, <1>8, <1>10, <1>11

\* A reader shows what it holds: nobody else holds it and it is not in flight.
LEMMA RelayFlag ==
  ASSUME TypeInv, IInv, DealInv, RelayInv, NEW r \in Receivers, NEW t \in Slots,
         FlagFromPeer(r, t)
  PROVE  RelayInv'
<1> USE DEF RelayInv
<1>0. TypeOK
  BY DEF TypeInv
<1>1. rpc[r][t] = "flag" /\ Holds(r, t)
  BY DEF FlagFromPeer, Holds
<1>2. PICK s \in Receivers, k \in Segs :
        s = Source(r, t) /\ s # r /\ k = rseq[r][t] /\ Target(k) = s
  BY <1>1, HolderFacts
<1>3. Forwarded(s, r, k) /\ ~ In(k, chan[s][r])
  BY <1>1, <1>2 DEF HeldFresh, ReadsBody
<1>4. /\ rpc' = [rpc EXCEPT ![r][t] = "count"]
      /\ flag' = [flag EXCEPT ![r][k] = TRUE]
      /\ UNCHANGED <<ridx, rseq, own, sent, chan>>
  BY <1>2 DEF FlagFromPeer, netVars, mainVars
<1>5. /\ rpc'[r][t] = "count"
      /\ \A q \in Receivers, u \in Slots : q # r \/ u # t => rpc'[q][u] = rpc[q][u]
      /\ \A q \in Receivers, l \in Segs : q # r \/ l # k => flag'[q][l] = flag[q][l]
  BY <1>0, <1>4 DEF TypeOK
<1>6. \A p, q \in Receivers : \A l : Forwarded(p, q, l)' <=> Forwarded(p, q, l)
  BY <1>4 DEF Forwarded
<1>7. InFlightFresh'
  <2> SUFFICES ASSUME NEW p \in Receivers, NEW q \in Receivers, NEW l \in Segs,
                      In(l, chan[p][q])
               PROVE  Forwarded(p, q, l) /\ ~ flag'[q][l]
    BY <1>4, <1>6 DEF InFlightFresh
  <2>1. Forwarded(p, q, l) /\ ~ flag[q][l] /\ Target(l) = p
    BY WhereFrom DEF InFlightFresh, HasOwn
  <2>2. ~ (q = r /\ l = k)
    BY <1>2, <1>3, <2>1
  <2> QED
    BY <1>5, <2>1, <2>2
<1>8. FlaggedForwarded'
  <2> SUFFICES ASSUME NEW q \in Receivers, NEW l \in Segs, flag'[q][l], Target(l) # q
               PROVE  Forwarded(Target(l), q, l)'
    BY DEF FlaggedForwarded
  <2>1. Target(l) \in Receivers
    BY Dealing DEF Segs
  <2>2. CASE q = r /\ l = k
    BY <1>2, <1>3, <1>6, <2>2
  <2>3. CASE ~ (q = r /\ l = k)
    BY <1>5, <1>6, <2>1, <2>3 DEF FlaggedForwarded
  <2> QED
    BY <2>2, <2>3
<1>9. \A q \in Receivers, u \in Slots : Holds(q, u)' =>
        /\ q # r \/ u # t
        /\ Holds(q, u)
        /\ Source(q, u)' = Source(q, u)
        /\ rseq'[q][u] = rseq[q][u]
        /\ ReadsBody(q, u)' = ReadsBody(q, u)
  BY <1>4, <1>5 DEF Holds, ReadsBody, Source
<1>10. HeldFresh'
  <2> SUFFICES ASSUME NEW q \in Receivers, NEW u \in Slots, Holds(q, u)'
               PROVE  /\ Forwarded(Source(q, u), q, rseq[q][u])'
                      /\ ~ flag'[q][rseq'[q][u]]
                      /\ ~ ReadsBody(q, u)' => ~ In(rseq'[q][u], chan'[Source(q, u)'][q])
    BY DEF HeldFresh
  <2>1. Holds(q, u) /\ (q # r \/ u # t)
    BY <1>9
  <2>2. PICK p \in Receivers, l \in Segs : p = Source(q, u) /\ l = rseq[q][u]
    BY <2>1, HolderFacts
  <2>3. /\ Forwarded(p, q, l) /\ ~ flag[q][l]
        /\ ~ ReadsBody(q, u) => ~ In(l, chan[p][q])
    BY <2>1, <2>2 DEF HeldFresh
  <2>4. Source(q, u)' = p /\ rseq'[q][u] = l /\ ReadsBody(q, u)' = ReadsBody(q, u)
    BY <1>9, <2>2
  <2>5. Forwarded(p, q, l)'
    BY <1>6, <2>3
  <2>6. Forwarded(Source(q, u), q, rseq[q][u])'
    BY <2>4, <2>5 DEF Forwarded
  <2>7. ~ (q = r /\ l = k)
    BY <1>1, <1>2, <2>1, <2>2 DEF HeldOnce
  <2> QED
    BY <1>4, <1>5, <2>3, <2>4, <2>6, <2>7
<1>11. HeldOnce'
  BY <1>9 DEF HeldOnce
<1> QED
  BY <1>7, <1>8, <1>10, <1>11

\* A segment is forwarded on a connection once.
LEMMA RelayForward ==
  ASSUME TypeInv, IInv, DealInv, RelayInv, NEW r \in Receivers, NEW t \in Slots,
         sent[r][t] < Len(own[r]),
         chan' = [chan EXCEPT ![r][peerAt[r][t]] =
                    Append(@, segment[r][own[r][sent[r][t] + 1]])],
         sent' = [sent EXCEPT ![r][t] = @ + 1],
         UNCHANGED <<own, flag, rpc, ridx, rseq>>
  PROVE  RelayInv'
<1> USE DEF RelayInv
<1>0. TypeOK
  BY DEF TypeInv
<1>1. PICK q \in Receivers : q = peerAt[r][t] /\ q # r
  BY PeersAreReceivers
<1>2. /\ sent[r][t] \in Nat
      /\ own[r] \in Seq(Segs)
      /\ sent[r][t] + 1 \in 1 .. Len(own[r])
  BY <1>0 DEF TypeOK
<1>3. PICK k \in Segs : k = own[r][sent[r][t] + 1]
  BY <1>2
<1>4. segment[r][k] = k /\ Target(k) = r
  BY <1>2, <1>3 DEF IInv, OwnOK, TableOK, HasOwn
<1>5. ~ Forwarded(r, q, k)
  <2> SUFFICES ASSUME NEW j \in Slots, peerAt[r][j] = q,
                      NEW i \in 1 .. sent[r][j], own[r][i] = k
               PROVE  FALSE
    BY DEF Forwarded
  <2>1. j = t
    BY <1>1, TransferAssumption
  <2>2. i \in 1 .. Len(own[r]) /\ i # sent[r][t] + 1
    BY <1>2, <2>1
  <2> QED
    BY <1>2, <1>3, <2>2 DEF DealInv, OwnDistinct, Distinct
<1>6. chan[r][q] \in Seq(Segs \cup {NoData})
  BY <1>0, ChanType, Domains
<1>7. /\ chan'[r][q] = Append(chan[r][q], k)
      /\ \A p, v \in Receivers : p # r \/ v # q => chan'[p][v] = chan[p][v]
  <2>1. chan' = [chan EXCEPT ![r][q] = Append(@, k)]
    BY <1>1, <1>3, <1>4
  <2>2. chan \in [Procs -> [Receivers -> Seq(Segs \cup {NoData})]] /\ r \in Procs
    BY <1>0, Domains DEF TypeOK
  <2> HIDE DEF Segs
  <2> DEFINE a == Append(chan[r][q], k)
  <2>3. chan' = [chan EXCEPT ![r] = [chan[r] EXCEPT ![q] = a]]
    BY <2>1
  <2> HIDE DEF a
  <2>4. chan'[r][q] = a
    BY <2>2, <2>3
  <2>5. \A p, v \in Receivers : p # r \/ v # q => chan'[p][v] = chan[p][v]
    <3>1. chan'[r] = [chan[r] EXCEPT ![q] = a] /\ \A p \in Procs : p # r => chan'[p] = chan[p]
      BY <2>2, <2>3
    <3> QED
      BY <2>2, <3>1, Domains
  <2> QED
    BY <2>4, <2>5 DEF a
<1>8. /\ Distinct(chan'[r][q])
      /\ \A l : In(l, chan'[r][q]) <=> In(l, chan[r][q]) \/ l = k
  <2>1. k \in Segs \cup {NoData}
    OBVIOUS
  <2>2. Distinct(chan[r][q]) /\ ~ In(k, chan[r][q])
    BY <1>5 DEF InFlightFresh
  <2>3. Distinct(Append(chan[r][q], k))
    BY <1>6, <2>1, <2>2, DistinctAppend
  <2>4. \A l : In(l, Append(chan[r][q], k)) <=> In(l, chan[r][q]) \/ l = k
    BY <1>6, <2>1, InAppend
  <2> QED
    BY <1>7, <2>3, <2>4
<1>9. \A p, v \in Receivers : \A l :
        In(l, chan'[p][v]) => In(l, chan[p][v]) \/ (p = r /\ v = q /\ l = k)
  BY <1>7, <1>8
<1>10. /\ sent'[r][t] = sent[r][t] + 1
       /\ \A p \in Receivers, j \in Slots : p # r \/ j # t => sent'[p][j] = sent[p][j]
  BY <1>0 DEF TypeOK
<1>11. \A p, v \in Receivers : \A l : Forwarded(p, v, l) => Forwarded(p, v, l)'
  BY <1>10, ForwardedKeeps
<1>12. Forwarded(r, q, k)'
  <2>1. sent'[r][t] \in 1 .. sent'[r][t]
    BY <1>2, <1>10
  <2> QED
    BY <1>1, <1>3, <1>10, <2>1 DEF Forwarded
<1>13. InFlightFresh'
  <2>1. \A p, v \in Receivers : Distinct(chan'[p][v])
    BY <1>7, <1>8 DEF InFlightFresh
  <2>2. ~ flag[q][k]
    BY <1>1, <1>4, <1>5 DEF FlaggedForwarded
  <2>3. \A p, v \in Receivers, l \in Segs :
          In(l, chan'[p][v]) => Forwarded(p, v, l)' /\ ~ flag[v][l]
    BY <1>9, <1>11, <1>12, <2>2 DEF InFlightFresh
  <2> QED
    BY <2>1, <2>3 DEF InFlightFresh
<1>14. FlaggedForwarded'
  <2>1. \A l \in Segs : Target(l) \in Receivers
    BY Dealing DEF Segs
  <2> QED
    BY <1>11, <2>1 DEF FlaggedForwarded
<1>15. \A p \in Receivers, u \in Slots :
         /\ Holds(p, u)' <=> Holds(p, u)
         /\ Source(p, u)' = Source(p, u)
         /\ ReadsBody(p, u)' = ReadsBody(p, u)
  BY DEF Holds, ReadsBody, Source
<1>16. HeldFresh'
  <2> SUFFICES ASSUME NEW v \in Receivers, NEW u \in Slots, Holds(v, u)
               PROVE  /\ Forwarded(Source(v, u), v, rseq[v][u])'
                      /\ ~ flag[v][rseq[v][u]]
                      /\ ~ ReadsBody(v, u) => ~ In(rseq[v][u], chan'[Source(v, u)][v])
    BY <1>15 DEF HeldFresh
  <2>1. PICK p \in Receivers, l \in Segs : p = Source(v, u) /\ l = rseq[v][u]
    BY HolderFacts
  <2>2. /\ Forwarded(p, v, l) /\ ~ flag[v][l]
        /\ ~ ReadsBody(v, u) => ~ In(l, chan[p][v])
    BY <2>1 DEF HeldFresh
  <2>3. Forwarded(p, v, l)'
    BY <1>11, <2>2
  <2>4. Forwarded(Source(v, u), v, rseq[v][u])'
    BY <1>15, <2>1, <2>3 DEF Forwarded
  <2>5. ~ ReadsBody(v, u) => ~ In(l, chan'[p][v])
    BY <1>5, <1>9, <2>2
  <2> QED
    BY <2>1, <2>2, <2>4, <2>5
<1>17. HeldOnce'
  BY <1>15 DEF HeldOnce
<1> QED
  BY <1>13, <1>14, <1>16, <1>17

LEMMA RelayStep == TypeInv /\ IInv /\ DealInv /\ RelayInv /\ [Next]_vars => RelayInv'
<1> SUFFICES ASSUME TypeInv, IInv, DealInv, RelayInv, [Next]_vars PROVE RelayInv'
  OBVIOUS
<1>0. TypeOK /\ LocalsOK
  BY DEF TypeInv
<1> USE DEF senderVars, netVars, mainVars, readerVars, bufferVars, outputVars
\* Steps that leave the readers alone.
<1>1. ASSUME \A q \in Receivers : \A i \in 1 .. Len(own[q]) : own'[q][i] = own[q][i],
             \A q \in Receivers, j \in Slots : sent'[q][j] \in {sent[q][j], sent[q][j] + 1},
             \A q \in Receivers, k \in Segs : Target(k) # q => flag'[q][k] = flag[q][k],
             \A p, q \in Receivers : chan'[p][q] \in {chan[p][q], << >>},
             UNCHANGED <<rpc, ridx, rseq>>
      PROVE  RelayInv'
  <2>1. \A q, r \in Receivers : \A k : Forwarded(q, r, k) => Forwarded(q, r, k)'
    BY <1>1, ForwardedKeeps
  <2> QED
    BY <1>1, <2>1, RelayKeeps
\* Steps of a reader that has nothing in its hands.
<1>2. ASSUME NEW r \in Receivers, NEW t \in Slots, UNCHANGED <<own, sent, flag, chan>>,
             \E pc \in ReaderStates \ {"body", "flag"} : rpc' = [rpc EXCEPT ![r][t] = pc],
             rseq' = rseq,
             ridx' = ridx \/ \E x : ridx' = [ridx EXCEPT ![r][t] = x]
      PROVE  RelayInv'
  <2>1. \A p, q \in Receivers : \A k : Forwarded(p, q, k) => Forwarded(p, q, k)'
    BY <1>2 DEF Forwarded
  <2>2. PICK pc \in ReaderStates \ {"body", "flag"} : rpc' = [rpc EXCEPT ![r][t] = pc]
    BY <1>2
  <2>3. /\ rpc'[r][t] = pc
        /\ \A q \in Receivers, u \in Slots : q # r \/ u # t => rpc'[q][u] = rpc[q][u]
    BY <1>0, <2>2 DEF TypeOK
  <2>4. \A q \in Receivers, u \in Slots : q # r \/ u # t => ridx'[q][u] = ridx[q][u]
    <3>1. ASSUME NEW x, ridx' = [ridx EXCEPT ![r][t] = x]
          PROVE  \A q \in Receivers, u \in Slots : q # r \/ u # t => ridx'[q][u] = ridx[q][u]
      BY <1>0, <3>1 DEF TypeOK
    <3> QED
      BY <1>2, <3>1
  <2>5. ~ Holds(r, t)'
    BY <2>3 DEF Holds
  <2>6. \A q \in Receivers, u \in Slots : Holds(q, u)' =>
          rpc'[q][u] = rpc[q][u] /\ ridx'[q][u] = ridx[q][u] /\ rseq'[q][u] = rseq[q][u]
    BY <1>2, <2>3, <2>4, <2>5
  <2> QED
    BY <1>2, <2>1, <2>6, RelayKeeps
<1>3. ASSUME UNCHANGED <<own, sent, flag, chan, rpc, ridx, rseq>> PROVE RelayInv'
  BY <1>1, <1>3
<1>4. ASSUME SendSegment PROVE RelayInv'
  <2>1. \A p, q \in Receivers : chan'[p][q] \in {chan[p][q], << >>}
    <3>1. CASE Die(Sender, "killed")
      BY <1>0, <3>1, DieChan, Domains
    <3>2. CASE chan' = [chan EXCEPT ![Sender][Target(sidx)] = Append(@, sidx)]
      BY <1>0, <3>2, Domains DEF TypeOK
    <3> QED
      BY <1>4, <3>1, <3>2 DEF SendSegment
  <2> QED
    BY <1>1, <1>4, <2>1 DEF SendSegment
<1>5. ASSUME SenderExit \/ Terminated \/ UNCHANGED vars PROVE RelayInv'
  BY <1>3, <1>5 DEF SenderExit, Terminated, vars
<1>6. ASSUME NEW r \in Receivers, MainThread(r) PROVE RelayInv'
  <2>1. CASE CreatePeerThreads(r)
    <3>1. ivar[r] \in Slots
      BY <1>0, <2>1 DEF CreatePeerThreads, LocalsOK
    <3> QED
      BY <1>2, <2>1, <3>1 DEF CreatePeerThreads, ReaderStates
  <2>2. CASE RecvFromSender(r)
    <3>1. \A p, q \in Receivers : chan'[p][q] = chan[p][q]
      BY <1>0, <2>2, Domains DEF RecvFromSender, TypeOK
    <3> QED
      BY <1>1, <2>2, <3>1 DEF RecvFromSender
  <2>3. CASE PublishOwn(r)
    <3>1. own \in [Receivers -> Seq(Segs)] /\ mseq[r] \in Segs /\ Target(mseq[r]) = r
      BY <1>0, <2>3 DEF PublishOwn, TypeOK, LocalsOK, IInv, PublishOK
    <3>2. own' = [own EXCEPT ![r] = Append(@, mseq[r])]
      BY <2>3 DEF PublishOwn
    <3>3. \A q \in Receivers : \A i \in 1 .. Len(own[q]) : own'[q][i] = own[q][i]
      <4>1. own[r] \in Seq(Segs) /\ own'[r] = Append(own[r], mseq[r])
        BY <3>1, <3>2
      <4>2. \A i \in 1 .. Len(own[r]) : own'[r][i] = own[r][i]
        BY <4>1
      <4> QED
        BY <3>1, <3>2, <4>2
    <3>4. \A q \in Receivers, k \in Segs : Target(k) # q => flag'[q][k] = flag[q][k]
      BY <1>0, <2>3, <3>1 DEF PublishOwn, TypeOK
    <3> QED
      BY <1>1, <2>3, <3>3, <3>4 DEF PublishOwn
  <2>4. CASE NextPeer(r) \/ JoinAndFree(r) \/ ReceiverExit(r)
    BY <1>3, <2>4 DEF NextPeer, JoinAndFree, ReceiverExit
  <2> QED
    BY <1>6, <2>1, <2>2, <2>3, <2>4 DEF MainThread
<1>7. ASSUME NEW r \in Receivers, FileWriter(r) PROVE RelayInv'
  BY <1>3, <1>7 DEF FileWriter, OpenFile, WriteSegment
<1>8. ASSUME NEW r \in Receivers, NEW t \in Slots, PeerThreads(r, t) PROVE RelayInv'
  <2>1. CASE ReadHeader(r, t)
    BY <2>1, RelayReadHeader
  <2>2. CASE StoreBody(r, t)
    BY <2>2, RelayStoreBody
  <2>3. CASE FlagFromPeer(r, t)
    BY <2>3, RelayFlag
  <2>4. CASE ReadGarbage(r, t) \/ BodyReset(r, t)
    BY <1>3, <2>4 DEF ReadGarbage, BodyReset
  <2>5. CASE StartReader(r, t)
    BY <1>2, <2>5 DEF StartReader, ReaderStates
  <2>6. CASE HeaderReset(r, t)
    <3>1. CASE rseq[r][t] = NoData
      BY <1>3, <2>6, <3>1 DEF HeaderReset
    <3>2. CASE rseq[r][t] # NoData
      BY <1>2, <2>6, <3>2 DEF HeaderReset, ReaderStates
    <3> QED
      BY <3>1, <3>2
  <2>7. CASE CountDown(r, t)
    BY <1>2, <2>7 DEF CountDown, ReaderStates
  <2>8. CASE UpdateRecvInfo(r, t)
    BY <1>2, <2>8 DEF UpdateRecvInfo, ReaderStates
  <2>9. CASE ForwardSegment(r, t)
    <3>1. UNCHANGED <<own, flag, rpc, ridx, rseq>> /\ sent[r][t] < Len(own[r])
      BY <2>9 DEF ForwardSegment
    <3>2. CASE /\ chan' = [chan EXCEPT ![r][peerAt[r][t]] =
                             Append(@, segment[r][own[r][sent[r][t] + 1]])]
               /\ sent' = [sent EXCEPT ![r][t] = @ + 1]
      BY <3>1, <3>2, RelayForward
    <3>3. CASE sent' = [sent EXCEPT ![r][t] = @ + 1] /\ UNCHANGED chan
      <4>1. \A q \in Receivers, j \in Slots : sent'[q][j] \in {sent[q][j], sent[q][j] + 1}
        BY <1>0, <3>3 DEF TypeOK
      <4> QED
        BY <1>1, <3>1, <3>3, <4>1
    <3>4. CASE Die(r, "killed") /\ UNCHANGED sent
      <4>1. \A p, q \in Receivers : chan'[p][q] \in {chan[p][q], << >>}
        BY <1>0, <3>4, DieChan, Domains
      <4> QED
        BY <1>1, <3>1, <3>4, <4>1
    <3> QED
      BY <2>9, <3>2, <3>3, <3>4 DEF ForwardSegment
  <2> QED
    BY <1>8, <2>1, <2>2, <2>3, <2>4, <2>5, <2>6, <2>7, <2>8, <2>9 DEF PeerThreads
<1>9. ASSUME NEW p \in Procs, Crash(p) PROVE RelayInv'
  <2>1. \A q, r \in Receivers : chan'[q][r] \in {chan[q][r], << >>}
    BY <1>0, <1>9, DieChan, Domains DEF Crash
  <2> QED
    BY <1>1, <1>9, <2>1 DEF Crash
<1> QED
  BY <1>4, <1>5, <1>6, <1>7, <1>8, <1>9 DEF Next, ProgramStep

-------------------------------------------------------------------------------
(* What a receiver that has finished leaves behind. *)

\* What is in the copy is flagged, and a receiver's process ends after the table
\* is freed.
ClosedInv ==
  \A r \in Receivers :
    /\ \A k \in Segs : k < Len(file[r]) => flag[r][k]
    /\ status[r] = "done" => main[r] = "freed"

LEMMA ClosedInit == Init => ClosedInv
  BY Domains DEF Init, ClosedInv, Segs

LEMMA ClosedStep == TypeInv /\ ClosedInv /\ [Next]_vars => ClosedInv'
<1> SUFFICES ASSUME TypeInv, ClosedInv, [Next]_vars PROVE ClosedInv'
  OBVIOUS
<1>0. TypeOK /\ LocalsOK
  BY DEF TypeInv
<1> USE DEF senderVars, netVars, mainVars, readerVars, bufferVars, outputVars
<1>1. ASSUME UNCHANGED file,
             \A r \in Receivers, k \in Segs : flag[r][k] => flag'[r][k],
             \A r \in Receivers : main[r] = "freed" => main'[r] = "freed",
             \A r \in Receivers : status'[r] = "done" => status[r] = "done"
      PROVE  ClosedInv'
  BY <1>1 DEF ClosedInv
<1>2. ASSUME NEW p \in Procs, NEW how \in {"crashed", "killed"}, Die(p, how)
      PROVE  \A r \in Receivers : status'[r] = "done" => status[r] = "done"
  BY <1>0, <1>2, Domains DEF Die, TypeOK
<1>3. ASSUME SendSegment PROVE ClosedInv'
  <2>1. \A r \in Receivers : status'[r] = "done" => status[r] = "done"
    BY <1>2, <1>3, Domains DEF SendSegment
  <2> QED
    BY <1>1, <1>3, <2>1 DEF SendSegment
<1>4. ASSUME SenderExit PROVE ClosedInv'
  <2>1. \A r \in Receivers : status'[r] = status[r]
    BY <1>0, <1>4, Domains DEF SenderExit, TypeOK
  <2> QED
    BY <1>1, <1>4, <2>1 DEF SenderExit
<1>5. ASSUME Terminated \/ UNCHANGED vars PROVE ClosedInv'
  BY <1>1, <1>5 DEF Terminated, vars
<1>6. ASSUME NEW r \in Receivers, MainThread(r) PROVE ClosedInv'
  <2>1. CASE \/ CreatePeerThreads(r) \/ NextPeer(r) \/ RecvFromSender(r)
             \/ PublishOwn(r) \/ JoinAndFree(r)
    <3>1. \A q \in Receivers : main[q] = "freed" => main'[q] = "freed"
      BY <1>0, <2>1
      DEF CreatePeerThreads, NextPeer, RecvFromSender, PublishOwn, JoinAndFree, TypeOK
    <3>2. \A q \in Receivers, k \in Segs : flag[q][k] => flag'[q][k]
      <4>1. CASE PublishOwn(r)
        BY <1>0, <4>1 DEF PublishOwn, TypeOK
      <4> QED
        BY <2>1, <4>1 DEF CreatePeerThreads, NextPeer, RecvFromSender, JoinAndFree
    <3>3. UNCHANGED <<file, status>>
      BY <2>1 DEF CreatePeerThreads, NextPeer, RecvFromSender, PublishOwn, JoinAndFree
    <3> QED
      BY <1>1, <3>1, <3>2, <3>3
  <2>2. CASE ReceiverExit(r)
    <3>1. \A q \in Receivers : q # r => status'[q] = status[q]
      BY <1>0, <2>2, Domains DEF ReceiverExit, TypeOK
    <3>2. main[r] = "freed" /\ UNCHANGED <<file, flag, main>>
      BY <2>2 DEF ReceiverExit
    <3> QED
      BY <3>1, <3>2 DEF ClosedInv
  <2> QED
    BY <1>6, <2>1, <2>2 DEF MainThread
<1>7. ASSUME NEW r \in Receivers, FileWriter(r) PROVE ClosedInv'
  <2>1. CASE OpenFile(r)
    BY <1>1, <2>1 DEF OpenFile
  <2>2. CASE WriteSegment(r)
    <3>1. /\ file[r] \in Seq(Segs \cup {NoData})
          /\ flag[r][Len(file[r])]
          /\ UNCHANGED <<flag, status, main>>
      BY <1>0, <2>2 DEF WriteSegment, NextFlagged, TypeOK
    <3>2. /\ file'[r] = Append(file[r], segment[r][Len(file[r])])
          /\ \A q \in Receivers : q # r => file'[q] = file[q]
      BY <1>0, <2>2 DEF WriteSegment, TypeOK
    <3>3. Len(file'[r]) = Len(file[r]) + 1 /\ Len(file[r]) \in Nat
      BY <3>1, <3>2
    <3>4. \A k \in Segs : k < Len(file'[r]) => k < Len(file[r]) \/ k = Len(file[r])
      BY <3>3 DEF Segs
    <3> QED
      BY <3>1, <3>2, <3>4 DEF ClosedInv
  <2> QED
    BY <1>7, <2>1, <2>2 DEF FileWriter
<1>8. ASSUME NEW r \in Receivers, NEW t \in Slots, PeerThreads(r, t) PROVE ClosedInv'
  <2>1. \A q \in Receivers : status'[q] = "done" => status[q] = "done"
    <3>1. CASE status' = [status EXCEPT ![r] = "wild"]
      BY <1>0, <3>1, Domains DEF TypeOK
    <3>2. CASE Die(r, "killed")
      BY <1>2, <3>2, Domains
    <3>3. CASE ForwardSegment(r, t)
      BY <3>2, <3>3 DEF ForwardSegment
    <3>4. CASE ReadGarbage(r, t) \/ HeaderReset(r, t) \/ BodyReset(r, t)
      BY <3>1, <3>4 DEF ReadGarbage, HeaderReset, BodyReset
    <3> QED
      BY <1>8, <3>3, <3>4
      DEF PeerThreads, StartReader, ReadHeader, StoreBody, FlagFromPeer, CountDown,
          UpdateRecvInfo
  <2>2. UNCHANGED <<file, main>>
    BY <1>8
    DEF PeerThreads, StartReader, ReadHeader, ReadGarbage, StoreBody, HeaderReset,
        BodyReset, FlagFromPeer, CountDown, UpdateRecvInfo, ForwardSegment
  <2>3. \A q \in Receivers, k \in Segs : flag[q][k] => flag'[q][k]
    <3>1. CASE FlagFromPeer(r, t)
      BY <1>0, <3>1 DEF FlagFromPeer, TypeOK
    <3> QED
      BY <1>8, <3>1
      DEF PeerThreads, StartReader, ReadHeader, ReadGarbage, StoreBody, HeaderReset,
          BodyReset, CountDown, UpdateRecvInfo, ForwardSegment
  <2> QED
    BY <1>1, <2>1, <2>2, <2>3
<1>9. ASSUME NEW p \in Procs, Crash(p) PROVE ClosedInv'
  <2>1. \A r \in Receivers : status'[r] = "done" => status[r] = "done"
    BY <1>2, <1>9 DEF Crash
  <2> QED
    BY <1>1, <1>9, <2>1 DEF Crash
<1> QED
  BY <1>3, <1>4, <1>5, <1>6, <1>7, <1>8, <1>9 DEF Next, ProgramStep

\* The main thread creates every reader thread once.
NotBorn ==
  \A r \in Receivers, t \in Slots :
    \/ main[r] = "create" /\ ivar[r] <= t
    \/ main[r] = "next" /\ ivar[r] < t
    => rpc[r][t] = "unborn"

LEMMA NotBornStep == TypeInv /\ NotBorn /\ [Next]_vars => NotBorn'
<1> SUFFICES ASSUME TypeInv, NotBorn, [Next]_vars PROVE NotBorn'
  OBVIOUS
<1>0. TypeOK /\ LocalsOK
  BY DEF TypeInv
<1> USE DEF senderVars, netVars, mainVars, readerVars, bufferVars, outputVars
<1>1. ASSUME UNCHANGED rpc,
             \A r \in Receivers : /\ main'[r] \in {"create", "next"} => main'[r] = main[r]
                                 /\ ivar'[r] = ivar[r]
      PROVE  NotBorn'
  BY <1>1 DEF NotBorn
<1>2. ASSUME UNCHANGED <<rpc, main, ivar>> PROVE NotBorn'
  BY <1>2 DEF NotBorn
<1>3. ASSUME NEW r \in Receivers, NEW t \in Slots, rpc[r][t] # "unborn",
             NEW pc, rpc' = [rpc EXCEPT ![r][t] = pc], UNCHANGED <<main, ivar>>
      PROVE  NotBorn'
  <2>1. \A q \in Receivers, u \in Slots : q # r \/ u # t => rpc'[q][u] = rpc[q][u]
    BY <1>0, <1>3 DEF TypeOK
  <2> SUFFICES ASSUME NEW q \in Receivers, NEW u \in Slots,
                      \/ main[q] = "create" /\ ivar[q] <= u
                      \/ main[q] = "next" /\ ivar[q] < u
               PROVE  rpc'[q][u] = "unborn"
    BY <1>3 DEF NotBorn
  <2>2. rpc[q][u] = "unborn"
    BY DEF NotBorn
  <2> QED
    BY <1>3, <2>1, <2>2
<1>4. ASSUME \/ SendSegment \/ SenderExit \/ Terminated \/ UNCHANGED vars
             \/ \E p \in Procs : Crash(p)
             \/ \E r \in Receivers : FileWriter(r)
      PROVE  NotBorn'
  BY <1>2, <1>4
  DEF SendSegment, SenderExit, Terminated, vars, Crash, FileWriter, OpenFile, WriteSegment
<1>5. ASSUME NEW r \in Receivers, MainThread(r) PROVE NotBorn'
  <2>1. CASE CreatePeerThreads(r)
    <3>1. main[r] = "create" /\ ivar' = ivar /\ ivar[r] \in Slots
      BY <1>0, <2>1 DEF CreatePeerThreads, LocalsOK
    <3>2. /\ \A u \in Slots : u # ivar[r] => rpc'[r][u] = rpc[r][u]
          /\ \A q \in Receivers : q # r => rpc'[q] = rpc[q] /\ main'[q] = main[q]
          /\ main'[r] = "next"
      BY <1>0, <2>1 DEF CreatePeerThreads, TypeOK
    <3> SUFFICES ASSUME NEW q \in Receivers, NEW u \in Slots,
                        \/ main'[q] = "create" /\ ivar[q] <= u
                        \/ main'[q] = "next" /\ ivar[q] < u
                 PROVE  rpc'[q][u] = "unborn"
      BY <3>1 DEF NotBorn
    <3>3. CASE q = r
      <4>1. ivar[r] <= u /\ u # ivar[r]
        BY <3>1, <3>2, <3>3, NNat DEF Slots
      <4> QED
        BY <3>1, <3>2, <3>3, <4>1 DEF NotBorn
    <3>4. CASE q # r
      BY <3>2, <3>4 DEF NotBorn
    <3> QED
      BY <3>3, <3>4
  <2>2. CASE NextPeer(r)
    <3>1. main[r] = "next" /\ rpc' = rpc /\ ivar[r] \in Slots
      BY <1>0, <2>2 DEF NextPeer, LocalsOK
    <3>2. /\ ivar'[r] = ivar[r] + 1
          /\ main'[r] \in {"create", "recv"}
          /\ \A q \in Receivers : q # r => ivar'[q] = ivar[q] /\ main'[q] = main[q]
      BY <1>0, <2>2 DEF NextPeer, TypeOK
    <3> SUFFICES ASSUME NEW q \in Receivers, NEW u \in Slots,
                        \/ main'[q] = "create" /\ ivar'[q] <= u
                        \/ main'[q] = "next" /\ ivar'[q] < u
                 PROVE  rpc[q][u] = "unborn"
      BY <3>1 DEF NotBorn
    <3>3. CASE q = r
      <4>1. ivar[r] < u
        BY <3>1, <3>2, <3>3, NNat DEF Slots
      <4> QED
        BY <3>1, <3>3, <4>1 DEF NotBorn
    <3>4. CASE q # r
      BY <3>2, <3>4 DEF NotBorn
    <3> QED
      BY <3>3, <3>4
  <2>3. CASE RecvFromSender(r) \/ PublishOwn(r) \/ JoinAndFree(r) \/ ReceiverExit(r)
    <3>1. \A q \in Receivers : main'[q] \in {"create", "next"} => main'[q] = main[q]
      BY <1>0, <2>3 DEF RecvFromSender, PublishOwn, JoinAndFree, ReceiverExit, TypeOK
    <3> QED
      BY <1>1, <2>3, <3>1 DEF RecvFromSender, PublishOwn, JoinAndFree, ReceiverExit
  <2> QED
    BY <1>5, <2>1, <2>2, <2>3 DEF MainThread
<1>6. ASSUME NEW r \in Receivers, NEW t \in Slots, PeerThreads(r, t) PROVE NotBorn'
  <2>1. CASE ReadGarbage(r, t) \/ BodyReset(r, t) \/ ForwardSegment(r, t)
    BY <1>2, <2>1 DEF ReadGarbage, BodyReset, ForwardSegment
  <2>2. CASE StartReader(r, t)
    BY <1>3, <2>2 DEF StartReader
  <2>3. CASE ReadHeader(r, t)
    BY <1>3, <2>3 DEF ReadHeader
  <2>4. CASE StoreBody(r, t)
    BY <1>3, <2>4 DEF StoreBody
  <2>5. CASE HeaderReset(r, t)
    <3>1. CASE rpc' = rpc
      BY <1>2, <2>5, <3>1 DEF HeaderReset
    <3> QED
      BY <1>3, <2>5, <3>1 DEF HeaderReset
  <2>6. CASE FlagFromPeer(r, t) \/ CountDown(r, t) \/ UpdateRecvInfo(r, t)
    BY <1>3, <2>6 DEF FlagFromPeer, CountDown, UpdateRecvInfo
  <2> QED
    BY <1>6, <2>1, <2>2, <2>3, <2>4, <2>5, <2>6 DEF PeerThreads
<1> QED
  BY <1>4, <1>5, <1>6 DEF Next, ProgramStep

\* All of the invariants that hold without any assumption.
EndInv == TypeInv /\ IInv /\ DealInv /\ RelayInv /\ ClosedInv /\ NotBorn

LEMMA EndInvInit == Init => EndInv
<1>1. Init => NotBorn
  BY DEF Init, NotBorn
<1> QED
  BY <1>1, TypeInit, IInvInit, DealInit, RelayInit, ClosedInit DEF EndInv

LEMMA EndInvStep == EndInv /\ [Next]_vars => EndInv'
  BY TypeStep, IInvStep, DealStep, RelayStep, ClosedStep, NotBornStep DEF EndInv

\* The table is freed after every segment has been flagged.
LEMMA FreedIsWhole ==
  ASSUME CopyIsNeeded, EndInv, NEW r \in Receivers, main[r] = "freed"
  PROVE  \A k \in Segs : flag[r][k]
<1>1. Len(file[r]) = total_seg
  BY DEF EndInv, IInv, WriterOK, CopyIsNeeded
<1>2. \A k \in Segs : k < total_seg
  BY Segmentation DEF Segs
<1> QED
  BY <1>1, <1>2 DEF EndInv, ClosedInv

\* When r has everything, the peer behind connection t has written all it has to
\* write to it.
LEMMA AllForwarded ==
  ASSUME EndInv, NEW r \in Receivers, \A k \in Segs : flag[r][k],
         NEW q \in Receivers, NEW t \in Slots, peerAt[q][t] = r
  PROVE  sent[q][t] = Quota(q)
<1> DEFINE n == sent[q][t]
           f == [i \in 1 .. n |-> own[q][i]]
<1>1. /\ n \in Nat
      /\ own[q] \in Seq(Segs)
      /\ n <= Len(own[q])
      /\ Len(own[q]) <= Quota(q)
      /\ Quota(q) \in Nat
  BY Dealing DEF EndInv, TypeInv, TypeOK, DealInv, QuotaKept
<1> HIDE DEF n
<1>2. q # r
  BY PeersAreReceivers
<1>3. \A i \in 1 .. n : own[q][i] \in Dealt(q)
  <2> SUFFICES ASSUME NEW i \in 1 .. n PROVE own[q][i] \in Dealt(q)
    OBVIOUS
  <2>1. i \in 1 .. Len(own[q])
    BY <1>1
  <2> QED
    BY <1>1, <2>1 DEF Dealt, EndInv, IInv, OwnOK, HasOwn
<1>4. \A k \in Dealt(q) : \E i \in 1 .. n : own[q][i] = k
  <2> SUFFICES ASSUME NEW k \in Dealt(q) PROVE \E i \in 1 .. n : own[q][i] = k
    OBVIOUS
  <2>1. k \in Segs /\ Target(k) = q
    BY DEF Dealt
  <2>2. Forwarded(q, r, k)
    BY <1>2, <2>1 DEF EndInv, RelayInv, FlaggedForwarded
  <2>3. PICK j \in Slots : peerAt[q][j] = r /\ \E i \in 1 .. sent[q][j] : own[q][i] = k
    BY <2>2 DEF Forwarded
  <2>4. j = t
    BY <2>3, TransferAssumption
  <2> QED
    BY <2>3, <2>4 DEF n
<1>5. f \in Surjection(1 .. n, Dealt(q))
  <2>1. f \in [1 .. n -> Dealt(q)] /\ \A k \in Dealt(q) : \E i \in 1 .. n : f[i] = k
    BY <1>3, <1>4
  <2> HIDE DEF f
  <2> QED
    BY <2>1 DEF Surjection
<1>6. Cardinality(Dealt(q)) <= n
  <2>1. ExistsSurjection(1 .. n, Dealt(q))
    BY <1>5 DEF ExistsSurjection
  <2> QED
    BY <1>1, <2>1, FS_SurjCardinalityBound
<1> QED
  BY <1>1, <1>6, DealtCount DEF n

LEMMA QuietWhenDone ==
  ASSUME CopyIsNeeded, EndInv
  PROVE  DoneIsQuiet
<1> SUFFICES ASSUME NEW r \in Receivers, status[r] = "done"
             PROVE  /\ \A p \in Procs : chan[p][r] = << >>
                    /\ \A k \in sidx .. total_seg - 1 : Target(k) # r
                    /\ \A q \in Receivers, t \in Slots :
                         peerAt[q][t] = r => sent[q][t] = Quota(q)
  BY DEF DoneIsQuiet
<1>1. \A k \in Segs : flag[r][k]
  BY FreedIsWhole DEF EndInv, ClosedInv
<1>2. chan[Sender][r] = << >>
  <2> SUFFICES ASSUME chan[Sender][r] # << >> PROVE FALSE
    OBVIOUS
  <2>1. chan[Sender][r] \in Seq(Segs)
    BY DEF EndInv, TypeInv, LocalsOK
  <2>2. Head(chan[Sender][r]) \in Segs /\ In(Head(chan[Sender][r]), chan[Sender][r])
    BY <2>1, HeadIn
  <2> QED
    BY <1>1, <2>2 DEF EndInv, DealInv, FromSenderFresh
<1>3. \A q \in Receivers : chan[q][r] = << >>
  <2> SUFFICES ASSUME NEW q \in Receivers, chan[q][r] # << >> PROVE FALSE
    OBVIOUS
  <2>1. chan[q][r] \in Seq(Segs \cup {NoData})
    BY ChanType, Domains DEF EndInv, TypeInv
  <2>2. In(Head(chan[q][r]), chan[q][r])
    BY <2>1, HeadIn
  <2>3. Head(chan[q][r]) \in Segs
    BY <2>2, WhereFrom DEF EndInv
  <2> QED
    BY <1>1, <2>2, <2>3 DEF EndInv, RelayInv, InFlightFresh
<1>4. \A p \in Procs : p = Sender \/ p \in Receivers
  BY NNat DEF Procs, Sender, Receivers
<1>5. \A k \in sidx .. total_seg - 1 : Target(k) # r
  <2> SUFFICES ASSUME NEW k \in sidx .. total_seg - 1, Target(k) = r PROVE FALSE
    OBVIOUS
  <2>1. k \in Segs /\ ~ (k < sidx)
    BY DEF EndInv, TypeInv, TypeOK, Segs
  <2> QED
    BY <1>1, <2>1 DEF EndInv, DealInv, OwnListed
<1>6. \A q \in Receivers, t \in Slots : peerAt[q][t] = r => sent[q][t] = Quota(q)
  BY <1>1, AllForwarded
<1> QED
  BY <1>2, <1>3, <1>4, <1>5, <1>6

\* Nothing is on its way to a receiver whose process is finished, although it
\* joins its own threads only (client.c:207-220): the sender has written its last
\* segment for it, every peer has forwarded all of its own to it, and nothing is
\* left unread on its connections.  Crashes do not change that, nor do readers
\* that start on the wrong connection.  An empty file whose copy cannot be opened
\* is the exception: a receiver ends before its segment has come.
THEOREM DoneIsQuietCorrect ==
  ASSUME CopyIsNeeded
  PROVE  Spec => []DoneIsQuiet
<1>1. EndInv => DoneIsQuiet
  BY QuietWhenDone
<1> QED
  BY <1>1, EndInvInit, EndInvStep, PTL DEF Spec

-------------------------------------------------------------------------------
(* Nobody is killed by writing to a receiver that has finished. *)

NobodyKilled == \A p \in Procs : status[p] \notin {"crashed", "killed"}

\* Nothing fails but what the program itself causes.
Calm == Crashable = {} /\ CopyIsNeeded

LEMMA CalmStep ==
  ASSUME Calm, EndInv, NobodyKilled, [Next]_vars
  PROVE  NobodyKilled'
<1>0. TypeOK /\ LocalsOK
  BY DEF EndInv, TypeInv
<1> USE DEF senderVars, netVars, mainVars, readerVars, bufferVars, outputVars
<1>1. \A r \in Receivers : Gone(r) => status[r] = "done"
  BY Domains DEF NobodyKilled, Gone
<1>2. DoneIsQuiet
  BY QuietWhenDone DEF Calm
<1>3. ASSUME status' = status PROVE NobodyKilled'
  BY <1>3 DEF NobodyKilled
<1>4. ASSUME NEW p \in Procs, NEW how \in {"done", "wild"},
             status' = [status EXCEPT ![p] = how]
      PROVE  NobodyKilled'
  BY <1>0, <1>4 DEF NobodyKilled, TypeOK
<1>5. ASSUME SendSegment PROVE NobodyKilled'
  <2>1. sidx \in Segs /\ sidx \in sidx .. total_seg - 1
    BY <1>0, <1>5, Segmentation DEF SendSegment, MoreToSend, TypeOK, Segs
  <2>2. Target(sidx) \in Receivers
    BY <2>1, Dealing DEF Segs
  <2>3. ~ Gone(Target(sidx))
    BY <1>1, <1>2, <2>1, <2>2 DEF DoneIsQuiet
  <2> QED
    BY <1>3, <1>5, <2>3 DEF SendSegment
<1>6. ASSUME NEW r \in Receivers, NEW t \in Slots, ForwardSegment(r, t) PROVE NobodyKilled'
  <2>1. peerAt[r][t] \in Receivers
    BY PeersAreReceivers
  <2>2. /\ sent[r][t] < Len(own[r])
        /\ sent[r][t] \in Nat
        /\ Len(own[r]) \in Nat
        /\ Len(own[r]) <= Quota(r)
        /\ Quota(r) \in Nat
    BY <1>0, <1>6, Dealing DEF ForwardSegment, TypeOK, EndInv, DealInv, QuotaKept
  <2>3. sent[r][t] # Quota(r)
    BY <2>2
  <2>4. ~ Gone(peerAt[r][t])
    BY <1>1, <1>2, <2>1, <2>3 DEF DoneIsQuiet
  <2> QED
    BY <1>3, <1>6, <2>4 DEF ForwardSegment
<1>7. ASSUME SenderExit \/ Terminated \/ UNCHANGED vars PROVE NobodyKilled'
  BY <1>3, <1>4, <1>7, Domains DEF SenderExit, Terminated, vars
<1>8. ASSUME NEW r \in Receivers, MainThread(r) \/ FileWriter(r) PROVE NobodyKilled'
  BY <1>3, <1>4, <1>8, Domains
  DEF MainThread, FileWriter, CreatePeerThreads, NextPeer, RecvFromSender, PublishOwn,
      JoinAndFree, ReceiverExit, OpenFile, WriteSegment
<1>9. ASSUME NEW r \in Receivers, NEW t \in Slots, PeerThreads(r, t) PROVE NobodyKilled'
  <2>1. CASE ReadGarbage(r, t) \/ HeaderReset(r, t) \/ BodyReset(r, t)
    BY <1>3, <1>4, <2>1, Domains DEF ReadGarbage, HeaderReset, BodyReset
  <2> QED
    BY <1>3, <1>6, <1>9, <2>1
    DEF PeerThreads, StartReader, ReadHeader, StoreBody, FlagFromPeer, CountDown,
        UpdateRecvInfo
<1>10. ASSUME NEW p \in Procs, Crash(p) PROVE NobodyKilled'
  BY <1>10 DEF Crash, Calm
<1> QED
  BY <1>5, <1>7, <1>8, <1>9, <1>10 DEF Next, ProgramStep

\* Without a crash no process dies of SIGPIPE (no process of the program handles
\* it): whoever still has something to write to a receiver keeps it from
\* finishing, although receivers leave without a word to each other.
THEOREM NobodyKilledCorrect ==
  ASSUME Calm
  PROVE  Spec => []NobodyKilled
<1>1. Init => EndInv /\ NobodyKilled
  BY EndInvInit DEF Init, NobodyKilled
<1>2. EndInv /\ NobodyKilled /\ [Next]_vars => EndInv' /\ NobodyKilled'
  BY EndInvStep, CalmStep
<1> QED
  BY <1>1, <1>2, PTL DEF Spec

-------------------------------------------------------------------------------
(* The bytes of a set of segments. *)

\* The last segment has bytes: the file does not end on a segment boundary.
LastNotEmpty == FileSize % SegSize # 0

BytesIn(S) ==
  SegSize * Cardinality(S \ {total_seg - 1})
    + (IF total_seg - 1 \in S THEN FileSize % SegSize ELSE 0)

LEMMA SizeFacts ==
  /\ SegSize \in Nat \ {0} /\ FileSize \in Nat /\ FileSize % SegSize \in Nat
  /\ total_seg \in Nat \ {0} /\ total_seg - 1 \in Segs
  /\ FileSize = SegSize * (total_seg - 1) + (FileSize % SegSize)
  /\ \A k \in Segs : Size(k) = IF k = total_seg - 1 THEN FileSize % SegSize ELSE SegSize
<1>1. SegSize \in Nat \ {0} /\ FileSize \in Nat
  BY TransferAssumption
<1>2. FileSize % SegSize \in Nat /\ FileSize \div SegSize \in Nat
  BY <1>1, DivMod
<1>3. FileSize = SegSize * (FileSize \div SegSize) + (FileSize % SegSize)
  BY <1>1, Quotient
<1>4. total_seg \in Nat \ {0} /\ total_seg - 1 = FileSize \div SegSize
  BY <1>2 DEF total_seg
<1>5. total_seg - 1 \in Segs
  BY <1>4 DEF Segs
<1>6. \A k \in Segs : Size(k) = IF k = total_seg - 1 THEN FileSize % SegSize ELSE SegSize
  BY <1>4 DEF Segs, Size
<1> QED
  BY <1>1, <1>2, <1>3, <1>4, <1>5, <1>6

LEMMA SegsFinite ==
  /\ IsFiniteSet(Segs)
  /\ Cardinality(Segs) = total_seg
  /\ \A S \in SUBSET Segs : IsFiniteSet(S) /\ Cardinality(S) \in Nat
<1>1. IsFiniteSet(Segs) /\ Cardinality(Segs) = total_seg
  <2>1. total_seg \in Nat \ {0} /\ 0 \in Int /\ total_seg - 1 \in Int
    BY Segmentation
  <2>2. /\ IsFiniteSet(0 .. total_seg - 1)
        /\ Cardinality(0 .. total_seg - 1) =
             IF 0 > total_seg - 1 THEN 0 ELSE (total_seg - 1) - 0 + 1
    BY <2>1, FS_Interval
  <2> QED
    BY <2>1, <2>2 DEF Segs
<1>2. \A S \in SUBSET Segs : IsFiniteSet(S)
  BY <1>1, FS_Subset
<1> QED
  BY <1>1, <1>2, FS_CardinalityType

\* One more segment is as many bytes more.
LEMMA BytesAdd ==
  ASSUME NEW S \in SUBSET Segs, NEW k \in Segs \ S
  PROVE  BytesIn(S \cup {k}) = BytesIn(S) + Size(k) /\ BytesIn(S) \in Nat
<1> DEFINE last == total_seg - 1
           rem == FileSize % SegSize
           c == Cardinality(S \ {last})
<1>1. c \in Nat /\ IsFiniteSet(S \ {last})
  BY SegsFinite
<1>2. SegSize \in Nat \ {0} /\ rem \in Nat
  BY SizeFacts
<1>3. SegSize * c \in Nat /\ SegSize * (c + 1) = SegSize * c + SegSize
  BY <1>1, <1>2, Times
<1>4. BytesIn(S) = SegSize * c + (IF last \in S THEN rem ELSE 0)
  BY DEF BytesIn
<1>5. CASE k = last
  <2>1. (S \cup {k}) \ {last} = S \ {last}
    BY <1>5
  <2>2. BytesIn(S \cup {k}) = SegSize * c + rem
    BY <1>5, <2>1 DEF BytesIn
  <2>3. Size(k) = rem /\ last \notin S
    BY <1>5, SizeFacts
  <2> HIDE DEF c, rem, last
  <2> QED
    BY <1>2, <1>3, <1>4, <2>2, <2>3
<1>6. CASE k # last
  <2>1. (S \cup {k}) \ {last} = (S \ {last}) \cup {k} /\ k \notin S \ {last}
    BY <1>6
  <2>2. Cardinality((S \cup {k}) \ {last}) = c + 1
    BY <1>1, <2>1, FS_AddElement
  <2>3. last \in S \cup {k} <=> last \in S
    BY <1>6
  <2>4. BytesIn(S \cup {k}) = SegSize * (c + 1) + (IF last \in S THEN rem ELSE 0)
    BY <2>2, <2>3 DEF BytesIn
  <2>5. Size(k) = SegSize
    BY <1>6, SizeFacts
  <2> HIDE DEF c, rem, last
  <2> QED
    BY <1>2, <1>3, <1>4, <2>4, <2>5
<1> QED
  BY <1>5, <1>6

\* No set of segments has more bytes than the file ...
LEMMA BytesMost ==
  ASSUME NEW S \in SUBSET Segs
  PROVE  BytesIn(S) \in Nat /\ BytesIn(S) <= FileSize
<1> DEFINE last == total_seg - 1
           rem == FileSize % SegSize
           c == Cardinality(S \ {last})
<1>1. c \in Nat /\ c <= last
  <2>1. IsFiniteSet(Segs \ {last}) /\ Cardinality(Segs \ {last}) = total_seg - 1
    BY SegsFinite, SizeFacts, FS_RemoveElement
  <2>2. S \ {last} \in SUBSET (Segs \ {last})
    OBVIOUS
  <2>3. c <= Cardinality(Segs \ {last})
    BY <2>1, <2>2, FS_Subset
  <2>4. c \in Nat
    BY SegsFinite
  <2> QED
    BY <2>1, <2>3, <2>4
<1>2. /\ SegSize \in Nat \ {0} /\ rem \in Nat /\ last \in Nat
      /\ FileSize = SegSize * last + rem
  BY SizeFacts
<1>3. BytesIn(S) = SegSize * c + (IF last \in S THEN rem ELSE 0)
  BY DEF BytesIn
<1> HIDE DEF c, rem, last
<1>4. SegSize * c \in Nat /\ SegSize * last \in Nat /\ SegSize * c <= SegSize * last
  BY <1>1, <1>2, Times
<1> QED
  BY <1>2, <1>3, <1>4

\* ... and only all of them have as many, if each has some.
LEMMA BytesAll ==
  ASSUME LastNotEmpty, NEW S \in SUBSET Segs, BytesIn(S) >= FileSize
  PROVE  S = Segs
<1> SUFFICES ASSUME NEW k \in Segs \ S PROVE FALSE
  OBVIOUS
<1>1. S \cup {k} \in SUBSET Segs
  OBVIOUS
<1>2. BytesIn(S \cup {k}) <= FileSize
  BY <1>1, BytesMost
<1>3. BytesIn(S \cup {k}) = BytesIn(S) + Size(k) /\ BytesIn(S) \in Nat
  BY BytesAdd
<1>4. Size(k) \in Nat /\ Size(k) # 0 /\ FileSize \in Nat
  BY SizeFacts DEF LastNotEmpty
<1> QED
  BY <1>2, <1>3, <1>4

-------------------------------------------------------------------------------
(* remain_seg_num and the bytes received count every segment once. *)

\* Reader thread t has shown a segment and not yet counted all of it.
Counts(r, t) == rpc[r][t] \in {"count", "update"}

\* That segment is flagged, came from a peer, and no other thread counts it.
CountsOnce ==
  \A r \in Receivers, t \in Slots : Counts(r, t) =>
    /\ Target(rseq[r][t]) # r
    /\ flag[r][rseq[r][t]]
    /\ \A u \in Slots : Counts(r, u) /\ rseq[r][t] = rseq[r][u] => t = u

\* The segments from peers that no thread at pcs still has to count.
Counted(r, pcs) ==
  {k \in Segs : /\ Target(k) # r
                /\ flag[r][k]
                /\ \A t \in Slots : rpc[r][t] \in pcs => rseq[r][t] # k}

\* remain_seg_num is what is left to count, and readers that end find none.
RemainCounts ==
  \A r \in Receivers :
    /\ remain[r] = FromPeers(r) - Cardinality(Counted(r, {"count"}))
    /\ \A t \in Slots : rpc[r][t] = "end" => remain[r] <= 0

\* The segments from the sender: the last one is counted before it is flagged.
FromSender(r) ==
  {k \in Segs : /\ Target(k) = r
                /\ flag[r][k] \/ (main[r] = "publish" /\ mseq[r] = k)}

\* The segments whose bytes are in cur_size.
Added(r) == FromSender(r) \cup Counted(r, {"count", "update"})

\* The bytes received are never more than those of the segments added up (fewer
\* when an addition is lost), and the table is freed when they are as many as the
\* file's.
SizeCounts ==
  \A r \in Receivers :
    /\ curSize[r] <= BytesIn(Added(r))
    /\ main[r] = "freed" => curSize[r] >= FileSize

TallyInv == CountsOnce /\ RemainCounts /\ SizeCounts

\* A reader whose read() fails counts an empty segment twice.  It has none if the
\* file does not end on a segment boundary, and its read() does not fail if
\* nobody dies.
NoRecount == LastNotEmpty \/ Calm

LEMMA TallyInit == Init => TallyInv
<1> SUFFICES ASSUME Init PROVE TallyInv
  OBVIOUS
<1>1. CountsOnce
  BY DEF Init, CountsOnce, Counts
<1>2. \A r \in Receivers : Counted(r, {"count"}) = {} /\ Added(r) = {}
  BY DEF Init, Counted, Added, FromSender
<1>3. RemainCounts
  <2>1. \A r \in Receivers : FromPeers(r) \in Int
    BY Segmentation, Dealing DEF FromPeers
  <2>2. \A r \in Receivers : Cardinality(Counted(r, {"count"})) = 0
    BY <1>2, FS_EmptySet
  <2>3. \A r \in Receivers : remain[r] = FromPeers(r) /\ \A t \in Slots : rpc[r][t] # "end"
    BY DEF Init
  <2> QED
    BY <2>1, <2>2, <2>3 DEF RemainCounts
<1>4. BytesIn({}) = 0
  <2>1. {} \ {total_seg - 1} = {} /\ total_seg - 1 \notin {}
    OBVIOUS
  <2> QED
    BY <2>1, FS_EmptySet, SizeFacts DEF BytesIn
<1>5. SizeCounts
  <2>1. \A r \in Receivers : curSize[r] = 0 /\ main[r] # "freed" /\ BytesIn(Added(r)) = 0
    <3>1. \A r \in Receivers : BytesIn(Added(r)) = 0
      BY <1>2, <1>4, Zenon
    <3> QED
      BY <3>1 DEF Init
  <2> QED
    BY <2>1 DEF SizeCounts
<1> QED
  BY <1>1, <1>3, <1>5 DEF TallyInv

LEMMA CountedFinite ==
  ASSUME NEW r \in Receivers, NEW pcs
  PROVE  IsFiniteSet(Counted(r, pcs)) /\ Cardinality(Counted(r, pcs)) \in Nat
<1>1. Counted(r, pcs) \in SUBSET Segs
  BY DEF Counted
<1> QED
  BY <1>1, SegsFinite

\* Nothing changes of what is counted unless a thread comes to pcs or leaves it.
LEMMA CountedSame ==
  ASSUME NEW r \in Receivers, NEW pcs,
         \A k \in Segs : Target(k) # r => flag'[r][k] = flag[r][k],
         \A t \in Slots : rpc'[r][t] \in pcs <=> rpc[r][t] \in pcs,
         \A t \in Slots : rpc[r][t] \in pcs => rseq'[r][t] = rseq[r][t]
  PROVE  Counted(r, pcs)' = Counted(r, pcs)
  BY DEF Counted

\* The segment a thread takes out of pcs is counted from then on.
LEMMA CountedMore ==
  ASSUME NEW r \in Receivers, NEW t \in Slots, NEW pcs, NEW k \in Segs,
         TypeInv, CountsOnce, pcs \subseteq {"count", "update"},
         rpc[r][t] \in pcs, rseq[r][t] = k,
         rpc'[r][t] \notin pcs,
         \A u \in Slots : u # t => rpc'[r][u] = rpc[r][u],
         UNCHANGED <<flag, rseq>>
  PROVE  Counted(r, pcs)' = Counted(r, pcs) \cup {k} /\ k \notin Counted(r, pcs)
<1>1. Counts(r, t) /\ \A u \in Slots : rpc[r][u] \in pcs => Counts(r, u)
  BY DEF Counts
<1>2. Target(k) # r /\ flag[r][k]
  BY <1>1 DEF CountsOnce
<1>3. \A u \in Slots : u # t /\ rpc[r][u] \in pcs => rseq[r][u] # k
  BY <1>1 DEF CountsOnce
<1>4. k \notin Counted(r, pcs)
  BY DEF Counted
<1>5. Counted(r, pcs)' = {l \in Segs : /\ Target(l) # r
                                      /\ flag[r][l]
                                      /\ \A u \in Slots : rpc'[r][u] \in pcs => rseq[r][u] # l}
  BY DEF Counted
<1>6. \A l \in Segs :
        (\A u \in Slots : rpc'[r][u] \in pcs => rseq[r][u] # l)
          <=> l = k \/ (\A u \in Slots : rpc[r][u] \in pcs => rseq[r][u] # l)
  BY <1>3
<1>7. Counted(r, pcs)' = Counted(r, pcs) \cup {k}
  BY <1>2, <1>5, <1>6 DEF Counted
<1> QED
  BY <1>4, <1>7

\* Steps in which no receiver counts: what it decides by stays.
LEMMA TallyKeeps ==
  ASSUME TypeInv, TallyInv,
         UNCHANGED <<remain, curSize>>,
         \A r \in Receivers, k \in Segs : flag[r][k] => flag'[r][k],
         \A r \in Receivers, k \in Segs : Target(k) # r => flag'[r][k] = flag[r][k],
         \A r \in Receivers : FromSender(r)' = FromSender(r),
         \A r \in Receivers : main'[r] = "freed" => curSize[r] >= FileSize,
         \A r \in Receivers, t \in Slots :
           \/ rpc'[r][t] = rpc[r][t] /\ rseq'[r][t] = rseq[r][t]
           \/ ~ Counts(r, t) /\ ~ Counts(r, t)',
         \A r \in Receivers, t \in Slots :
           rpc'[r][t] = "end" => rpc[r][t] = "end" \/ remain[r] <= 0
  PROVE  TallyInv'
<1> USE DEF TallyInv
<1>1. \A r \in Receivers, t \in Slots :
        /\ Counts(r, t)' <=> Counts(r, t)
        /\ Counts(r, t) => rpc'[r][t] = rpc[r][t] /\ rseq'[r][t] = rseq[r][t]
  BY DEF Counts
<1>2. \A r \in Receivers, t \in Slots : Counts(r, t) => rseq[r][t] \in Segs
  BY DEF Counts, TypeInv, LocalsOK, InSegmentTable
<1>3. CountsOnce'
  BY <1>1, <1>2 DEF CountsOnce
<1>4. \A r \in Receivers :
        /\ Counted(r, {"count"})' = Counted(r, {"count"})
        /\ Counted(r, {"count", "update"})' = Counted(r, {"count", "update"})
  <2> SUFFICES ASSUME NEW r \in Receivers
               PROVE  /\ Counted(r, {"count"})' = Counted(r, {"count"})
                      /\ Counted(r, {"count", "update"})' = Counted(r, {"count", "update"})
    OBVIOUS
  <2>1. \A t \in Slots :
          /\ rpc'[r][t] \in {"count"} <=> rpc[r][t] \in {"count"}
          /\ rpc'[r][t] \in {"count", "update"} <=> rpc[r][t] \in {"count", "update"}
          /\ rpc[r][t] \in {"count", "update"} => rseq'[r][t] = rseq[r][t]
    BY <1>1 DEF Counts
  <2>2. \A k \in Segs : Target(k) # r => flag'[r][k] = flag[r][k]
    OBVIOUS
  <2>3. Counted(r, {"count"})' = Counted(r, {"count"})
    BY <2>1, <2>2, CountedSame
  <2>4. Counted(r, {"count", "update"})' = Counted(r, {"count", "update"})
    BY <2>1, <2>2, CountedSame
  <2> QED
    BY <2>3, <2>4
<1>5. RemainCounts'
  BY <1>4 DEF RemainCounts
<1>6. SizeCounts'
  <2>1. \A r \in Receivers : Added(r)' = Added(r)
    BY <1>4 DEF Added
  <2>2. \A r \in Receivers : BytesIn(Added(r))' = BytesIn(Added(r))
    BY <2>1 DEF BytesIn
  <2> QED
    BY <2>2 DEF SizeCounts
<1> QED
  BY <1>3, <1>5, <1>6

\* A peer's segment is shown before it is counted.
LEMMA TallyFlag ==
  ASSUME EndInv, TallyInv, NEW r \in Receivers, NEW t \in Slots, FlagFromPeer(r, t)
  PROVE  TallyInv'
<1> USE DEF TallyInv
<1>0. TypeOK /\ TypeInv /\ IInv
  BY DEF EndInv, TypeInv
<1>1. rpc[r][t] = "flag" /\ Holds(r, t)
  BY DEF FlagFromPeer, Holds
<1>2. PICK k \in Segs : k = rseq[r][t] /\ Target(k) # r /\ ~ flag[r][k]
  BY <1>0, <1>1, HolderFacts DEF EndInv, RelayInv, HeldFresh
<1>3. /\ rpc' = [rpc EXCEPT ![r][t] = "count"]
      /\ flag' = [flag EXCEPT ![r][k] = TRUE]
      /\ UNCHANGED <<rseq, remain, curSize, main, mseq>>
  BY <1>2 DEF FlagFromPeer, mainVars
<1>4. /\ rpc'[r][t] = "count"
      /\ \A q \in Receivers, u \in Slots : q # r \/ u # t => rpc'[q][u] = rpc[q][u]
      /\ flag'[r][k]
      /\ \A q \in Receivers, l \in Segs : q # r \/ l # k => flag'[q][l] = flag[q][l]
  BY <1>0, <1>3 DEF TypeOK
<1>5. \A q \in Receivers, u \in Slots : Counts(q, u) =>
        rseq[q][u] \in Segs /\ flag[q][rseq[q][u]] /\ (q # r \/ rseq[q][u] # k)
  BY <1>0, <1>2 DEF CountsOnce, Counts, TypeInv, LocalsOK, InSegmentTable
<1>6. /\ Counts(r, t)'
      /\ \A q \in Receivers, u \in Slots : q # r \/ u # t => (Counts(q, u)' <=> Counts(q, u))
  BY <1>4 DEF Counts
<1>7. CountsOnce'
  <2> SUFFICES ASSUME NEW q \in Receivers, NEW u \in Slots, Counts(q, u)'
               PROVE  /\ Target(rseq[q][u]) # q
                      /\ flag'[q][rseq[q][u]]
                      /\ \A v \in Slots : Counts(q, v)' /\ rseq[q][u] = rseq[q][v] => u = v
    BY <1>3 DEF CountsOnce
  <2>1. CASE q = r /\ u = t
    BY <1>2, <1>4, <1>5, <1>6, <2>1
  <2>2. CASE q # r \/ u # t
    <3>1. Counts(q, u)
      BY <1>6, <2>2
    <3>2. Target(rseq[q][u]) # q /\ flag[q][rseq[q][u]]
      BY <3>1 DEF CountsOnce
    <3>3. flag'[q][rseq[q][u]]
      BY <1>4, <1>5, <3>1, <3>2
    <3>4. \A v \in Slots : Counts(q, v)' /\ rseq[q][u] = rseq[q][v] => u = v
      BY <1>2, <1>5, <1>6, <3>1 DEF CountsOnce
    <3> QED
      BY <3>2, <3>3, <3>4
  <2> QED
    BY <2>1, <2>2
<1>8. ASSUME NEW q \in Receivers, NEW pcs, "count" \in pcs, "flag" \notin pcs
      PROVE  Counted(q, pcs)' = Counted(q, pcs)
  <2>1. CASE q # r
    BY <1>3, <1>4, <2>1, CountedSame
  <2>2. CASE q = r
    <3>1. k \notin Counted(r, pcs)' /\ k \notin Counted(r, pcs)
      BY <1>2, <1>3, <1>4, <1>8 DEF Counted
    <3>2. \A l \in Segs \ {k} : l \in Counted(r, pcs)' <=> l \in Counted(r, pcs)
      <4> SUFFICES ASSUME NEW l \in Segs \ {k}
                   PROVE  l \in Counted(r, pcs)' <=> l \in Counted(r, pcs)
        OBVIOUS
      <4>1. flag'[r][l] = flag[r][l]
        BY <1>4
      <4>2. \A u \in Slots : (rpc'[r][u] \in pcs => rseq[r][u] # l)
                                <=> (rpc[r][u] \in pcs => rseq[r][u] # l)
        BY <1>1, <1>2, <1>4, <1>8
      <4> QED
        BY <1>3, <4>1, <4>2 DEF Counted
    <3>3. Counted(r, pcs)' \subseteq Segs /\ Counted(r, pcs) \subseteq Segs
      BY DEF Counted
    <3> QED
      BY <2>2, <3>1, <3>2, <3>3
  <2> QED
    BY <2>1, <2>2
<1>9. RemainCounts'
  <2>1. \A q \in Receivers : Counted(q, {"count"})' = Counted(q, {"count"})
    BY <1>8
  <2>2. \A q \in Receivers, u \in Slots : rpc'[q][u] = "end" => rpc[q][u] = "end"
    BY <1>4
  <2> QED
    BY <1>3, <2>1, <2>2 DEF RemainCounts
<1>10. SizeCounts'
  <2>1. \A q \in Receivers :
          Counted(q, {"count", "update"})' = Counted(q, {"count", "update"})
    BY <1>8
  <2>2. \A q \in Receivers : FromSender(q)' = FromSender(q)
    BY <1>2, <1>3, <1>4 DEF FromSender
  <2>3. \A q \in Receivers : Added(q)' = Added(q)
    BY <2>1, <2>2 DEF Added
  <2>4. \A q \in Receivers : BytesIn(Added(q))' = BytesIn(Added(q))
    BY <2>3 DEF BytesIn
  <2> QED
    BY <1>3, <2>4 DEF SizeCounts
<1> QED
  BY <1>7, <1>9, <1>10

\* remain_seg_num goes down by the one segment that is counted.
LEMMA TallyCountDown ==
  ASSUME EndInv, TallyInv, NEW r \in Receivers, NEW t \in Slots, CountDown(r, t)
  PROVE  TallyInv'
<1> USE DEF TallyInv
<1>0. TypeOK /\ TypeInv
  BY DEF EndInv, TypeInv
<1>1. PICK k \in Segs : k = rseq[r][t] /\ rpc[r][t] = "count"
  BY <1>0 DEF CountDown, TypeInv, LocalsOK, InSegmentTable
<1>2. /\ rpc' = [rpc EXCEPT ![r][t] = "update"]
      /\ remain' = [remain EXCEPT ![r] = @ - 1]
      /\ UNCHANGED <<rseq, flag, curSize, main, mseq>>
  BY DEF CountDown, mainVars, bufferVars
<1>3. /\ rpc'[r][t] = "update"
      /\ \A q \in Receivers, u \in Slots : q # r \/ u # t => rpc'[q][u] = rpc[q][u]
      /\ remain'[r] = remain[r] - 1
      /\ \A q \in Receivers : q # r => remain'[q] = remain[q]
  BY <1>0, <1>2 DEF TypeOK
<1>4. \A q \in Receivers, u \in Slots : Counts(q, u)' <=> Counts(q, u)
  BY <1>1, <1>3 DEF Counts
<1>5. CountsOnce'
  BY <1>2, <1>4 DEF CountsOnce
<1>6. Counted(r, {"count"})' = Counted(r, {"count"}) \cup {k} /\ k \notin Counted(r, {"count"})
  BY <1>0, <1>1, <1>2, <1>3, CountedMore
<1>7. RemainCounts'
  <2> SUFFICES ASSUME NEW q \in Receivers
               PROVE  /\ remain'[q] = FromPeers(q) - Cardinality(Counted(q, {"count"})')
                      /\ \A u \in Slots : rpc'[q][u] = "end" => remain'[q] <= 0
    BY DEF RemainCounts, FromPeers, Quota, total_seg
  <2>1. CASE q = r
    <3> DEFINE c == Cardinality(Counted(r, {"count"}))
               f == FromPeers(r)
    <3>1. Cardinality(Counted(r, {"count"})') = c + 1 /\ c \in Nat
      BY <1>6, CountedFinite, FS_AddElement
    <3>2. f \in Int /\ remain[r] = f - c
      BY Segmentation, Dealing DEF FromPeers, RemainCounts
    <3>3. \A u \in Slots : rpc'[r][u] = "end" => remain[r] <= 0
      BY <1>3 DEF RemainCounts
    <3> HIDE DEF c, f
    <3>4. remain'[r] = f - (c + 1) /\ remain'[r] <= remain[r]
      BY <1>3, <3>1, <3>2
    <3> QED
      BY <1>3, <2>1, <3>1, <3>2, <3>3, <3>4 DEF f
  <2>2. CASE q # r
    <3>1. Counted(q, {"count"})' = Counted(q, {"count"})
      BY <1>2, <1>3, <2>2, CountedSame
    <3> QED
      BY <1>3, <2>2, <3>1 DEF RemainCounts
  <2> QED
    BY <2>1, <2>2
<1>8. SizeCounts'
  <2>1. \A q \in Receivers, u \in Slots :
          rpc'[q][u] \in {"count", "update"} <=> rpc[q][u] \in {"count", "update"}
    BY <1>4 DEF Counts
  <2>2. \A q \in Receivers :
          Counted(q, {"count", "update"})' = Counted(q, {"count", "update"})
    BY <1>2, <2>1, CountedSame
  <2>3. \A q \in Receivers : Added(q)' = Added(q)
    BY <1>2, <2>2 DEF Added, FromSender
  <2>4. \A q \in Receivers : BytesIn(Added(q))' = BytesIn(Added(q))
    BY <2>3 DEF BytesIn
  <2> QED
    BY <1>2, <2>4 DEF SizeCounts
<1> QED
  BY <1>5, <1>7, <1>8

\* The bytes of one more segment are added, or lost.
LEMMA SizeMore ==
  ASSUME SizeCounts, NEW r \in Receivers, NEW k \in Segs, k \notin Added(r),
         TypeOK,
         Added(r)' = Added(r) \cup {k},
         \A q \in Receivers : q # r => Added(q)' = Added(q),
         curSize' = [curSize EXCEPT ![r] = @ + Size(k)] \/ UNCHANGED curSize,
         \A q \in Receivers : main'[q] = "freed" => main[q] = "freed"
  PROVE  SizeCounts'
<1> SUFFICES ASSUME NEW q \in Receivers
             PROVE  /\ curSize'[q] <= BytesIn(Added(q)')
                    /\ main'[q] = "freed" => curSize'[q] >= FileSize
  BY DEF SizeCounts, BytesIn
<1>1. Added(r) \in SUBSET Segs
  BY DEF Added, FromSender, Counted
<1>2. BytesIn(Added(r) \cup {k}) = BytesIn(Added(r)) + Size(k)
  BY <1>1, BytesAdd
<1>3. Size(k) \in Nat /\ curSize[r] \in Nat /\ FileSize \in Nat
  BY Segmentation, TransferAssumption DEF TypeOK
<1>4. CASE q = r
  <2>1. curSize'[r] = curSize[r] + Size(k) \/ curSize'[r] = curSize[r]
    BY DEF TypeOK
  <2>2. curSize[r] <= BytesIn(Added(r)) /\ (main[r] = "freed" => curSize[r] >= FileSize)
    BY DEF SizeCounts
  <2>3. curSize'[r] <= BytesIn(Added(r)')
    <3>1. BytesIn(Added(r)') = BytesIn(Added(r)) + Size(k)
      BY <1>2
    <3>2. BytesIn(Added(r)) \in Nat
      BY <1>1, BytesMost
    <3> QED
      BY <1>3, <2>1, <2>2, <3>1, <3>2
  <2>4. main'[r] = "freed" => curSize'[r] >= FileSize
    BY <1>3, <2>1, <2>2
  <2> QED
    BY <1>4, <2>3, <2>4
<1>5. CASE q # r
  BY <1>5 DEF SizeCounts, TypeOK
<1> QED
  BY <1>4, <1>5

\* A reader adds the bytes of the segment it has counted, and ends if none is left.
LEMMA TallyUpdate ==
  ASSUME EndInv, TallyInv, NEW r \in Receivers, NEW t \in Slots, UpdateRecvInfo(r, t)
  PROVE  TallyInv'
<1> USE DEF TallyInv
<1>0. TypeOK /\ TypeInv
  BY DEF EndInv, TypeInv
<1>1. PICK k \in Segs : k = rseq[r][t] /\ rpc[r][t] = "update"
  BY <1>0 DEF UpdateRecvInfo, TypeInv, LocalsOK, InSegmentTable
<1>2. /\ rpc' = [rpc EXCEPT ![r][t] = IF remain[r] > 0 THEN "read" ELSE "end"]
      /\ curSize' = [curSize EXCEPT ![r] = @ + Size(k)] \/ UNCHANGED curSize
      /\ UNCHANGED <<rseq, flag, remain, main, mseq>>
  BY <1>1 DEF UpdateRecvInfo, mainVars, bufferVars
<1>3. /\ rpc'[r][t] = IF remain[r] > 0 THEN "read" ELSE "end"
      /\ \A q \in Receivers, u \in Slots : q # r \/ u # t => rpc'[q][u] = rpc[q][u]
      /\ remain[r] \in Int
  BY <1>0, <1>2 DEF TypeOK
<1>4. ~ Counts(r, t)' /\ \A q \in Receivers, u \in Slots : Counts(q, u)' => Counts(q, u)
  BY <1>1, <1>3 DEF Counts
<1>5. CountsOnce'
  BY <1>2, <1>4 DEF CountsOnce
<1>6. RemainCounts'
  <2>1. \A q \in Receivers, u \in Slots :
          rpc'[q][u] \in {"count"} <=> rpc[q][u] \in {"count"}
    BY <1>1, <1>3
  <2>2. \A q \in Receivers : Counted(q, {"count"})' = Counted(q, {"count"})
    BY <1>2, <2>1, CountedSame
  <2>3. \A q \in Receivers, u \in Slots :
          rpc'[q][u] = "end" => rpc[q][u] = "end" \/ remain[q] <= 0
    BY <1>3
  <2> QED
    BY <1>2, <2>2, <2>3 DEF RemainCounts
<1>7. SizeCounts'
  <2>1. /\ Counted(r, {"count", "update"})' = Counted(r, {"count", "update"}) \cup {k}
        /\ k \notin Counted(r, {"count", "update"})
    BY <1>0, <1>1, <1>2, <1>3, CountedMore
  <2>2. \A q \in Receivers : q # r =>
          Counted(q, {"count", "update"})' = Counted(q, {"count", "update"})
    BY <1>2, <1>3, CountedSame
  <2>3. \A q \in Receivers : FromSender(q)' = FromSender(q)
    BY <1>2 DEF FromSender
  <2>4. k \notin FromSender(r)
    BY <1>1 DEF FromSender, CountsOnce, Counts
  <2>5. k \notin Added(r)
    BY <2>1, <2>4 DEF Added
  <2>6. Added(r)' = Added(r) \cup {k}
    BY <2>1, <2>3 DEF Added
  <2>7. \A q \in Receivers : q # r => Added(q)' = Added(q)
    BY <2>2, <2>3 DEF Added
  <2> QED
    BY <1>0, <1>2, <2>5, <2>6, <2>7, SizeMore
<1> QED
  BY <1>5, <1>6, <1>7

\* So does the main thread, for a segment from the sender.
LEMMA TallyReceive ==
  ASSUME EndInv, TallyInv, NEW r \in Receivers, RecvFromSender(r)
  PROVE  TallyInv'
<1> USE DEF TallyInv
<1>0. TypeOK /\ TypeInv /\ LocalsOK
  BY DEF EndInv, TypeInv
<1>1. chan[Sender][r] \in Seq(Segs) /\ chan[Sender][r] # << >>
  BY <1>0 DEF LocalsOK, RecvFromSender
<1>2. PICK k \in Segs : k = Head(chan[Sender][r]) /\ In(k, chan[Sender][r])
  BY <1>1, HeadIn
<1>3. Target(k) = r /\ ~ flag[r][k]
  BY <1>2, WhereFrom DEF EndInv, DealInv, FromSenderFresh
<1>4. /\ main[r] = "recv"
      /\ main' = [main EXCEPT ![r] = "publish"]
      /\ mseq' = [mseq EXCEPT ![r] = k]
      /\ curSize' = [curSize EXCEPT ![r] = @ + Size(k)]
      /\ UNCHANGED <<rpc, rseq, remain, flag>>
  BY <1>2 DEF RecvFromSender, readerVars
<1>5. /\ main'[r] = "publish" /\ mseq'[r] = k
      /\ \A q \in Receivers : q # r => main'[q] = main[q] /\ mseq'[q] = mseq[q]
  BY <1>0, <1>4 DEF TypeOK
<1>6. CountsOnce' /\ RemainCounts'
  BY <1>4 DEF CountsOnce, Counts, RemainCounts, Counted
<1>7. \A q \in Receivers : Counted(q, {"count", "update"})' = Counted(q, {"count", "update"})
  BY <1>4 DEF Counted
<1>8. FromSender(r)' = FromSender(r) \cup {k} /\ k \notin FromSender(r)
  BY <1>3, <1>4, <1>5 DEF FromSender
<1>9. \A q \in Receivers : q # r => FromSender(q)' = FromSender(q)
  BY <1>4, <1>5 DEF FromSender
<1>10. k \notin Added(r)
  BY <1>3, <1>8 DEF Added, Counted
<1>11. Added(r)' = Added(r) \cup {k}
  BY <1>7, <1>8 DEF Added
<1>12. \A q \in Receivers : q # r => Added(q)' = Added(q)
  BY <1>7, <1>9 DEF Added
<1>13. \A q \in Receivers : main'[q] = "freed" => main[q] = "freed"
  BY <1>5
<1>14. SizeCounts'
  BY <1>0, <1>4, <1>10, <1>11, <1>12, <1>13, SizeMore
<1> QED
  BY <1>6, <1>14

\* No reader counts a segment again.
LEMMA NoHeaderRecount ==
  ASSUME NoRecount, EndInv, Calm => NobodyKilled,
         NEW r \in Receivers, NEW t \in Slots, HeaderReset(r, t)
  PROVE  rpc' = rpc \/ rpc' = [rpc EXCEPT ![r][t] = "astray"]
<1>0. TypeOK /\ LocalsOK
  BY DEF EndInv, TypeInv
<1>1. CASE LastNotEmpty
  <2>1. \A k \in Segs : Size(k) # 0
    BY <1>1, SizeFacts DEF LastNotEmpty
  <2>2. rseq[r][t] \in Segs \cup {NoData}
    BY <1>0 DEF TypeOK
  <2> QED
    BY <2>1, <2>2 DEF HeaderReset
<1>2. CASE Calm
  <2>1. PICK s \in Receivers : s = Source(r, t)
    BY <1>0, PeersAreReceivers DEF HeaderReset, LocalsOK, Source
  <2>2. Gone(s) /\ chan[r][s] # << >>
    BY <2>1 DEF HeaderReset, Reset
  <2>3. status[s] = "done"
    BY <1>2, <2>2, Domains DEF NobodyKilled, Gone
  <2>4. chan[r][s] = << >>
    BY <1>2, <2>3, QuietWhenDone, Domains DEF Calm, DoneIsQuiet
  <2> QED
    BY <2>2, <2>4
<1> QED
  BY <1>1, <1>2 DEF NoRecount

LEMMA TallyStep ==
  ASSUME NoRecount, EndInv, Calm => NobodyKilled, TallyInv, [Next]_vars
  PROVE  TallyInv'
<1>0. TypeInv /\ TypeOK /\ LocalsOK
  BY DEF EndInv, TypeInv
<1> USE DEF senderVars, netVars, mainVars, readerVars, bufferVars, outputVars
<1>a. \A r \in Receivers : main[r] = "freed" => curSize[r] >= FileSize
  BY DEF TallyInv, SizeCounts
\* Steps that touch nothing of what is counted.
<1>1. ASSUME UNCHANGED <<remain, curSize, rpc, rseq>>,
             \A r \in Receivers, k \in Segs : flag[r][k] => flag'[r][k],
             \A r \in Receivers, k \in Segs : Target(k) # r => flag'[r][k] = flag[r][k],
             \A r \in Receivers : FromSender(r)' = FromSender(r),
             \A r \in Receivers : main'[r] = "freed" => curSize[r] >= FileSize
      PROVE  TallyInv'
  <2>1. \A r \in Receivers, t \in Slots :
          \/ rpc'[r][t] = rpc[r][t] /\ rseq'[r][t] = rseq[r][t]
          \/ ~ Counts(r, t) /\ ~ Counts(r, t)'
    BY <1>1
  <2>2. \A r \in Receivers, t \in Slots :
          rpc'[r][t] = "end" => rpc[r][t] = "end" \/ remain[r] <= 0
    BY <1>1
  <2>3. UNCHANGED <<remain, curSize>>
    BY <1>1
  <2> QED
    BY <1>0, <1>1, <2>1, <2>2, <2>3, TallyKeeps
<1>2. ASSUME UNCHANGED <<remain, curSize, flag, rpc, rseq, main, mseq>> PROVE TallyInv'
  <2>1. \A r \in Receivers : FromSender(r)' = FromSender(r)
    BY <1>2 DEF FromSender
  <2> QED
    BY <1>a, <1>1, <1>2, <2>1
\* Steps of a reader that is not counting.
<1>3. ASSUME NEW r \in Receivers, NEW t \in Slots,
             UNCHANGED <<remain, curSize, flag>>,
             \A q \in Receivers : FromSender(q)' = FromSender(q),
             \A q \in Receivers : main'[q] = "freed" => main[q] = "freed",
             ~ Counts(r, t),
             NEW pc \in ReaderStates \ {"count", "update"},
             rpc' = [rpc EXCEPT ![r][t] = pc],
             pc = "end" => remain[r] <= 0,
             \A q \in Receivers, u \in Slots : q # r \/ u # t => rseq'[q][u] = rseq[q][u]
      PROVE  TallyInv'
  <2>1. /\ rpc'[r][t] = pc
        /\ \A q \in Receivers, u \in Slots : q # r \/ u # t => rpc'[q][u] = rpc[q][u]
    BY <1>0, <1>3 DEF TypeOK
  <2>2. \A q \in Receivers, u \in Slots : q # r \/ u # t => rseq'[q][u] = rseq[q][u]
    BY <1>3
  <2>3. ~ Counts(r, t)'
    BY <1>3, <2>1 DEF Counts
  <2>4. \A q \in Receivers, u \in Slots :
          \/ rpc'[q][u] = rpc[q][u] /\ rseq'[q][u] = rseq[q][u]
          \/ ~ Counts(q, u) /\ ~ Counts(q, u)'
    BY <1>3, <2>1, <2>2, <2>3
  <2>5. \A q \in Receivers, u \in Slots :
          rpc'[q][u] = "end" => rpc[q][u] = "end" \/ remain[q] <= 0
    BY <1>3, <2>1
  <2>6. /\ \A q \in Receivers, k \in Segs : flag[q][k] => flag'[q][k]
        /\ \A q \in Receivers, k \in Segs : Target(k) # q => flag'[q][k] = flag[q][k]
        /\ \A q \in Receivers : main'[q] = "freed" => curSize[q] >= FileSize
    BY <1>3, <1>a
  <2>7. UNCHANGED <<remain, curSize>>
    BY <1>3
  <2> QED
    BY <1>0, <1>3, <2>4, <2>5, <2>6, <2>7, TallyKeeps
<1>4. ASSUME \/ SendSegment \/ SenderExit \/ Terminated \/ UNCHANGED vars
             \/ \E p \in Procs : Crash(p)
      PROVE  TallyInv'
  BY <1>2, <1>4 DEF SendSegment, SenderExit, Terminated, vars, Crash
<1>5. ASSUME NEW r \in Receivers, MainThread(r) PROVE TallyInv'
  <2>1. CASE RecvFromSender(r)
    BY <2>1, TallyReceive
  <2>2. CASE CreatePeerThreads(r)
    <3>1. ivar[r] \in Slots /\ ivar[r] <= ivar[r] /\ main[r] = "create"
      BY <1>0, <2>2, NNat DEF CreatePeerThreads, LocalsOK, Slots
    <3>2. ~ Counts(r, ivar[r])
      BY <3>1 DEF EndInv, NotBorn, Counts
    <3>3. UNCHANGED <<remain, curSize, flag, mseq, rseq>>
      BY <2>2 DEF CreatePeerThreads
    <3>4. \A q \in Receivers : main'[q] = main[q] \/ (main[q] = "create" /\ main'[q] = "next")
      BY <1>0, <2>2 DEF CreatePeerThreads, TypeOK
    <3>5. \A q \in Receivers : FromSender(q)' = FromSender(q)
      BY <3>3, <3>4 DEF FromSender
    <3>6. \A q \in Receivers : main'[q] = "freed" => main[q] = "freed"
      BY <3>4
    <3>7. PICK t \in Slots : t = ivar[r]
      BY <3>1
    <3>8. rpc' = [rpc EXCEPT ![r][t] = "born"] /\ ~ Counts(r, t)
      BY <2>2, <3>2, <3>7 DEF CreatePeerThreads
    <3>9. "born" \in ReaderStates \ {"count", "update"} /\ "born" # "end"
      BY DEF ReaderStates
    <3> QED
      BY <1>3, <3>3, <3>5, <3>6, <3>8, <3>9
  <2>3. CASE PublishOwn(r)
    <3>1. mseq[r] \in Segs /\ Target(mseq[r]) = r /\ main[r] = "publish"
      BY <1>0, <2>3 DEF PublishOwn, LocalsOK, EndInv, IInv, PublishOK
    <3>2. /\ flag'[r][mseq[r]]
          /\ \A q \in Receivers, k \in Segs :
               q # r \/ k # mseq[r] => flag'[q][k] = flag[q][k]
      BY <1>0, <2>3, <3>1 DEF PublishOwn, TypeOK
    <3>3. /\ main'[r] = "recv"
          /\ \A q \in Receivers : q # r => main'[q] = main[q]
      BY <1>0, <2>3 DEF PublishOwn, TypeOK
    <3>4. UNCHANGED <<remain, curSize, rpc, rseq, mseq>>
      BY <2>3 DEF PublishOwn
    <3>5. \A q \in Receivers : FromSender(q)' = FromSender(q)
      <4> SUFFICES ASSUME NEW q \in Receivers PROVE FromSender(q)' = FromSender(q)
        OBVIOUS
      <4>1. CASE q = r
        BY <3>1, <3>2, <3>3, <3>4, <4>1 DEF FromSender
      <4>2. CASE q # r
        BY <3>2, <3>3, <3>4, <4>2 DEF FromSender
      <4> QED
        BY <4>1, <4>2
    <3>6. \A q \in Receivers, k \in Segs : Target(k) # q => flag'[q][k] = flag[q][k]
      BY <3>1, <3>2
    <3>7. \A q \in Receivers, k \in Segs : flag[q][k] => flag'[q][k]
      BY <3>2
    <3>8. \A q \in Receivers : main'[q] = "freed" => curSize[q] >= FileSize
      BY <1>a, <3>3
    <3> QED
      BY <1>1, <3>4, <3>5, <3>6, <3>7, <3>8
  <2>4. CASE NextPeer(r) \/ JoinAndFree(r)
    <3>1. UNCHANGED <<remain, curSize, flag, rpc, rseq, mseq>>
      BY <2>4 DEF NextPeer, JoinAndFree
    <3>2. /\ main'[r] # "publish" /\ main[r] # "publish"
          /\ \A q \in Receivers : q # r => main'[q] = main[q]
      BY <1>0, <2>4 DEF NextPeer, JoinAndFree, TypeOK
    <3>3. \A q \in Receivers : FromSender(q)' = FromSender(q)
      BY <3>1, <3>2 DEF FromSender
    <3>4. main'[r] = "freed" => curSize[r] >= FileSize
      BY <1>0, <2>4 DEF NextPeer, JoinAndFree, Joined, ConsoleEnded, TypeOK
    <3>5. \A q \in Receivers : main'[q] = "freed" => curSize[q] >= FileSize
      BY <1>a, <3>2, <3>4
    <3> QED
      BY <1>1, <3>1, <3>3, <3>5
  <2>5. CASE ReceiverExit(r)
    BY <1>2, <2>5 DEF ReceiverExit
  <2> QED
    BY <1>5, <2>1, <2>2, <2>3, <2>4, <2>5 DEF MainThread
<1>6. ASSUME NEW r \in Receivers, FileWriter(r) PROVE TallyInv'
  BY <1>2, <1>6 DEF FileWriter, OpenFile, WriteSegment
<1>7. ASSUME NEW r \in Receivers, NEW t \in Slots, PeerThreads(r, t) PROVE TallyInv'
  <2>a. UNCHANGED <<main, mseq>>
    BY <1>7
    DEF PeerThreads, StartReader, ReadHeader, ReadGarbage, StoreBody, HeaderReset,
        BodyReset, FlagFromPeer, CountDown, UpdateRecvInfo, ForwardSegment
  <2>b. ASSUME UNCHANGED <<remain, curSize, flag>>, ~ Counts(r, t),
               NEW pc \in ReaderStates \ {"count", "update"},
               rpc' = [rpc EXCEPT ![r][t] = pc],
               pc = "end" => remain[r] <= 0,
               \A q \in Receivers, u \in Slots : q # r \/ u # t => rseq'[q][u] = rseq[q][u]
        PROVE  TallyInv'
    <3>1. \A q \in Receivers : FromSender(q)' = FromSender(q)
      BY <2>a, <2>b DEF FromSender
    <3> QED
      BY <1>3, <2>a, <2>b, <3>1
  <2>1. CASE StartReader(r, t)
    <3>1. PICK pc \in {"read", "astray", "end"} :
            rpc' = [rpc EXCEPT ![r][t] = pc] /\ (pc = "end" => remain[r] <= 0)
      BY <2>1 DEF StartReader
    <3>2. UNCHANGED <<remain, curSize, flag, rseq>> /\ ~ Counts(r, t)
      BY <2>1 DEF StartReader, Counts
    <3>3. pc \in ReaderStates \ {"count", "update"}
      BY DEF ReaderStates
    <3> QED
      BY <2>b, <3>1, <3>2, <3>3
  <2>2. CASE ReadHeader(r, t)
    <3>1. PICK pc \in {"body"} : rpc' = [rpc EXCEPT ![r][t] = pc] /\ pc # "end"
      BY <2>2 DEF ReadHeader
    <3>4. UNCHANGED <<remain, curSize, flag>> /\ ~ Counts(r, t)
      BY <2>2 DEF ReadHeader, Counts
    <3>2. \A q \in Receivers, u \in Slots : q # r \/ u # t => rseq'[q][u] = rseq[q][u]
      BY <1>0, <2>2 DEF ReadHeader, TypeOK
    <3>3. pc \in ReaderStates \ {"count", "update"}
      BY DEF ReaderStates
    <3> QED
      BY <2>b, <3>1, <3>2, <3>3, <3>4
  <2>3. CASE StoreBody(r, t)
    <3>1. PICK pc \in {"flag"} : rpc' = [rpc EXCEPT ![r][t] = pc] /\ pc # "end"
      BY <2>3 DEF StoreBody
    <3>2. UNCHANGED <<remain, curSize, flag, rseq>> /\ ~ Counts(r, t)
      BY <2>3 DEF StoreBody, Counts
    <3>3. pc \in ReaderStates \ {"count", "update"}
      BY DEF ReaderStates
    <3> QED
      BY <2>b, <3>1, <3>2, <3>3
  <2>4. CASE HeaderReset(r, t)
    <3>1. CASE rpc' = rpc
      BY <1>2, <2>4, <3>1 DEF HeaderReset
    <3>2. CASE rpc' = [rpc EXCEPT ![r][t] = "astray"]
      BY <2>b, <2>4, <3>2 DEF HeaderReset, ReaderStates, Counts
    <3> QED
      BY <2>4, <3>1, <3>2, NoHeaderRecount
  <2>5. CASE FlagFromPeer(r, t)
    BY <2>5, TallyFlag
  <2>6. CASE CountDown(r, t)
    BY <2>6, TallyCountDown
  <2>7. CASE UpdateRecvInfo(r, t)
    BY <2>7, TallyUpdate
  <2>8. CASE ReadGarbage(r, t) \/ BodyReset(r, t) \/ ForwardSegment(r, t)
    BY <1>2, <2>8 DEF ReadGarbage, BodyReset, ForwardSegment
  <2> QED
    BY <1>7, <2>1, <2>2, <2>3, <2>4, <2>5, <2>6, <2>7, <2>8 DEF PeerThreads
<1> QED
  BY <1>4, <1>5, <1>6, <1>7 DEF Next, ProgramStep

-------------------------------------------------------------------------------
(* What the counts decide: when a reader leaves its loop and when the table is *)
(* freed.                                                                      *)

\* When remain_seg_num has run out every segment of the peers is shown.
LEMMA NoneRemains ==
  ASSUME EndInv, TallyInv, NEW r \in Receivers, NEW t \in Slots, rpc[r][t] = "end"
  PROVE  \A k \in Segs : Target(k) # r => flag[r][k]
<1> DEFINE C == Counted(r, {"count"})
           P == Segs \ Dealt(r)
<1>1. IsFiniteSet(P) /\ Cardinality(P) = total_seg - Cardinality(Segs \cap Dealt(r))
  BY SegsFinite, DealtCount, FS_Difference
<1>2. Segs \cap Dealt(r) = Dealt(r)
  BY DEF Dealt
<1>3. Cardinality(P) = FromPeers(r) /\ FromPeers(r) \in Int
  BY <1>1, <1>2, DealtCount, Segmentation, Dealing DEF FromPeers
<1>4. FromPeers(r) - Cardinality(C) <= 0 /\ Cardinality(C) \in Nat
  BY CountedFinite DEF TallyInv, RemainCounts
<1>5. C \in SUBSET P
  BY DEF Counted, Dealt
<1>6. Cardinality(C) <= Cardinality(P) /\ (Cardinality(C) = Cardinality(P) => C = P)
  BY <1>1, <1>5, FS_Subset
<1> HIDE DEF C
<1>7. C = P
  BY <1>3, <1>4, <1>6
<1> QED
  BY <1>7 DEF C, Counted, Dealt

\* When the bytes are all there no thread has a segment left to show or to count.
LEMMA NoneHeld ==
  ASSUME LastNotEmpty, EndInv, TallyInv, NEW r \in Receivers, main[r] = "freed",
         NEW t \in Slots
  PROVE  rpc[r][t] \notin InSegmentTable
<1>1. Added(r) \in SUBSET Segs /\ BytesIn(Added(r)) >= FileSize
  <2>1. Added(r) \in SUBSET Segs
    BY DEF Added, FromSender, Counted
  <2>2. FileSize <= curSize[r] /\ curSize[r] <= BytesIn(Added(r))
    BY DEF TallyInv, SizeCounts
  <2>3. curSize[r] \in Nat /\ FileSize \in Nat
    BY TransferAssumption DEF EndInv, TypeInv, TypeOK
  <2> QED
    BY <2>1, <2>2, <2>3, BytesMost
<1>2. Added(r) = Segs
  BY <1>1, BytesAll
<1>3. ASSUME Holds(r, t) PROVE FALSE
  <2>1. rseq[r][t] \in Segs /\ ~ flag[r][rseq[r][t]]
    BY <1>3, HolderFacts DEF EndInv, RelayInv, HeldFresh
  <2>2. rseq[r][t] \notin Added(r)
    BY <2>1 DEF Added, FromSender, Counted
  <2> QED
    BY <1>2, <2>1, <2>2
<1>4. ASSUME Counts(r, t) PROVE FALSE
  <2>1. rseq[r][t] \in Segs /\ Target(rseq[r][t]) # r
    BY <1>4 DEF Counts, TallyInv, CountsOnce, EndInv, TypeInv, LocalsOK, InSegmentTable
  <2>2. rseq[r][t] \notin Added(r)
    BY <1>4, <2>1 DEF Added, FromSender, Counted, Counts
  <2> QED
    BY <1>2, <2>1, <2>2
<1> QED
  BY <1>3, <1>4 DEF Holds, Counts, InSegmentTable

\* The invariant behind both.
TallyEnd == EndInv /\ (Calm => NobodyKilled) /\ TallyInv

LEMMA TallyEndInit == Init => TallyEnd
  BY EndInvInit, TallyInit DEF TallyEnd, Init, NobodyKilled

LEMMA TallyEndStep ==
  ASSUME NoRecount
  PROVE  TallyEnd /\ [Next]_vars => TallyEnd'
<1> SUFFICES ASSUME TallyEnd, [Next]_vars PROVE TallyEnd'
  OBVIOUS
<1> USE DEF TallyEnd
<1>1. EndInv'
  BY EndInvStep
<1>2. Calm => NobodyKilled'
  BY CalmStep
<1>3. TallyInv'
  BY TallyStep
<1>4. (Calm => NobodyKilled)'
  BY <1>2 DEF Calm, CopyIsNeeded
<1> QED
  BY <1>1, <1>3, <1>4

\* remain_seg_num, which the reader threads of a receiver count down together and
\* test without its mutex (client.c:339-352), never runs out while a segment of a
\* peer is still to come, whatever the schedule and with readers on each other's
\* connections.  A reader whose read() fails counts its last segment again if
\* that is empty: therefore either no segment is, or nobody crashes.
THEOREM ReadersEndLastCorrect ==
  ASSUME NoRecount
  PROVE  Spec => []ReadersEndLast
<1>1. TallyEnd => ReadersEndLast
  BY NoneRemains DEF TallyEnd, ReadersEndLast
<1> QED
  BY <1>1, TallyEndInit, TallyEndStep, PTL DEF Spec

\* The segment table is freed while detached reader threads are alive, but never
\* under one that still stores, flags or counts a segment: the bytes the progress
\* thread waits for (client.c:207-220, 443) cannot all be there before.  That
\* needs every segment to have bytes.
THEOREM NoUseAfterFreeCorrect ==
  ASSUME LastNotEmpty
  PROVE  Spec => []NoUseAfterFree
<1>1. TallyEnd => NoUseAfterFree
  BY NoneHeld DEF TallyEnd, NoUseAfterFree
<1>2. NoRecount
  BY DEF NoRecount
<1> QED
  BY <1>1, <1>2, TallyEndInit, TallyEndStep, PTL DEF Spec

===============================================================================
