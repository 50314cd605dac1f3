------------------------------ MODULE Mesh_proofs ------------------------------
(***************************************************************************)
(* What TLAPS proves about Mesh, for any number of receivers and any       *)
(* schedule, whether connections fail or not.                              *)
(***************************************************************************)
EXTENDS Mesh, FiniteSetTheorems, TLAPS

\* No two positions of s hold the same.
Distinct(s) == \A i, j \in 1 .. Len(s) : s[i] = s[j] => i = j

\* r is somewhere in s.
In(r, s) == \E i \in 1 .. Len(s) : s[i] = r

\* The program counters of a connecting thread that has been connected.
Linked == {"connected", "counted", "done"}

-------------------------------------------------------------------------------
(* The order in which the sender accepts the receivers. *)

\* The types of what the order rests on.
OrderTypes ==
  /\ pending \in Seq(Receivers)
  /\ clnt_socks \in Seq(Receivers)
  /\ announced \in Nat
  /\ joined \in Nat
  /\ main \in [Receivers -> {"boot", "listening", "registered", "connecting",
                             "joining", "reported", "ready"}]
  /\ told \in [Receivers -> Nat]
  /\ conn \in [Receivers -> [Receivers -> {"none", "connect", "failed"} \cup Linked]]

\* A receiver registers once, so it is accepted once.
AcceptedOnce ==
  /\ Distinct(pending)
  /\ Distinct(clnt_socks)
  /\ \A r \in Receivers : ~ (In(r, pending) /\ In(r, clnt_socks))
  /\ \A r \in Receivers : main[r] \in {"boot", "listening"} =>
       ~ In(r, pending) /\ ~ In(r, clnt_socks)

\* Nobody is told anything before all are accepted.
ToldLast ==
  /\ Len(clnt_socks) <= N
  /\ announced <= Len(clnt_socks)
  /\ announced > 0 => Len(clnt_socks) = N
  /\ \A r \in Receivers : main[r] \in {"connecting", "joining", "reported", "ready"} =>
       Announced(r)

\* A receiver only connects to those that were accepted after it, and of these
\* to the first it has been told.
ConnectsForward ==
  \A r, q \in Receivers : conn[r][q] # "none" =>
    /\ Len(clnt_socks) = N
    /\ \E i, j \in 1 .. N : /\ i < j
                            /\ j <= i + told[r]
                            /\ clnt_socks[i] = r
                            /\ clnt_socks[j] = q

Order == OrderTypes /\ AcceptedOnce /\ ToldLast /\ ConnectsForward

\* There are finitely many receivers, at least one.
LEMMA NNat == N \in Nat \ {0}
  BY MeshAssumption, FS_CardinalityType, FS_EmptySet DEF N

LEMMA AppendDistinct ==
  ASSUME NEW S, NEW s \in Seq(S), NEW x \in S, Distinct(s), ~ In(x, s)
  PROVE  Distinct(Append(s, x))
  BY DEF Distinct, In

LEMMA AppendIn ==
  ASSUME NEW S, NEW s \in Seq(S), NEW x \in S, NEW r
  PROVE  In(r, Append(s, x)) <=> In(r, s) \/ r = x
  BY DEF In

LEMMA TailDistinct ==
  ASSUME NEW S, NEW s \in Seq(S), s # << >>, Distinct(s)
  PROVE  /\ Distinct(Tail(s))
         /\ \A r : In(r, Tail(s)) => In(r, s) /\ r # Head(s)
  BY DEF Distinct, In

LEMMA HeadIn ==
  ASSUME NEW S, NEW s \in Seq(S), s # << >>
  PROVE  Head(s) \in S /\ In(Head(s), s) /\ Tail(s) \in Seq(S)
  BY DEF In

LEMMA OrderInit == Init => Order
<1> SUFFICES ASSUME Init PROVE Order
  OBVIOUS
<1>1. OrderTypes
  BY DEF Init, OrderTypes
<1>2. AcceptedOnce
  BY DEF Init, AcceptedOnce, Distinct, In
<1>3. ToldLast
  BY NNat DEF Init, ToldLast
<1>4. ConnectsForward
  BY DEF Init, ConnectsForward
<1> QED
  BY <1>1, <1>2, <1>3, <1>4 DEF Order

\* Announced(r) is not lost.
LEMMA AnnouncedKept ==
  ASSUME Order, clnt_socks' = clnt_socks, announced' \in {announced, announced + 1},
         NEW r, Announced(r)
  PROVE  Announced(r)'
  BY DEF Order, OrderTypes, Announced

LEMMA OrderSender ==
  ASSUME Order, SenderStep PROVE Order'
<1> USE DEF Order
<1>1. CASE AcceptReceiver
  <2>0. announced = 0 /\ announced' = 0 /\ clnt_socks' = Append(clnt_socks, Head(pending))
    BY <1>1 DEF AcceptReceiver, ToldLast, OrderTypes
  <2>1. OrderTypes'
    BY <1>1, <2>0, HeadIn DEF AcceptReceiver, OrderTypes
  <2>2. AcceptedOnce'
    BY <1>1, <2>0, HeadIn, TailDistinct, AppendDistinct, AppendIn
    DEF AcceptReceiver, OrderTypes, AcceptedOnce
  <2>3. ToldLast'
    BY <1>1, <2>0, NNat, HeadIn DEF AcceptReceiver, OrderTypes, ToldLast, Announced
  <2>4. ConnectsForward'
    BY <1>1, NNat DEF AcceptReceiver, ConnectsForward, OrderTypes
  <2> QED
    BY <2>1, <2>2, <2>3, <2>4
<1>2. CASE Announce
  <2>1. OrderTypes' /\ AcceptedOnce' /\ ConnectsForward'
    BY <1>2 DEF Announce, OrderTypes, AcceptedOnce, ConnectsForward
  <2>2. ToldLast'
    BY <1>2, NNat, AnnouncedKept DEF Announce, OrderTypes, ToldLast
  <2> QED
    BY <2>1, <2>2
<1>3. CASE JoinReceiver
  BY <1>3 DEF JoinReceiver, OrderTypes, AcceptedOnce, ToldLast, ConnectsForward, Announced
<1> QED
  BY <1>1, <1>2, <1>3 DEF SenderStep

\* A receiver that is somewhere in clnt_socks is at the position after its id.
LEMMA IdIsPlace ==
  ASSUME NEW r, In(r, clnt_socks), clnt_socks \in Seq(Receivers)
  PROVE  Id(r) + 1 \in 1 .. Len(clnt_socks) /\ clnt_socks[Id(r) + 1] = r
<1> DEFINE i == CHOOSE i \in 1 .. Len(clnt_socks) : clnt_socks[i] = r
<1>1. i \in 1 .. Len(clnt_socks) /\ clnt_socks[i] = r
  BY DEF In
<1>2. Id(r) = i - 1
  BY DEF Id
<1> HIDE DEF i
<1> QED
  BY <1>1, <1>2

\* The address of a later receiver is that of one that was accepted later.
LEMMA AddressIsLater ==
  ASSUME Order, NEW r \in Receivers, main[r] = "connecting", told[r] < ToConnect(r)
  PROVE  /\ Address(r, told[r] + 1) \in Receivers
         /\ Len(clnt_socks) = N
         /\ \E i, j \in 1 .. N : /\ j = i + told[r] + 1
                                 /\ clnt_socks[i] = r
                                 /\ clnt_socks[j] = Address(r, told[r] + 1)
<1> USE NNat DEF Order, OrderTypes
<1>1. Len(clnt_socks) = N /\ In(r, clnt_socks)
  BY DEF ToldLast, Announced, In
<1>2. Id(r) + 1 \in 1 .. N /\ clnt_socks[Id(r) + 1] = r /\ Id(r) \in Nat
  <2>1. Id(r) + 1 \in 1 .. N /\ clnt_socks[Id(r) + 1] = r
    BY <1>1, IdIsPlace
  <2>2. Id(r) \in Int
    <3>1. PICK i \in 1 .. N : clnt_socks[i] = r
      BY <1>1 DEF In
    <3>2. (CHOOSE j \in 1 .. Len(clnt_socks) : clnt_socks[j] = r) \in 1 .. N
      BY <1>1, <3>1
    <3> QED
      BY <3>2 DEF Id
  <2> QED
    BY <2>1, <2>2
<1> DEFINE j == Id(r) + 1 + (told[r] + 1)
<1>3. j \in 1 .. N /\ j = (Id(r) + 1) + told[r] + 1
  BY <1>1, <1>2 DEF ToConnect
<1>4. Address(r, told[r] + 1) = clnt_socks[j]
  BY DEF Address
<1> HIDE DEF j
<1> QED
  BY <1>1, <1>2, <1>3, <1>4

LEMMA OrderMain ==
  ASSUME Order, NEW r \in Receivers, MainThread(r) PROVE Order'
<1> USE DEF Order
<1>1. CASE Listen(r)
  BY <1>1 DEF Listen, OrderTypes, AcceptedOnce, ToldLast, ConnectsForward, Announced,
              senderVars
<1>2. CASE Register(r)
  <2>0. pending' = Append(pending, r) /\ clnt_socks' = clnt_socks
        /\ ~ In(r, pending) /\ ~ In(r, clnt_socks)
    BY <1>2 DEF Register, AcceptedOnce, senderVars
  <2>1. OrderTypes' /\ ToldLast' /\ ConnectsForward'
    BY <1>2 DEF Register, OrderTypes, ToldLast, ConnectsForward, Announced, senderVars
  <2>2. AcceptedOnce'
    <3>1. Distinct(pending')
      BY <2>0, AppendDistinct DEF OrderTypes, AcceptedOnce
    <3>2. \A q \in Receivers : In(q, pending') <=> In(q, pending) \/ q = r
      BY <2>0, AppendIn DEF OrderTypes
    <3> QED
      BY <1>2, <2>0, <3>1, <3>2 DEF Register, OrderTypes, AcceptedOnce
  <2> QED
    BY <2>1, <2>2
<1>3. CASE ReadTotals(r)
  BY <1>3 DEF ReadTotals, OrderTypes, AcceptedOnce, ToldLast, ConnectsForward,
              Announced, senderVars
<1>4. CASE ReadAddress(r)
  <2>1. OrderTypes'
    BY <1>4, AddressIsLater DEF ReadAddress, OrderTypes, senderVars
  <2>2. AcceptedOnce' /\ ToldLast'
    BY <1>4 DEF ReadAddress, AcceptedOnce, ToldLast, Announced, senderVars
  <2>3. ConnectsForward'
    <3> DEFINE a == Address(r, told[r] + 1)
    <3>1. a \in Receivers /\ Len(clnt_socks) = N
          /\ \E i, j \in 1 .. N : /\ j = i + told[r] + 1
                                  /\ clnt_socks[i] = r
                                  /\ clnt_socks[j] = a
      BY <1>4, AddressIsLater DEF ReadAddress
    <3>2. conn' = [conn EXCEPT ![r][a] = "connect"] /\ clnt_socks' = clnt_socks
      BY <1>4 DEF ReadAddress, senderVars
    <3> HIDE DEF a
    <3>3. /\ \A p \in Receivers : told[p] \in Nat /\ told'[p] \in Nat /\ told[p] <= told'[p]
          /\ told'[r] = told[r] + 1
      BY <1>4 DEF ReadAddress, OrderTypes
    <3>4. \A p, o \in Receivers :
            conn'[p][o] # "none" => conn[p][o] # "none" \/ (p = r /\ o = a)
      BY <3>1, <3>2 DEF OrderTypes
    <3>5. ASSUME NEW p \in Receivers, NEW o \in Receivers, conn[p][o] # "none"
          PROVE  /\ Len(clnt_socks') = N
                 /\ \E i, j \in 1 .. N : /\ i < j
                                         /\ j <= i + told'[p]
                                         /\ clnt_socks'[i] = p
                                         /\ clnt_socks'[j] = o
      BY <3>2, <3>3, <3>5, NNat DEF ConnectsForward
    <3>6. /\ Len(clnt_socks') = N
          /\ \E i, j \in 1 .. N : /\ i < j
                                  /\ j <= i + told'[r]
                                  /\ clnt_socks'[i] = r
                                  /\ clnt_socks'[j] = a
      BY <3>1, <3>2, <3>3, NNat
    <3> QED
      BY <3>4, <3>5, <3>6 DEF ConnectsForward
  <2> QED
    BY <2>1, <2>2, <2>3
<1>5. CASE SeeCount(r)
  BY <1>5 DEF SeeCount, OrderTypes, AcceptedOnce, ToldLast, ConnectsForward, Announced,
              senderVars
<1>6. CASE ReportInit(r)
  BY <1>6 DEF ReportInit, OrderTypes, AcceptedOnce, ToldLast, ConnectsForward,
              Announced, senderVars
<1>7. CASE ReadQuota(r)
  BY <1>7 DEF ReadQuota, OrderTypes, AcceptedOnce, ToldLast, ConnectsForward, Announced,
              senderVars
<1> QED
  BY <1>1, <1>2, <1>3, <1>4, <1>5, <1>6, <1>7 DEF MainThread

LEMMA OrderConnect ==
  ASSUME Order, NEW r \in Receivers, NEW q \in Receivers, ConnectThread(r, q)
  PROVE  Order'
<1>1. PICK pc \in {"connected", "failed", "counted", "done"} :
        conn[r][q] # "none" /\ conn' = [conn EXCEPT ![r][q] = pc]
  BY DEF ConnectThread, Connect, CountConnected, StoreConnected
<1>2. UNCHANGED <<pending, clnt_socks, announced, joined, main, told>>
  BY DEF ConnectThread, Connect, CountConnected, StoreConnected, senderVars
<1>3. /\ conn' \in [Receivers -> [Receivers -> {"none", "connect", "failed"} \cup Linked]]
      /\ \A p, o \in Receivers : conn'[p][o] # "none" => conn[p][o] # "none"
  BY <1>1 DEF Order, OrderTypes, Linked
<1> QED
  BY <1>2, <1>3 DEF Order, OrderTypes, AcceptedOnce, ToldLast, ConnectsForward, Announced

\* The accepting threads and a stuttering step leave the order alone.
LEMMA OrderKept ==
  ASSUME Order, UNCHANGED <<pending, clnt_socks, announced, joined, main, told, conn>>
  PROVE  Order'
  BY DEF Order, OrderTypes, AcceptedOnce, ToldLast, ConnectsForward, Announced

LEMMA OrderStep ==
  ASSUME Order, [Next]_vars PROVE Order'
<1>1. CASE SenderStep
  BY <1>1, OrderSender
<1>2. ASSUME NEW r \in Receivers, MainThread(r) PROVE Order'
  BY <1>2, OrderMain
<1>3. ASSUME NEW r \in Receivers, AcceptThread(r) PROVE Order'
  BY <1>3, OrderKept DEF AcceptThread, TestAccept, Accept, CountAccepted, StoreAccepted,
                         senderVars
<1>4. ASSUME NEW r \in Receivers, NEW q \in Receivers, ConnectThread(r, q) PROVE Order'
  BY <1>4, OrderConnect
<1>5. CASE UNCHANGED vars
  BY <1>5, OrderKept DEF vars, senderVars
<1> QED
  BY <1>1, <1>2, <1>3, <1>4, <1>5 DEF Next, ProgramStep, SetUp

\* A receiver connects only to receivers that were accepted after it.
THEOREM OrderCorrect == Spec => []Order
<1>1. Init => Order
  BY OrderInit
<1>2. Order /\ [Next]_vars => Order'
  BY OrderStep
<1> QED
  BY <1>1, <1>2, PTL DEF Spec

LEMMA OneLinkFromOrder == Order => OneLinkPerPair
<1> SUFFICES ASSUME Order, NEW r \in Receivers, NEW q \in Receivers,
                    conn[r][q] # "none", conn[q][r] # "none"
             PROVE  FALSE
  BY DEF OneLinkPerPair
<1>1. Len(clnt_socks) = N /\ Distinct(clnt_socks) /\ N \in Nat
  BY NNat DEF Order, AcceptedOnce, ConnectsForward
<1>2. PICK i, j \in 1 .. N : i < j /\ clnt_socks[i] = r /\ clnt_socks[j] = q
  BY DEF Order, ConnectsForward
<1>3. PICK k, l \in 1 .. N : k < l /\ clnt_socks[k] = q /\ clnt_socks[l] = r
  BY DEF Order, ConnectsForward
<1>4. i = l /\ j = k
  BY <1>1, <1>2, <1>3 DEF Distinct
<1> QED
  BY <1>1, <1>2, <1>3, <1>4

\* Two receivers never connect to each other: connectReceiver and acceptReceiver
\* of a pair make one connection.
THEOREM OneLinkPerPairCorrect == Spec => []OneLinkPerPair
<1> QED
  BY OneLinkFromOrder, OrderCorrect, PTL

-------------------------------------------------------------------------------
(* The table of sockets of a receiver. *)

TableTypes ==
  /\ acc \in [Receivers -> {"none", "test", "accept", "accepted", "counted", "ended"}]
  /\ accepted \in [Receivers -> Receivers \cup {NoSock}]
  /\ backlog \in [Receivers -> Seq(Receivers)]
  /\ recv_cnt \in [Receivers -> Nat]
  /\ recv_socks \in [Receivers -> [Slots -> Receivers \cup {NoSock}]]

\* The table of r holds the socket to q.
Held(r, q) == \E i \in Slots : recv_socks[r][i] = q

\* One thread at a time is between lock and unlock.
OneHolder(r) ==
  /\ \A p, q \in Receivers :
       conn[r][p] = "counted" /\ conn[r][q] = "counted" => p = q
  /\ acc[r] = "counted" => \A q \in Receivers : conn[r][q] # "counted"

\* The first recv_cnt entries are set, the last of them only when the mutex is
\* free, the others are not.
Filled(r) ==
  /\ Locked(r) => recv_cnt[r] > 0
  /\ \A i \in Slots : recv_socks[r][i] # NoSock <=>
       i < recv_cnt[r] /\ (Locked(r) => i + 1 < recv_cnt[r])

\* Every socket in the table belongs to a thread of r that is done or to one of
\* the peer that has been connected.
HeldIsLinked(r) ==
  \A q \in Receivers : Held(r, q) => conn[r][q] = "done" \/ conn[q][r] \in Linked

\* A connection that waits in the listen queue is there once and not stored.
WaitingIsNew(r) ==
  /\ Distinct(backlog[r])
  /\ \A q \in Receivers : In(q, backlog[r]) => conn[q][r] \in Linked /\ ~ Held(r, q)

\* The connection the accepting thread has in hand is not stored, nor waiting.
AcceptedIsNew(r) ==
  /\ accepted[r] # NoSock <=> acc[r] \in {"accepted", "counted"}
  /\ accepted[r] # NoSock => /\ conn[accepted[r]][r] \in Linked
                             /\ ~ Held(r, accepted[r])
                             /\ ~ In(accepted[r], backlog[r])

CountIsRight(r) == r \notin Counted(r) /\ Cardinality(Counted(r)) = recv_cnt[r]

Table(r) ==
  /\ OneHolder(r)
  /\ Filled(r)
  /\ HeldIsLinked(r)
  /\ WaitingIsNew(r)
  /\ AcceptedIsNew(r)
  /\ CountIsRight(r)

Tables == TableTypes /\ \A r \in Receivers : Table(r)

\* A receiver creates one thread for each of its peers.
LEMMA AddressIsNew ==
  ASSUME Order, NEW r \in Receivers, main[r] = "connecting", told[r] < ToConnect(r)
  PROVE  conn[r][Address(r, told[r] + 1)] = "none"
<1> DEFINE a == Address(r, told[r] + 1)
<1>1. /\ a \in Receivers
      /\ Len(clnt_socks) = N
      /\ \E i, j \in 1 .. N : /\ j = i + told[r] + 1
                              /\ clnt_socks[i] = r
                              /\ clnt_socks[j] = a
  BY AddressIsLater
<1> HIDE DEF a
<1>2. SUFFICES ASSUME conn[r][a] # "none" PROVE FALSE
  BY DEF a
<1>3. PICK i, j \in 1 .. N : j = i + told[r] + 1 /\ clnt_socks[i] = r /\ clnt_socks[j] = a
  BY <1>1
<1>4. PICK k, l \in 1 .. N : l <= k + told[r] /\ clnt_socks[k] = r /\ clnt_socks[l] = a
  BY <1>1, <1>2 DEF Order, ConnectsForward
<1>5. i = k /\ j = l
  BY <1>1, <1>3, <1>4 DEF Order, AcceptedOnce, Distinct
<1> QED
  BY <1>3, <1>4, <1>5, NNat DEF Order, OrderTypes

\* Of a pair only one connects.
LEMMA OneConnects ==
  Order => \A r, q \in Receivers : conn[r][q] # "none" => conn[q][r] = "none"
  BY OneLinkFromOrder DEF OneLinkPerPair

LEMMA SlotsNat == Slots \subseteq Nat /\ N - 1 \in Nat
  BY NNat DEF Slots

\* What Counted(r) holds.
LEMMA CountedMembers ==
  ASSUME TableTypes, NEW r \in Receivers
  PROVE  /\ Counted(r) \subseteq Receivers
         /\ \A q \in Receivers : q \in Counted(r) <=>
              \/ Held(r, q)
              \/ conn[r][q] = "counted"
              \/ acc[r] = "counted" /\ accepted[r] = q
  BY MeshAssumption DEF TableTypes, Counted, Held

\* The peers of a receiver are at most N - 1, and all of them if they are that
\* many.
LEMMA CountBound ==
  ASSUME TableTypes, NEW r \in Receivers, CountIsRight(r)
  PROVE  /\ IsFiniteSet(Counted(r))
         /\ recv_cnt[r] <= N - 1
         /\ recv_cnt[r] >= N - 1 => Counted(r) = Receivers \ {r}
<1>1. Counted(r) \in SUBSET (Receivers \ {r})
  BY CountedMembers DEF CountIsRight
<1>2. IsFiniteSet(Receivers \ {r}) /\ Cardinality(Receivers \ {r}) = N - 1
  BY MeshAssumption, FS_RemoveElement DEF N
<1>3. /\ IsFiniteSet(Counted(r))
      /\ Cardinality(Counted(r)) <= N - 1
      /\ N - 1 = Cardinality(Counted(r)) => Receivers \ {r} = Counted(r)
  BY <1>1, <1>2, FS_Subset
<1>4. Cardinality(Counted(r)) = recv_cnt[r] /\ recv_cnt[r] \in Nat
  BY DEF CountIsRight, TableTypes
<1> QED
  BY <1>3, <1>4, SlotsNat

LEMMA TablesInit == Init => Tables
<1> SUFFICES ASSUME Init PROVE Tables
  OBVIOUS
<1>1. TableTypes
  BY DEF Init, TableTypes
<1>2. ASSUME NEW r \in Receivers PROVE Table(r)
  <2>1. Counted(r) = {}
    BY MeshAssumption DEF Init, Counted
  <2>2. OneHolder(r) /\ HeldIsLinked(r) /\ AcceptedIsNew(r) /\ WaitingIsNew(r)
    BY MeshAssumption
    DEF Init, OneHolder, HeldIsLinked, AcceptedIsNew, WaitingIsNew, Held, Distinct, In
  <2>3. Filled(r)
    BY SlotsNat DEF Init, Filled, Locked
  <2>4. CountIsRight(r)
    BY <2>1, FS_EmptySet DEF Init, CountIsRight
  <2> QED
    BY <2>2, <2>3, <2>4 DEF Table
<1> QED
  BY <1>1, <1>2 DEF Tables

\* What the program counters say of the number of connections.
Waits ==
  /\ joined <= announced
  /\ \A i \in 1 .. joined : main[clnt_socks[i]] \in {"reported", "ready"}
  /\ \A r \in Receivers :
       /\ main[r] = "boot" => acc[r] = "none"
       /\ main[r] \in {"joining", "reported", "ready"} => recv_cnt[r] >= N - 1
       /\ main[r] \in {"reported", "ready"} =>
            \A q \in Receivers : conn[r][q] \in {"none", "done", "failed"}
       /\ acc[r] = "ended" => recv_cnt[r] >= N - 1

\* What a step may do elsewhere without disturbing the table of p.
TableLeft(p) ==
  /\ recv_cnt'[p] = recv_cnt[p]
  /\ recv_socks'[p] = recv_socks[p]
  /\ (acc'[p] = "counted") = (acc[p] = "counted")
  /\ (acc'[p] = "accepted") = (acc[p] = "accepted")
  /\ accepted'[p] = accepted[p]
  /\ backlog'[p] = backlog[p]
  /\ \A q \in Receivers :
       /\ (conn'[p][q] = "counted") = (conn[p][q] = "counted")
       /\ conn[p][q] = "done" => conn'[p][q] = "done"
       /\ conn[q][p] \in Linked => conn'[q][p] \in Linked

LEMMA TableKept ==
  ASSUME TableTypes, TableTypes', NEW p \in Receivers, Table(p), TableLeft(p)
  PROVE  Table(p)'
<1> USE DEF TableLeft
<1>1. \A q : Held(p, q)' <=> Held(p, q)
  BY DEF Held
<1>2. Locked(p)' <=> Locked(p)
  BY DEF Locked
<1>3. Counted(p)' = Counted(p)
  BY DEF Counted
<1>4. OneHolder(p)'
  BY DEF Table, OneHolder
<1>5. Filled(p)'
  BY <1>2 DEF Table, Filled
<1>6. HeldIsLinked(p)'
  BY <1>1 DEF Table, HeldIsLinked
<1>7. WaitingIsNew(p)'
  BY <1>1 DEF Table, WaitingIsNew, Distinct, In
<1>8. AcceptedIsNew(p)'
  BY <1>1 DEF Table, AcceptedIsNew, In, TableTypes
<1>9. CountIsRight(p)'
  BY <1>3 DEF Table, CountIsRight
<1> QED
  BY <1>4, <1>5, <1>6, <1>7, <1>8, <1>9 DEF Table

LEMMA TablesConnect ==
  ASSUME Order, Tables, NEW r \in Receivers, NEW q \in Receivers, Connect(r, q)
  PROVE  Tables'
<1>0. conn[r][q] = "connect" /\ conn[q][r] = "none" /\ r # q
  BY OneConnects DEF Connect
<1>1. CASE UNCHANGED backlog
  <2>1. PICK pc \in {"connected", "failed"} : conn' = [conn EXCEPT ![r][q] = pc]
    BY DEF Connect
  <2>2. UNCHANGED <<acceptVars, tableVars, backlog>>
    BY <1>1 DEF Connect
  <2>3. TableTypes'
    BY <2>2 DEF Tables, TableTypes, acceptVars, tableVars
  <2>4. ASSUME NEW p \in Receivers PROVE TableLeft(p)
    BY <1>0, <2>1, <2>2 DEF TableLeft, acceptVars, tableVars, Order, OrderTypes, Linked
  <2> QED
    BY <2>3, <2>4, TableKept DEF Tables
<1>2. CASE backlog' = [backlog EXCEPT ![q] = Append(@, r)]
           /\ conn' = [conn EXCEPT ![r][q] = "connected"]
  <2>1. UNCHANGED <<acceptVars, tableVars>>
    BY DEF Connect
  <2>2. TableTypes'
    BY <1>2, <2>1 DEF Tables, TableTypes, acceptVars, tableVars
  <2>3. ASSUME NEW p \in Receivers, p # q PROVE Table(p)'
    <3>1. TableLeft(p)
      BY <1>0, <1>2, <2>1, <2>3
      DEF TableLeft, acceptVars, tableVars, Order, OrderTypes, Linked, Tables, TableTypes
    <3> QED
      BY <2>2, <2>3, <3>1, TableKept DEF Tables
  <2>4. Table(q)'
    <3>1. /\ \A p \in Receivers : conn'[q][p] = conn[q][p]
          /\ \A p \in Receivers : conn[p][q] \in Linked => conn'[p][q] \in Linked
          /\ conn'[r][q] \in Linked
      BY <1>0, <1>2 DEF Order, OrderTypes, Linked
    <3>2. ~ Held(q, r) /\ accepted[q] # r /\ ~ In(r, backlog[q])
      BY <1>0, MeshAssumption
      DEF Tables, Table, HeldIsLinked, AcceptedIsNew, WaitingIsNew, Linked
    <3>3. /\ backlog'[q] = Append(backlog[q], r)
          /\ backlog[q] \in Seq(Receivers)
          /\ accepted[q] \in Receivers \cup {NoSock}
      BY <1>2 DEF Tables, TableTypes
    <3>4. Distinct(backlog'[q]) /\ \A p : In(p, backlog'[q]) <=> In(p, backlog[q]) \/ p = r
      BY <3>2, <3>3, AppendDistinct, AppendIn DEF Tables, Table, WaitingIsNew
    <3>5. \A p : Held(q, p)' <=> Held(q, p)
      BY <2>1 DEF Held, tableVars
    <3>6. Locked(q)' <=> Locked(q)
      BY <3>1, <2>1 DEF Locked, acceptVars
    <3>7. Counted(q)' = Counted(q)
      BY <3>1, <2>1 DEF Counted, acceptVars, tableVars
    <3>8. OneHolder(q)' /\ HeldIsLinked(q)'
      BY <2>1, <3>1, <3>5 DEF Tables, Table, OneHolder, HeldIsLinked, acceptVars
    <3>9. Filled(q)'
      BY <2>1, <3>6 DEF Tables, Table, Filled, tableVars
    <3>10. WaitingIsNew(q)'
      BY <3>1, <3>2, <3>4, <3>5 DEF Tables, Table, WaitingIsNew
    <3>11. AcceptedIsNew(q)'
      BY <2>1, <3>1, <3>2, <3>3, <3>4, <3>5 DEF Tables, Table, AcceptedIsNew, acceptVars
    <3>12. CountIsRight(q)'
      BY <2>1, <3>7 DEF Tables, Table, CountIsRight, tableVars
    <3> QED
      BY <3>8, <3>9, <3>10, <3>11, <3>12 DEF Table
  <2> QED
    BY <2>2, <2>3, <2>4 DEF Tables
<1> QED
  BY <1>1, <1>2 DEF Connect

\* A connection is counted for the first time, and there is room for it.
LEMMA CountOne ==
  ASSUME TableTypes, TableTypes', NEW r \in Receivers, NEW q \in Receivers,
         CountIsRight(r), q \notin Counted(r), q # r,
         Counted(r)' = Counted(r) \cup {q}, recv_cnt'[r] = recv_cnt[r] + 1
  PROVE  CountIsRight(r)'
<1>1. IsFiniteSet(Counted(r)) /\ Cardinality(Counted(r)) = recv_cnt[r]
  BY CountBound DEF CountIsRight
<1>2. Cardinality(Counted(r) \cup {q}) = recv_cnt[r] + 1
  BY <1>1, FS_AddElement
<1>3. r \notin Counted(r) \cup {q}
  BY DEF CountIsRight
<1>4. r \notin Counted(r)' /\ Cardinality(Counted(r)') = recv_cnt'[r]
  BY <1>2, <1>3
<1> QED
  BY <1>4 DEF CountIsRight

LEMMA TablesCountConnected ==
  ASSUME Order, Tables, NEW r \in Receivers, NEW q \in Receivers, CountConnected(r, q)
  PROVE  Tables'
<1>0. conn[r][q] = "connected" /\ conn[q][r] = "none" /\ r # q /\ ~ Locked(r)
  BY OneConnects DEF CountConnected
<1>1. /\ conn' = [conn EXCEPT ![r][q] = "counted"]
      /\ recv_cnt' = [recv_cnt EXCEPT ![r] = @ + 1]
      /\ UNCHANGED <<acc, accepted, backlog, recv_socks>>
  BY DEF CountConnected, acceptVars
<1>2. TableTypes'
  BY <1>1 DEF Tables, TableTypes
<1>3. ASSUME NEW p \in Receivers, p # r PROVE Table(p)'
  <2>1. TableLeft(p)
    BY <1>0, <1>1, <1>3 DEF TableLeft, Order, OrderTypes, Linked, Tables, TableTypes
  <2> QED
    BY <1>2, <1>3, <2>1, TableKept DEF Tables
<1>4. Table(r)'
  <2>1. /\ conn'[r][q] = "counted"
        /\ \A p \in Receivers : p # q => conn'[r][p] = conn[r][p]
        /\ \A p \in Receivers : conn[p][r] = conn'[p][r]
        /\ recv_cnt'[r] = recv_cnt[r] + 1
        /\ recv_cnt[r] \in Nat
    BY <1>0, <1>1 DEF Order, OrderTypes, Tables, TableTypes
  <2>2. /\ acc[r] # "counted"
        /\ \A p \in Receivers : conn[r][p] # "counted"
        /\ Locked(r)'
    BY <1>0, <2>1 DEF Locked
  <2>3. \A p : Held(r, p)' <=> Held(r, p)
    BY <1>1 DEF Held
  <2>4. OneHolder(r)'
    BY <1>1, <2>1, <2>2 DEF OneHolder
  <2>5. HeldIsLinked(r)' /\ WaitingIsNew(r)' /\ AcceptedIsNew(r)'
    <3>1. HeldIsLinked(r)'
      BY <1>0, <2>1, <2>3 DEF Tables, Table, HeldIsLinked, Linked
    <3>2. WaitingIsNew(r)'
      BY <1>1, <2>1, <2>3 DEF Tables, Table, WaitingIsNew
    <3>3. AcceptedIsNew(r)'
      BY <1>1, <2>1, <2>3 DEF Tables, TableTypes, Table, AcceptedIsNew
    <3> QED
      BY <3>1, <3>2, <3>3
  <2>6. Filled(r)'
    BY <1>0, <1>1, <2>1, <2>2, SlotsNat DEF Tables, Table, Filled
  <2>7. q \notin Counted(r)
    BY <1>0, <2>2, CountedMembers DEF Tables, Table, HeldIsLinked, Linked
  <2>8. Counted(r)' = Counted(r) \cup {q}
    BY <1>1, <2>1, <2>2 DEF Counted
  <2>9. CountIsRight(r)'
    BY <1>0, <1>2, <2>1, <2>7, <2>8, CountOne DEF Tables, Table
  <2> QED
    BY <2>4, <2>5, <2>6, <2>9 DEF Table
<1> QED
  BY <1>2, <1>3, <1>4 DEF Tables

\* The thread that holds the mutex stores into a slot that exists.
LEMMA SlotThere ==
  ASSUME Tables, NEW r \in Receivers, Locked(r)
  PROVE  recv_cnt[r] - 1 \in Slots
<1>1. recv_cnt[r] \in Nat /\ recv_cnt[r] > 0 /\ recv_cnt[r] <= N - 1
  BY CountBound DEF Tables, TableTypes, Table, Filled
<1> QED
  BY <1>1, NNat DEF Slots

LEMMA TablesStoreConnected ==
  ASSUME Order, Tables, NEW r \in Receivers, NEW q \in Receivers, StoreConnected(r, q)
  PROVE  Tables'
<1>0. conn[r][q] = "counted" /\ conn[q][r] = "none" /\ r # q /\ Locked(r)
  BY OneConnects DEF StoreConnected, Locked
<1> DEFINE k == recv_cnt[r] - 1
<1>k. k \in Slots /\ k \in Nat /\ recv_cnt[r] = k + 1 /\ recv_socks[r][k] = NoSock
  BY <1>0, SlotThere, SlotsNat DEF Tables, TableTypes, Table, Filled
<1>1. /\ conn' = [conn EXCEPT ![r][q] = "done"]
      /\ recv_socks' = [recv_socks EXCEPT ![r][k] = q]
      /\ UNCHANGED <<acc, accepted, backlog, recv_cnt>>
  BY DEF StoreConnected, acceptVars
<1> HIDE DEF k
<1>2. TableTypes'
  BY <1>k, <1>1 DEF Tables, TableTypes
<1>3. ASSUME NEW p \in Receivers, p # r PROVE Table(p)'
  <2>1. TableLeft(p)
    BY <1>0, <1>1, <1>3 DEF TableLeft, Order, OrderTypes, Linked, Tables, TableTypes
  <2> QED
    BY <1>2, <1>3, <2>1, TableKept DEF Tables
<1>4. Table(r)'
  <2>1. /\ conn'[r][q] = "done"
        /\ \A p \in Receivers : p # q => conn'[r][p] = conn[r][p]
        /\ \A p \in Receivers : conn[p][r] = conn'[p][r]
        /\ recv_socks'[r][k] = q
        /\ \A i \in Slots : i # k => recv_socks'[r][i] = recv_socks[r][i]
    BY <1>0, <1>k, <1>1 DEF Order, OrderTypes, Tables, TableTypes
  <2>2. /\ acc[r] # "counted"
        /\ \A p \in Receivers : p # q => conn[r][p] # "counted"
        /\ ~ Locked(r)'
    BY <1>0, <1>1, <2>1 DEF Tables, Table, OneHolder, Locked
  <2>3. \A p \in Receivers : Held(r, p)' <=> Held(r, p) \/ p = q
    BY <1>k, <2>1, MeshAssumption DEF Held
  <2>4. OneHolder(r)'
    BY <1>1, <2>1, <2>2 DEF OneHolder
  <2>5. HeldIsLinked(r)'
    BY <1>0, <2>1, <2>3 DEF Tables, Table, HeldIsLinked
  <2>6. WaitingIsNew(r)'
    BY <1>0, <1>1, <2>1, <2>3 DEF Tables, Table, WaitingIsNew, Linked
  <2>7. AcceptedIsNew(r)'
    BY <1>0, <1>1, <2>1, <2>3 DEF Tables, TableTypes, Table, AcceptedIsNew, Linked
  <2>8. Filled(r)'
    <3>1. ASSUME NEW i \in Slots PROVE recv_socks'[r][i] # NoSock <=> i < recv_cnt[r]
      <4>1. CASE i = k
        BY <1>k, <2>1, <4>1, MeshAssumption
      <4>2. CASE i # k
        BY <1>0, <1>k, <2>1, <4>2, SlotsNat DEF Tables, Table, Filled
      <4> QED
        BY <4>1, <4>2
    <3> QED
      BY <1>1, <2>2, <3>1 DEF Filled
  <2>9. Counted(r)' = Counted(r)
    <3>1. Counted(r) \subseteq Receivers /\ Counted(r)' \subseteq Receivers
      BY <1>2, MeshAssumption DEF Tables, TableTypes, Counted
    <3>2. \A p \in Receivers : p \in Counted(r) <=> Held(r, p) \/ p = q
      BY <1>0, <2>2, CountedMembers DEF Tables
    <3>3. \A p \in Receivers : p \in Counted(r)' <=> Held(r, p)'
      BY <1>1, <2>1, <2>2, MeshAssumption DEF Counted, Held
    <3> QED
      BY <2>3, <3>1, <3>2, <3>3
  <2>10. CountIsRight(r)'
    BY <1>1, <2>9 DEF Tables, Table, CountIsRight
  <2> QED
    BY <2>4, <2>5, <2>6, <2>7, <2>8, <2>10 DEF Table
<1> QED
  BY <1>2, <1>3, <1>4 DEF Tables

LEMMA TablesTestAccept ==
  ASSUME Order, Tables, NEW r \in Receivers, TestAccept(r) PROVE Tables'
<1>1. PICK pc \in {"accept", "ended"} : acc[r] = "test" /\ acc' = [acc EXCEPT ![r] = pc]
  BY DEF TestAccept
<1>2. UNCHANGED <<conn, accepted, backlog, recv_cnt, recv_socks>>
  BY DEF TestAccept, tableVars
<1>3. TableTypes'
  BY <1>1, <1>2 DEF Tables, TableTypes
<1>4. ASSUME NEW p \in Receivers PROVE TableLeft(p)
  BY <1>1, <1>2 DEF TableLeft, Tables, TableTypes
<1> QED
  BY <1>3, <1>4, TableKept DEF Tables

LEMMA TablesAccept ==
  ASSUME Order, Tables, NEW r \in Receivers, Accept(r) PROVE Tables'
<1> DEFINE q == Head(backlog[r])
<1>1. /\ acc[r] = "accept"
      /\ accepted' = [accepted EXCEPT ![r] = q]
      /\ backlog' = [backlog EXCEPT ![r] = Tail(@)]
      /\ acc' = [acc EXCEPT ![r] = "accepted"]
      /\ UNCHANGED <<conn, recv_cnt, recv_socks>>
  BY DEF Accept, tableVars
<1>2. /\ q \in Receivers
      /\ In(q, backlog[r])
      /\ Tail(backlog[r]) \in Seq(Receivers)
      /\ Distinct(Tail(backlog[r]))
      /\ \A p : In(p, Tail(backlog[r])) => In(p, backlog[r]) /\ p # q
  BY HeadIn, TailDistinct DEF Accept, Tables, TableTypes, Table, WaitingIsNew
<1> HIDE DEF q
<1>3. TableTypes'
  BY <1>1, <1>2 DEF Tables, TableTypes
<1>4. ASSUME NEW p \in Receivers, p # r PROVE Table(p)'
  <2>1. TableLeft(p)
    BY <1>1, <1>4 DEF TableLeft, Tables, TableTypes
  <2> QED
    BY <1>3, <1>4, <2>1, TableKept DEF Tables
<1>5. Table(r)'
  <2>1. /\ accepted'[r] = q
        /\ backlog'[r] = Tail(backlog[r])
        /\ acc'[r] = "accepted"
    BY <1>1 DEF Tables, TableTypes
  <2>2. \A p : Held(r, p)' <=> Held(r, p)
    BY <1>1 DEF Held
  <2>3. Locked(r)' <=> Locked(r)
    BY <1>1, <2>1 DEF Locked
  <2>4. Counted(r)' = Counted(r)
    BY <1>1, <2>1 DEF Counted
  <2>5. OneHolder(r)' /\ HeldIsLinked(r)'
    BY <1>1, <2>1, <2>2 DEF Tables, Table, OneHolder, HeldIsLinked
  <2>6. Filled(r)'
    BY <1>1, <2>3 DEF Tables, Table, Filled
  <2>7. WaitingIsNew(r)'
    BY <1>1, <1>2, <2>1, <2>2 DEF Tables, Table, WaitingIsNew
  <2>8. AcceptedIsNew(r)'
    BY <1>1, <1>2, <2>1, <2>2, MeshAssumption DEF Tables, Table, WaitingIsNew, AcceptedIsNew
  <2>9. CountIsRight(r)'
    BY <1>1, <2>4 DEF Tables, Table, CountIsRight
  <2> QED
    BY <2>5, <2>6, <2>7, <2>8, <2>9 DEF Table
<1> QED
  BY <1>3, <1>4, <1>5 DEF Tables

\* What the accepting thread has in hand is a connection from another receiver,
\* to which r does not connect.
LEMMA AcceptedIsPeer ==
  ASSUME Order, Tables, NEW r \in Receivers, acc[r] \in {"accepted", "counted"}
  PROVE  /\ accepted[r] \in Receivers
         /\ conn[accepted[r]][r] \in Linked
         /\ conn[r][accepted[r]] = "none"
         /\ accepted[r] # r
<1>1. accepted[r] \in Receivers /\ conn[accepted[r]][r] \in Linked
  BY DEF Tables, TableTypes, Table, AcceptedIsNew
<1> QED
  BY <1>1, OneConnects DEF Linked

LEMMA TablesCountAccepted ==
  ASSUME Order, Tables, NEW r \in Receivers, CountAccepted(r) PROVE Tables'
<1> DEFINE q == accepted[r]
<1>0. acc[r] = "accepted" /\ ~ Locked(r) /\ q \in Receivers /\ q # r
  BY AcceptedIsPeer DEF CountAccepted
<1>1. /\ acc' = [acc EXCEPT ![r] = "counted"]
      /\ recv_cnt' = [recv_cnt EXCEPT ![r] = @ + 1]
      /\ UNCHANGED <<conn, accepted, backlog, recv_socks>>
  BY DEF CountAccepted
<1>2. TableTypes'
  BY <1>1 DEF Tables, TableTypes
<1>3. ASSUME NEW p \in Receivers, p # r PROVE Table(p)'
  <2>1. TableLeft(p)
    BY <1>1, <1>3 DEF TableLeft, Tables, TableTypes
  <2> QED
    BY <1>2, <1>3, <2>1, TableKept DEF Tables
<1>4. Table(r)'
  <2>1. acc'[r] = "counted" /\ recv_cnt'[r] = recv_cnt[r] + 1 /\ recv_cnt[r] \in Nat
    BY <1>1 DEF Tables, TableTypes
  <2>2. (\A p \in Receivers : conn[r][p] # "counted") /\ Locked(r)'
    BY <1>0, <2>1 DEF Locked
  <2>3. \A p : Held(r, p)' <=> Held(r, p)
    BY <1>1 DEF Held
  <2>4. OneHolder(r)' /\ HeldIsLinked(r)' /\ WaitingIsNew(r)'
    BY <1>1, <2>2, <2>3 DEF Tables, Table, OneHolder, HeldIsLinked, WaitingIsNew
  <2>5. AcceptedIsNew(r)'
    <3>1. accepted'[r] = accepted[r] /\ accepted[r] # NoSock /\ conn' = conn /\ backlog' = backlog
      BY <1>0, <1>1, MeshAssumption
    <3> QED
      BY <2>1, <2>3, <3>1 DEF Tables, Table, AcceptedIsNew
  <2>6. Filled(r)'
    <3>1. /\ \A i \in Slots : recv_socks[r][i] # NoSock <=> i < recv_cnt[r]
          /\ recv_socks' = recv_socks
      BY <1>0, <1>1 DEF Tables, Table, Filled
    <3> QED
      BY <2>1, <2>2, <3>1, SlotsNat DEF Filled
  <2>7. q \notin Counted(r)
    <3>1. ~ Held(r, q)
      BY <1>0 DEF Tables, Table, AcceptedIsNew
    <3> QED
      BY <1>0, <2>2, <3>1, CountedMembers DEF Tables
  <2>8. Counted(r)' = Counted(r) \cup {q}
    BY <1>0, <1>1, <2>1, <2>2 DEF Counted
  <2>9. CountIsRight(r)'
    BY <1>0, <1>2, <2>1, <2>7, <2>8, CountOne DEF Tables, Table
  <2> QED
    BY <2>4, <2>5, <2>6, <2>9 DEF Table
<1> QED
  BY <1>2, <1>3, <1>4 DEF Tables

LEMMA TablesStoreAccepted ==
  ASSUME Order, Tables, NEW r \in Receivers, StoreAccepted(r) PROVE Tables'
<1> DEFINE q == accepted[r]
<1>0. /\ acc[r] = "counted"
      /\ Locked(r)
      /\ q \in Receivers
      /\ conn[q][r] \in Linked
      /\ conn[r][q] = "none"
  BY AcceptedIsPeer DEF StoreAccepted, Locked
<1> DEFINE k == recv_cnt[r] - 1
<1>k. k \in Slots /\ k \in Nat /\ recv_cnt[r] = k + 1 /\ recv_socks[r][k] = NoSock
  BY <1>0, SlotThere, SlotsNat DEF Tables, TableTypes, Table, Filled
<1>1. /\ acc' = [acc EXCEPT ![r] = "test"]
      /\ recv_socks' = [recv_socks EXCEPT ![r][k] = q]
      /\ accepted' = [accepted EXCEPT ![r] = NoSock]
      /\ UNCHANGED <<conn, backlog, recv_cnt>>
  BY DEF StoreAccepted
<1> HIDE DEF k
<1>2. TableTypes'
  BY <1>0, <1>k, <1>1 DEF Tables, TableTypes
<1>3. ASSUME NEW p \in Receivers, p # r PROVE Table(p)'
  <2>1. TableLeft(p)
    BY <1>1, <1>3 DEF TableLeft, Tables, TableTypes
  <2> QED
    BY <1>2, <1>3, <2>1, TableKept DEF Tables
<1>4. Table(r)'
  <2>1. /\ acc'[r] = "test"
        /\ accepted'[r] = NoSock
        /\ recv_socks'[r][k] = q
        /\ \A i \in Slots : i # k => recv_socks'[r][i] = recv_socks[r][i]
    BY <1>k, <1>1 DEF Tables, TableTypes
  <2>2. (\A p \in Receivers : conn[r][p] # "counted") /\ ~ Locked(r)'
    BY <1>0, <1>1, <2>1 DEF Tables, Table, OneHolder, Locked
  <2>3. \A p \in Receivers : Held(r, p)' <=> Held(r, p) \/ p = q
    BY <1>k, <2>1, MeshAssumption DEF Held
  <2>4. OneHolder(r)' /\ AcceptedIsNew(r)'
    BY <1>1, <2>1, <2>2 DEF OneHolder, AcceptedIsNew
  <2>5. HeldIsLinked(r)'
    BY <1>0, <1>1, <2>3 DEF Tables, Table, HeldIsLinked
  <2>6. WaitingIsNew(r)'
    <3>1. ~ In(q, backlog[r])
      BY <1>0, MeshAssumption DEF Tables, Table, AcceptedIsNew
    <3> QED
      BY <1>1, <2>3, <3>1 DEF Tables, Table, WaitingIsNew
  <2>7. Filled(r)'
    <3>1. ASSUME NEW i \in Slots PROVE recv_socks'[r][i] # NoSock <=> i < recv_cnt[r]
      <4>1. CASE i = k
        BY <1>0, <1>k, <2>1, <4>1, MeshAssumption
      <4>2. CASE i # k
        BY <1>0, <1>k, <2>1, <4>2, SlotsNat DEF Tables, Table, Filled
      <4> QED
        BY <4>1, <4>2
    <3> QED
      BY <1>1, <2>2, <3>1 DEF Filled
  <2>8. Counted(r)' = Counted(r)
    <3>1. Counted(r) \subseteq Receivers /\ Counted(r)' \subseteq Receivers
      BY <1>2, MeshAssumption DEF Tables, TableTypes, Counted
    <3>2. \A p \in Receivers : p \in Counted(r) <=> Held(r, p) \/ p = q
      BY <1>0, <2>2, CountedMembers DEF Tables
    <3>3. \A p \in Receivers : p \in Counted(r)' <=> Held(r, p)'
      BY <1>1, <2>1, <2>2, MeshAssumption DEF Counted, Held
    <3> QED
      BY <2>3, <3>1, <3>2, <3>3
  <2>9. CountIsRight(r)'
    BY <1>1, <2>8 DEF Tables, Table, CountIsRight
  <2> QED
    BY <2>4, <2>5, <2>6, <2>7, <2>9 DEF Table
<1> QED
  BY <1>2, <1>3, <1>4 DEF Tables

LEMMA TablesStep ==
  ASSUME Order, Tables, Waits, [Next]_vars PROVE Tables'
<1>0. ASSUME UNCHANGED <<conn, acceptVars, backlog, tableVars>> PROVE Tables'
  <2>1. TableTypes'
    BY <1>0 DEF Tables, TableTypes, acceptVars, tableVars
  <2>2. ASSUME NEW p \in Receivers PROVE TableLeft(p)
    BY <1>0 DEF TableLeft, acceptVars, tableVars
  <2> QED
    BY <2>1, <2>2, TableKept DEF Tables
<1>1. CASE SenderStep
  BY <1>0, <1>1 DEF SenderStep, AcceptReceiver, Announce, JoinReceiver
<1>2. ASSUME NEW r \in Receivers, MainThread(r) PROVE Tables'
  <2>1. CASE Listen(r)
    <3>1. /\ acc' = [acc EXCEPT ![r] = "test"]
          /\ UNCHANGED <<conn, accepted, backlog, tableVars>>
          /\ acc[r] \notin {"accepted", "counted"}
      BY <2>1 DEF Listen, Waits
    <3>2. TableTypes'
      BY <3>1 DEF Tables, TableTypes, tableVars
    <3>3. ASSUME NEW p \in Receivers PROVE TableLeft(p)
      BY <3>1 DEF TableLeft, tableVars, Tables, TableTypes
    <3> QED
      BY <3>2, <3>3, TableKept DEF Tables
  <2>2. CASE ReadAddress(r)
    <3>1. PICK a \in Receivers :
            /\ conn[r][a] = "none"
            /\ conn' = [conn EXCEPT ![r][a] = "connect"]
      BY <2>2, AddressIsLater, AddressIsNew DEF ReadAddress
    <3>2. UNCHANGED <<acceptVars, backlog, tableVars>>
      BY <2>2 DEF ReadAddress
    <3>3. TableTypes'
      BY <3>2 DEF Tables, TableTypes, acceptVars, tableVars
    <3>4. ASSUME NEW p \in Receivers PROVE TableLeft(p)
      BY <3>1, <3>2 DEF TableLeft, acceptVars, tableVars, Order, OrderTypes, Linked
    <3> QED
      BY <3>3, <3>4, TableKept DEF Tables
  <2>3. CASE Register(r) \/ ReadTotals(r) \/ SeeCount(r) \/ ReportInit(r) \/ ReadQuota(r)
    BY <1>0, <2>3 DEF Register, ReadTotals, SeeCount, ReportInit, ReadQuota
  <2> QED
    BY <1>2, <2>1, <2>2, <2>3 DEF MainThread
<1>3. ASSUME NEW r \in Receivers, NEW q \in Receivers, ConnectThread(r, q) PROVE Tables'
  BY <1>3, TablesConnect, TablesCountConnected, TablesStoreConnected DEF ConnectThread
<1>4. ASSUME NEW r \in Receivers, AcceptThread(r) PROVE Tables'
  BY <1>4, TablesTestAccept, TablesAccept, TablesCountAccepted, TablesStoreAccepted
  DEF AcceptThread
<1>5. CASE UNCHANGED vars
  BY <1>0, <1>5 DEF vars
<1> QED
  BY <1>1, <1>2, <1>3, <1>4, <1>5 DEF Next, ProgramStep, SetUp

LEMMA WaitsInit == Init => Waits
  BY DEF Init, Waits

\* A count that is high enough stays so.
LEMMA CountGrows ==
  ASSUME recv_cnt \in [Receivers -> Nat], NEW r \in Receivers,
         recv_cnt' = recv_cnt \/ recv_cnt' = [recv_cnt EXCEPT ![r] = @ + 1]
  PROVE  \A p \in Receivers : recv_cnt[p] >= N - 1 => recv_cnt'[p] >= N - 1
<1>1. ASSUME NEW p \in Receivers, recv_cnt[p] >= N - 1 PROVE recv_cnt'[p] >= N - 1
  <2>1. recv_cnt'[p] = recv_cnt[p] \/ recv_cnt'[p] = recv_cnt[p] + 1
    OBVIOUS
  <2>2. recv_cnt[p] \in Nat /\ N - 1 \in Nat
    BY SlotsNat
  <2> QED
    BY <1>1, <2>1, <2>2
<1> QED
  BY <1>1

\* Program counters and the count are as before, or r has gone on.
LEMMA WaitsStep ==
  ASSUME Order, Tables, Waits, [Next]_vars PROVE Waits'
<1> USE NNat DEF Order, OrderTypes
<1>0. /\ recv_cnt \in [Receivers -> Nat]
      /\ acc \in [Receivers -> {"none", "test", "accept", "accepted", "counted", "ended"}]
  BY DEF Tables, TableTypes
<1>1. CASE AcceptReceiver
  BY <1>1 DEF AcceptReceiver, Waits, ToldLast, acceptVars, tableVars
<1>2. CASE Announce
  BY <1>2 DEF Announce, Waits, acceptVars, tableVars
<1>3. CASE JoinReceiver
  BY <1>3 DEF JoinReceiver, Reported, Waits, acceptVars, tableVars
<1>4. ASSUME NEW r \in Receivers, MainThread(r) PROVE Waits'
  <2>0. \A i \in 1 .. joined : clnt_socks[i] \in Receivers
    BY DEF Waits, ToldLast
  <2>1. CASE Listen(r)
    BY <1>0, <2>0, <2>1 DEF Listen, Waits, senderVars, tableVars
  <2>2. CASE Register(r) \/ ReadTotals(r)
    <3>1. PICK pc \in {"registered", "connecting"} :
            /\ main' = [main EXCEPT ![r] = pc]
            /\ main[r] \in {"listening", "registered"}
      BY <2>2 DEF Register, ReadTotals
    <3>2. UNCHANGED <<senderVars, conn, acceptVars, tableVars>>
      BY <2>2 DEF Register, ReadTotals
    <3> QED
      BY <2>0, <3>1, <3>2 DEF Waits, senderVars, acceptVars, tableVars
  <2>3. CASE ReadAddress(r)
    <3>1. /\ main[r] = "connecting"
          /\ \A p \in Receivers : p # r => conn'[p] = conn[p]
      BY <2>3 DEF ReadAddress
    <3> QED
      BY <2>3, <3>1 DEF ReadAddress, Waits, senderVars, acceptVars, tableVars
  <2>4. CASE SeeCount(r)
    BY <2>0, <2>4 DEF SeeCount, EnoughSockets, Waits, senderVars, acceptVars, tableVars
  <2>5. CASE ReportInit(r)
    BY <2>0, <2>5 DEF ReportInit, Waits, senderVars, acceptVars, tableVars
  <2>6. CASE ReadQuota(r)
    BY <2>0, <2>6 DEF ReadQuota, Waits, senderVars, acceptVars, tableVars
  <2> QED
    BY <1>4, <2>1, <2>2, <2>3, <2>4, <2>5, <2>6 DEF MainThread
<1>5. ASSUME NEW r \in Receivers, NEW q \in Receivers, ConnectThread(r, q) PROVE Waits'
  <2>1. PICK pc \in {"connected", "failed", "counted", "done"} :
          /\ conn' = [conn EXCEPT ![r][q] = pc]
          /\ conn[r][q] \notin {"none", "done", "failed"}
    BY <1>5 DEF ConnectThread, Connect, CountConnected, StoreConnected
  <2>2. UNCHANGED <<clnt_socks, announced, joined, main, acc>>
    BY <1>5 DEF ConnectThread, Connect, CountConnected, StoreConnected, senderVars,
                acceptVars
  <2>3. recv_cnt' = recv_cnt \/ recv_cnt' = [recv_cnt EXCEPT ![r] = @ + 1]
    BY <1>5 DEF ConnectThread, Connect, CountConnected, StoreConnected, tableVars
  <2>4. \A p \in Receivers : recv_cnt[p] >= N - 1 => recv_cnt'[p] >= N - 1
    BY <1>0, <2>3, CountGrows
  <2>5. \A p \in Receivers : p # r => conn'[p] = conn[p]
    BY <2>1
  <2>6. main[r] \notin {"reported", "ready"}
    BY <2>1 DEF Waits
  <2> QED
    <3>1. \A p \in Receivers : main[p] \in {"reported", "ready"} => conn'[p] = conn[p]
      BY <2>5, <2>6
    <3> QED
      BY <2>2, <2>4, <3>1 DEF Waits
<1>6. ASSUME NEW r \in Receivers, AcceptThread(r) PROVE Waits'
  <2>1. UNCHANGED <<clnt_socks, announced, joined, main, conn>>
    BY <1>6 DEF AcceptThread, TestAccept, Accept, CountAccepted, StoreAccepted, senderVars
  <2>2. recv_cnt' = recv_cnt \/ recv_cnt' = [recv_cnt EXCEPT ![r] = @ + 1]
    BY <1>6 DEF AcceptThread, TestAccept, Accept, CountAccepted, StoreAccepted, tableVars
  <2>3. \A p \in Receivers : recv_cnt[p] >= N - 1 => recv_cnt'[p] >= N - 1
    BY <1>0, <2>2, CountGrows
  <2>4. PICK pc \in {"accept", "accepted", "counted", "test", "ended"} :
          /\ acc' = [acc EXCEPT ![r] = pc]
          /\ acc[r] # "none"
          /\ pc = "ended" => recv_cnt[r] >= N - 1
    BY <1>0, <1>6 DEF AcceptThread, TestAccept, StillExpected, Accept, CountAccepted,
                      StoreAccepted
  <2> QED
    BY <1>0, <2>1, <2>4, <2>3 DEF Waits
<1>7. CASE UNCHANGED vars
  BY <1>7 DEF vars, Waits, senderVars, acceptVars, tableVars
<1> QED
  BY <1>1, <1>2, <1>3, <1>4, <1>5, <1>6, <1>7 DEF Next, ProgramStep, SetUp, SenderStep

-------------------------------------------------------------------------------
(* The theorems. *)

\* The inductive invariant: the order in which receivers are accepted, the tables
\* of sockets, what the program counters say of them.
MeshInv == Order /\ Tables /\ Waits

THEOREM MeshInvCorrect == Spec => []MeshInv
<1>1. Init => MeshInv
  BY OrderInit, TablesInit, WaitsInit DEF MeshInv
<1>2. MeshInv /\ [Next]_vars => MeshInv'
  BY OrderStep, TablesStep, WaitsStep DEF MeshInv
<1> QED
  BY <1>1, <1>2, PTL DEF Spec

\* recv_cnt counts every peer once, under any schedule of the threads that raise
\* it.
THEOREM CountIsPeersCorrect == Spec => []CountIsPeers
<1>1. MeshInv => CountIsPeers
  BY DEF MeshInv, Tables, Table, CountIsRight, CountIsPeers
<1> QED
  BY <1>1, MeshInvCorrect, PTL

\* The accepting thread leaves nobody in the listen queue.
THEOREM NobodyLeftWaitingCorrect == Spec => []NobodyLeftWaiting
<1>1. MeshInv => NobodyLeftWaiting
  <2> SUFFICES ASSUME MeshInv, NEW r \in Receivers, acc[r] = "ended", backlog[r] # << >>
               PROVE  FALSE
    BY DEF NobodyLeftWaiting
  <2> DEFINE q == Head(backlog[r])
  <2>1. q \in Receivers /\ In(q, backlog[r])
    BY HeadIn DEF MeshInv, Tables, TableTypes
  <2>2. conn[q][r] \in Linked /\ ~ Held(r, q)
    BY <2>1 DEF MeshInv, Tables, Table, WaitingIsNew
  <2>3. conn[r][q] = "none" /\ q # r
    BY <2>1, <2>2, OneConnects DEF MeshInv, Linked
  <2>4. Counted(r) = Receivers \ {r}
    BY CountBound DEF MeshInv, Waits, Tables, Table
  <2>5. q \notin Counted(r)
    BY <2>1, <2>2, <2>3, CountedMembers DEF MeshInv, Tables
  <2> QED
    BY <2>1, <2>3, <2>4, <2>5
<1> QED
  BY <1>1, MeshInvCorrect, PTL

\* When all N are accepted, everybody is.
LEMMA AllAccepted ==
  ASSUME Order, Len(clnt_socks) = N, NEW r \in Receivers PROVE In(r, clnt_socks)
<1>1. clnt_socks \in Injection(1 .. N, Receivers)
  BY DEF Order, OrderTypes, AcceptedOnce, Distinct, Injection, IsInjective
<1>2. Cardinality(1 .. N) = N
  BY NNat, FS_Interval
<1>3. clnt_socks \in Surjection(1 .. N, Receivers)
  BY <1>1, <1>2, MeshAssumption, FS_Injection DEF N
<1> QED
  BY <1>3 DEF Surjection, In

\* The sender sends segments only when every receiver is connected to all the
\* others.
THEOREM SendingMeansMeshCorrect == Spec => []SendingMeansMesh
<1>1. MeshInv => SendingMeansMesh
  <2> SUFFICES ASSUME MeshInv, Sending, NEW r \in Receivers
               PROVE  Counted(r) = Receivers \ {r}
    BY DEF SendingMeansMesh
  <2>1. joined = N /\ Len(clnt_socks) = N
    BY NNat DEF MeshInv, Sending, Waits, Order, OrderTypes, ToldLast
  <2>2. PICK i \in 1 .. N : clnt_socks[i] = r
    BY <2>1, AllAccepted DEF MeshInv, In
  <2>3. recv_cnt[r] >= N - 1
    BY <2>1, <2>2 DEF MeshInv, Waits
  <2> QED
    BY <2>3, CountBound DEF MeshInv, Tables, Table
<1> QED
  BY <1>1, MeshInvCorrect, PTL

\* The table of a receiver that has seen the count, whether the last entry is there
\* or not.
LEMMA SeenTable ==
  ASSUME MeshInv, NEW r \in Receivers, main[r] \in {"joining", "reported", "ready"}
  PROVE  /\ Counted(r) = Receivers \ {r}
         /\ recv_cnt[r] = N - 1
         /\ \A i \in Slots : recv_socks[r][i] # NoSock <=> (Locked(r) => i # N - 2)
         /\ Locked(r) => N - 2 \in Slots
<1>1. Counted(r) = Receivers \ {r} /\ recv_cnt[r] = N - 1
  <2>1. recv_cnt[r] >= N - 1 /\ TableTypes /\ CountIsRight(r) /\ recv_cnt[r] \in Nat
    BY DEF MeshInv, Waits, Tables, Table, TableTypes
  <2>2. recv_cnt[r] <= N - 1 /\ Counted(r) = Receivers \ {r}
    BY <2>1, CountBound
  <2> QED
    BY <2>1, <2>2, NNat
<1>2. Filled(r)
  BY DEF MeshInv, Tables, Table
<1>3. ASSUME NEW i \in Slots
      PROVE  recv_socks[r][i] # NoSock <=> (Locked(r) => i # N - 2)
  <2>1. recv_socks[r][i] # NoSock <=> i < N - 1 /\ (Locked(r) => i + 1 < N - 1)
    BY <1>1, <1>2 DEF Filled
  <2>2. i < N - 1 /\ (i + 1 < N - 1 <=> i # N - 2)
    BY NNat DEF Slots
  <2> QED
    BY <2>1, <2>2
<1>4. Locked(r) => N - 2 \in Slots
  BY <1>1, <1>2, NNat DEF Filled, Slots
<1> QED
  BY <1>1, <1>3, <1>4

\* The socket that the holder of the mutex has in hand is not in the table.
LEMMA HolderIs ==
  ASSUME MeshInv, NEW r \in Receivers, main[r] \in {"joining", "reported", "ready"}, Locked(r)
  PROVE  \E q \in Receivers : InHand(r, q) /\ ~ Held(r, q) /\ \A p \in Counted(r) : p = q \/ Held(r, p)
<1>1. TableTypes /\ OneHolder(r) /\ HeldIsLinked(r) /\ AcceptedIsNew(r)
  BY DEF MeshInv, Tables, Table
<1>2. \A p \in Counted(r) :
        Held(r, p) \/ conn[r][p] = "counted" \/ (acc[r] = "counted" /\ accepted[r] = p)
  <2>1. Counted(r) \subseteq Receivers
    BY <1>1, CountedMembers
  <2>2. ASSUME NEW p \in Receivers, p \in Counted(r)
        PROVE  Held(r, p) \/ conn[r][p] = "counted" \/ (acc[r] = "counted" /\ accepted[r] = p)
    <3>1. TableTypes
      BY <1>1
    <3> QED
      BY <2>2, <3>1, CountedMembers, Zenon
  <2> QED
    BY <2>1, <2>2
<1>3. CASE acc[r] = "counted"
  <2>1. accepted[r] \in Receivers /\ ~ Held(r, accepted[r])
    BY <1>1, <1>3 DEF AcceptedIsNew, TableTypes
  <2>2. \A p \in Counted(r) : p = accepted[r] \/ Held(r, p)
    BY <1>1, <1>2, <1>3, CountedMembers DEF OneHolder
  <2> QED
    BY <1>3, <2>1, <2>2 DEF InHand
<1>4. CASE acc[r] # "counted"
  <2>1. PICK q \in Receivers : conn[r][q] = "counted"
    BY <1>4 DEF Locked
  <2>2. main[r] = "joining"
    BY <2>1 DEF MeshInv, Waits
  <2>3. conn[q][r] = "none"
    BY <2>1, OneConnects DEF MeshInv
  <2>4. ~ Held(r, q)
    BY <1>1, <2>1, <2>3 DEF HeldIsLinked, Linked
  <2>5. \A p \in Counted(r) : p = q \/ Held(r, p)
    BY <1>1, <1>2, <1>4, <2>1, CountedMembers DEF OneHolder
  <2> QED
    BY <2>1, <2>2, <2>4, <2>5 DEF InHand
<1> QED
  BY <1>3, <1>4

\* The data phase starts with a table that holds each peer once, but for the last
\* entry, which the accepting thread may be about to store (client.c:155).
THEOREM TablesAreWholeButTheLastCorrect == Spec => []TablesAreWholeButTheLast
<1>1. MeshInv => TablesAreWholeButTheLast
  <2> SUFFICES ASSUME MeshInv, NEW r \in Receivers, main[r] \in {"joining", "reported", "ready"}
               PROVE  \/ TableIsWhole(r)
                      \/ /\ recv_socks[r][N - 2] = NoSock
                         /\ \E q \in Receivers \ {r} :
                              /\ InHand(r, q)
                              /\ {recv_socks[r][i] : i \in Slots \ {N - 2}} = Receivers \ {r, q}
    BY DEF TablesAreWholeButTheLast
  <2>1. /\ Counted(r) = Receivers \ {r}
        /\ \A i \in Slots : recv_socks[r][i] # NoSock <=> (Locked(r) => i # N - 2)
        /\ Locked(r) => N - 2 \in Slots
    BY SeenTable
  <2>2. \A p \in Receivers : Held(r, p) => p \in Counted(r)
    BY CountedMembers DEF MeshInv, Tables
  <2>3. \A i \in Slots : recv_socks[r][i] \in Receivers \cup {NoSock}
    BY DEF MeshInv, Tables, TableTypes
  <2>4. CASE ~ Locked(r)
    <3>1. \A i \in Slots : recv_socks[r][i] \in Receivers \ {r}
      BY <2>1, <2>2, <2>3, <2>4 DEF Held
    <3>2. \A p \in Counted(r) : Held(r, p)
      BY <2>1, <2>4, CountedMembers DEF MeshInv, Tables, Locked
    <3> QED
      BY <2>1, <3>1, <3>2 DEF TableIsWhole, Held
  <2>5. CASE Locked(r)
    <3>1. PICK q \in Receivers :
            /\ InHand(r, q) /\ ~ Held(r, q)
            /\ \A p \in Counted(r) : p = q \/ Held(r, p)
      BY <2>5, HolderIs
    <3>2. recv_socks[r][N - 2] = NoSock
      BY <2>1, <2>5
    <3>3. r # q
      BY <2>1, <3>1, CountedMembers DEF InHand, MeshInv, Tables
    <3>4. \A i \in Slots \ {N - 2} : recv_socks[r][i] \in Receivers \ {r, q}
      BY <2>1, <2>2, <2>3, <3>1 DEF Held
    <3>5. \A p \in Receivers \ {r, q} : \E i \in Slots \ {N - 2} : recv_socks[r][i] = p
      BY <2>1, <3>1, <3>2, MeshAssumption DEF Held
    <3> QED
      BY <3>1, <3>2, <3>3, <3>4, <3>5
  <2> QED
    BY <2>4, <2>5
<1> QED
  BY <1>1, MeshInvCorrect, PTL

===============================================================================
