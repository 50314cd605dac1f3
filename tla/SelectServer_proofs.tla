-------------------------- MODULE SelectServer_proofs --------------------------
(***************************************************************************)
(* What TLAPS proves about SelectServer, for any number of clients, any    *)
(* menus and files: server and clients stay in step, transfers are whole   *)
(* and what is watched is open.                                            *)
(*                                                                         *)
(* The server serves one request from its first read() to its last on one  *)
(* connection, clnt_sock: a client is either being served or has its next  *)
(* start on the way.  What is proved of a client is proved as long as it   *)
(* is not adrift, whatever those that are do.                              *)
(***************************************************************************)
EXTENDS SelectServer, FiniteSetTheorems, WellFoundedInduction, TLAPS

N == Cardinality(Clients)

Msgs == {"start", "rest", "dir", "file", "upload", "data"}

Answers == {"list", "data", "eof", "reset"}

Serving == {"start", "request", "extra", "save", "send"}

\* While a request is served the descriptor found ready is one of a client.
Types ==
  /\ server \in {"select", "scan", "down"} \cup Serving
  /\ server \in Serving => i \in Fds \ {serv_sock}
  /\ clnt_sock \in Fds
  /\ reads \subseteq Fds
  /\ ready \subseteq reads
  /\ conn \in [Fds -> Clients \cup {Nobody}]
  /\ backlog \in Seq(Clients)
  /\ client \in [Clients -> {"off", "list", "menu", "download", "done", "saved", "lost"}]
  /\ up \in [Clients -> Seq(Msgs)]
  /\ shut \subseteq Clients
  /\ down \in [Clients -> Seq(Answers)]
  /\ got \in [Clients -> Nat]
  /\ kept \in Nat

Accepted(c) == \E f \in Fds : conn[f] = c

Queued(c) == \E k \in 1 .. Len(backlog) : backlog[k] = c

\* The server has not closed the connection with c.
Connected(c) == Accepted(c) \/ Queued(c)

\* Each client connects once.
Links ==
  /\ conn[serv_sock] = Nobody
  /\ \A f, g \in Fds : conn[f] = conn[g] /\ conn[f] # Nobody => f = g
  /\ \A c \in Clients : ~ (Accepted(c) /\ Queued(c))
  /\ \A j, k \in 1 .. Len(backlog) : backlog[j] = backlog[k] => j = k
  /\ \A c \in Clients : client[c] = "off" => ~ Connected(c)
  /\ server = "down" => \A c \in Clients : ~ Connected(c)
  /\ serv_sock \in ready => backlog # << >>

\* Descriptors are forgotten where they are closed, but for transfers.
Watched == "transfer" \notin seen /\ server # "down" => reads = {f \in Fds : Open(f)}

\* What the server is doing with c: it has read a start and waits for c's request, is
\* about to read more after a change of directory, is saving c's upload, or has
\* sent c a file and not closed the connection yet.
At(c) == IF Peer = c /\ server \in {"request", "extra", "save", "send"} THEN server ELSE "turn"

Talks(c) == client[c] \in {"list", "menu", "download"}

Data(s) == \A k \in 1 .. Len(s) : s[k] = "data"

\* An upload of which nothing has been read.
IsUpload(c) ==
  /\ up[c] # << >>
  /\ Head(up[c]) = "upload"
  /\ Data(Tail(up[c]))
  /\ client[c] = "done" => Len(up[c]) = NChunks + 1

\* What is still to come of a download before the connection is closed, and after.
IsContent(c) ==
  /\ \A k \in 1 .. Len(down[c]) : down[c][k] = "data"
  /\ got[c] + Len(down[c]) = NChunks

IsRest(c) ==
  /\ down[c] # << >>
  /\ down[c][Len(down[c])] = "eof"
  /\ \A k \in 1 .. Len(down[c]) - 1 : down[c][k] = "data"
  /\ got[c] + Len(down[c]) = NChunks + 1

Beginning(c) ==
  client[c] = "off" => c \notin shut /\ up[c] = << >> /\ down[c] = << >> /\ got[c] = 0

\* The server has sent a list, the client has read it or has made its choice.
Asking(c) ==
  \/ client[c] = "list" /\ up[c] = << >> /\ down[c] = <<"list">>
  \/ client[c] = "menu" /\ up[c] = << >> /\ down[c] = << >>
  \/ client[c] = "list" /\ up[c] = <<"dir", "start">> /\ down[c] = << >>
  \/ client[c] = "download" /\ up[c] = <<"file">> /\ down[c] = << >>

\* The start that a client has sent, and waits for the list.
Starting(c) ==
  /\ client[c] = "list"
  /\ down[c] = << >>
  /\ up[c] \in (IF At(c) = "extra" THEN {<<"start">>} ELSE {<<"start">>, <<"rest">>})

\* The file that a client reads.
Fetching(c) == client[c] = "download" /\ up[c] = << >> /\ IsContent(c)

Talking(c) ==
  Talks(c) /\ Connected(c) =>
    /\ At(c) = "request" => got[c] = 0 /\ Asking(c)
    /\ At(c) = "send" => Fetching(c)
    /\ At(c) \notin {"request", "send"} => got[c] = 0 /\ At(c) # "save" /\ Starting(c)

\* The server has closed the connection: in good order after a file, or before
\* it when it could not open it.
HungUpOn(c) ==
  Talks(c) /\ ~ Connected(c) =>
    \/ client[c] = "list" /\ down[c] = <<"reset">>
    \/ client[c] = "download" /\ ((c \in misled /\ down[c] = <<"eof">>) \/ IsRest(c))

Ending(c) ==
  /\ client[c] \in {"done", "saved"} => c \in shut
  /\ c \in shut => client[c] \in {"done", "saved", "lost"}
  /\ client[c] = "lost" /\ Connected(c) => c \in shut

\* What the server finds of a client that has ended.
Leaving(c) ==
  c \in shut /\ Connected(c) =>
    /\ At(c) = "request" => up[c] \in {<< >>, <<"dir", "start">>, <<"dir">>, <<"file">>} \/ IsUpload(c)
    /\ At(c) = "extra" => up[c] \in {<< >>, <<"start">>}
    /\ At(c) = "save" => Data(up[c]) /\ (client[c] = "done" => kept + Len(up[c]) = NChunks)
    /\ At(c) = "send" => up[c] = << >>
    /\ At(c) = "turn" => up[c] \in {<< >>, <<"start">>, <<"rest">>}

Saving(c) == client[c] = "saved" /\ c \notin misled => got[c] = NChunks

ClientOK(c) ==
  Beginning(c) /\ Talking(c) /\ HungUpOn(c) /\ Ending(c) /\ Leaving(c) /\ Saving(c)

\* The server's part of an upload.
Uploads ==
  /\ server # "save" => kept = 0
  /\ server \in {"extra", "save"} => Peer # Nobody
  /\ short \subseteq Clients
  /\ \A c \in short \ adrift : c \in shut /\ client[c] # "done"

Inv == Types /\ Links /\ Watched /\ Uploads /\ \A c \in Clients \ adrift : ClientOK(c)

\* The server process ends.
Stopping == Stop(up) \/ Stop(Taken)

-------------------------------------------------------------------------------
(* Numbers and words. *)

LEMMA NIs ==
  /\ N \in Nat /\ IsFiniteSet(Clients)
  /\ serv_sock = 3 /\ Fds = 3 .. 3 + N /\ serv_sock \in Fds
  /\ IsFiniteSet(Fds \ {serv_sock}) /\ Cardinality(Fds \ {serv_sock}) = N
<1>1. N \in Nat /\ IsFiniteSet(Clients)
  BY SelectServerAssumption, FS_CardinalityType DEF N
<1>2. serv_sock = 3 /\ Fds = 3 .. 3 + N
  BY DEF N, Fds, serv_sock
<1>3. Fds \ {serv_sock} = 4 .. 3 + N /\ serv_sock \in Fds
  BY <1>1, <1>2
<1>4. IsFiniteSet(4 .. 3 + N) /\ Cardinality(4 .. 3 + N) = N
  <2>1. PICK m \in Int : m = 3 + N
    BY <1>1
  <2>2. IsFiniteSet(4 .. m) /\ Cardinality(4 .. m) = IF 4 > m THEN 0 ELSE (m - 4) + 1
    BY FS_Interval
  <2>3. (IF 4 > m THEN 0 ELSE (m - 4) + 1) = N
    BY <1>1, <2>1
  <2> QED
    BY <2>1, <2>2, <2>3
<1> QED
  BY <1>1, <1>2, <1>3, <1>4

\* A set of natural numbers that is not empty has a least one.
LEMMA LessIs ==
  \E R : IsWellFoundedOn(R, Nat) /\ \A a, b \in Nat : <<a, b>> \in R <=> a < b
<1>1. IsWellFoundedOn(OpToRel(<, Nat), Nat)
  BY NatLessThanWellFounded, Zenon
<1>2. \A a, b \in Nat : <<a, b>> \in OpToRel(<, Nat) <=> a < b
  BY Zenon DEF OpToRel
<1> QED
  BY <1>1, <1>2, Zenon

LEMMA MinIn ==
  ASSUME NEW S \in SUBSET Nat, S # {}
  PROVE  Min(S) \in S
<1>1. PICK R : IsWellFoundedOn(R, Nat) /\ \A a, b \in Nat : <<a, b>> \in R <=> a < b
  BY LessIs
<1>2. IsWellFoundedOn(R, Nat) /\ S \subseteq Nat /\ S # {}
  BY <1>1
<1>3. PICK x \in S : \A y \in S : ~ (<<y, x>> \in R)
  BY <1>2, WFMin
<1>4. ASSUME NEW y \in S PROVE x <= y
  <2>1. x \in Nat /\ y \in Nat /\ <<y, x>> \notin R
    BY <1>3
  <2>2. ~ (y < x)
    BY <1>1, <2>1
  <2> QED
    BY <2>1, <2>2
<1> QED
  BY <1>4 DEF Min

LEMMA UploadIs ==
  ASSUME NEW k \in Nat
  PROVE  /\ Upload(k) \in Seq(Msgs) /\ Upload(k) # << >> /\ Len(Upload(k)) = k + 1
         /\ Head(Upload(k)) = "upload" /\ Data(Tail(Upload(k)))
<1> DEFINE s == [j \in 1 .. k |-> "data"]
<1>1. s \in [1 .. k -> Msgs] /\ \A j \in 1 .. k : s[j] = "data"
  BY DEF Msgs
<1>2. Upload(k) = <<"upload">> \o s
  BY DEF Upload
<1> HIDE DEF s
<1>3. s \in Seq(Msgs) /\ Len(s) = k
  BY <1>1
<1>4. "upload" \in Msgs
  BY DEF Msgs
<1>5. LET q == <<"upload">> \o s IN
        Head(q) = "upload" /\ Tail(q) = s /\ Len(q) = Len(s) + 1 /\ q # << >> /\ q \in Seq(Msgs)
  BY <1>3, <1>4
<1> QED
  BY <1>1, <1>2, <1>3, <1>5 DEF Data

LEMMA ContentIs ==
  /\ Content \in Seq(Answers) /\ Len(Content) = NChunks
  /\ \A k \in 1 .. NChunks : Content[k] = "data"
<1>1. Content \in [1 .. NChunks -> Answers] /\ \A k \in 1 .. NChunks : Content[k] = "data"
  BY DEF Content, Answers
<1>2. NChunks \in Nat
  BY SelectServerAssumption
<1> HIDE DEF Content
<1> QED
  BY <1>1, <1>2

LEMMA WordsAre ==
  /\ << >> \in Seq(Msgs) /\ <<"start">> \in Seq(Msgs) /\ <<"rest">> \in Seq(Msgs)
  /\ <<"dir", "start">> \in Seq(Msgs) /\ <<"dir">> \in Seq(Msgs) /\ <<"file">> \in Seq(Msgs)
  /\ << >> \in Seq(Answers) /\ <<"list">> \in Seq(Answers)
  /\ <<"eof">> \in Seq(Answers) /\ <<"reset">> \in Seq(Answers)
  BY DEF Msgs, Answers

LEMMA DataTail ==
  ASSUME NEW s \in Seq(Msgs), s # << >>, Data(s)
  PROVE  Head(s) = "data" /\ Data(Tail(s)) /\ Len(Tail(s)) = Len(s) - 1
BY DEF Data

-------------------------------------------------------------------------------
(* Types. *)

\* There is a descriptor for every client that connects.
LEMMA AcceptIs ==
  ASSUME Types, Links, Accept
  PROVE  /\ backlog # << >> /\ Head(backlog) \in Clients
         /\ backlog' = Tail(backlog) /\ backlog' \in Seq(Clients)
         /\ clnt_sock' \in Fds \ {serv_sock} /\ conn[clnt_sock'] = Nobody
         /\ conn' = [conn EXCEPT ![clnt_sock'] = Head(backlog)]
         /\ reads' = reads \cup {clnt_sock'}
<1> DEFINE C == Head(backlog)
           G == {g \in Fds : ~ Open(g)}
<1>1. backlog # << >> /\ C \in Clients /\ Queued(C) /\ backlog' = Tail(backlog) /\ backlog' \in Seq(Clients)
  <2>1. backlog # << >> /\ backlog \in Seq(Clients) /\ backlog' = Tail(backlog)
    BY DEF Accept, Links, Types
  <2>2. 1 \in 1 .. Len(backlog) /\ backlog[1] = C /\ C \in Clients
    BY <2>1
  <2> QED
    BY <2>1, <2>2 DEF Queued
<1>2. G # {}
  <2> SUFFICES ASSUME G = {} PROVE FALSE
    OBVIOUS
  <2> DEFINE F == Fds \ {serv_sock}
             g == [f \in F |-> conn[f]]
             T == Clients \ {C}
  <2>1. \A f \in F : conn[f] # Nobody
    BY DEF Open
  <2>2. g \in [F -> T]
    BY <1>1, <2>1 DEF Types, Links, Accepted
  <2>3. \A x, y \in F : g[x] = g[y] => x = y
    BY <2>1 DEF Links
  <2>4. IsFiniteSet(F) /\ Cardinality(F) = N /\ IsFiniteSet(Clients) /\ N \in Nat
    BY NIs
  <2>5. IsFiniteSet(T) /\ Cardinality(T) = N - 1
    BY <1>1, <2>4, FS_RemoveElement DEF N
  <2>6. Cardinality(T) < Cardinality(F)
    BY <2>4, <2>5
  <2> HIDE DEF F, g, T
  <2>7. \E x, y \in F : x # y /\ g[x] = g[y]
    BY <2>2, <2>4, <2>5, <2>6, FS_PigeonHole
  <2> QED
    BY <2>3, <2>7
<1>3. Min(G) \in G
  <2>1. G \in SUBSET Nat
    BY NIs
  <2> HIDE DEF G
  <2> QED
    BY <1>2, <2>1, MinIn
<1> QED
  BY <1>1, <1>3 DEF Accept, Open

LEMMA HangupIs ==
  ASSUME Types, NEW cs, NEW left
  PROVE  /\ Hangup(cs, left) \in [Clients -> Seq(Answers)]
         /\ \A c \in Clients :
              Hangup(cs, left)[c] = IF c \in cs \ shut THEN Append(down[c], Farewell(c, left)) ELSE down[c]
<1>1. \A c \in Clients : Farewell(c, left) \in Answers /\ down[c] \in Seq(Answers)
  BY DEF Farewell, Answers, Types
<1>2. \A c \in Clients : Append(down[c], Farewell(c, left)) \in Seq(Answers)
  BY <1>1
<1> QED
  BY <1>1, <1>2 DEF Hangup

LEMMA SentIs ==
  ASSUME Types, NEW c \in Clients, NEW ts \in Seq(Msgs)
  PROVE  /\ Sent(c, ts) \in [Clients -> Seq(Msgs)]
         /\ \A d \in Clients \ {c} : Sent(c, ts)[d] = up[d]
         /\ down[c] = << >> /\ up[c] = << >> => Sent(c, ts)[c] = ts
<1>1. up[c] \o ts \in Seq(Msgs) /\ << >> \o ts = ts
  BY DEF Types
<1>2. down[c] = << >> => ~ HungUp(c)
  BY DEF HungUp
<1> QED
  BY <1>1, <1>2 DEF Sent, Types

\* When the server process ends all connections do.
LEMMA StopIs ==
  ASSUME Types, Links, NEW left, Stop(left)
  PROVE  /\ Types'
         /\ \A f \in Fds : conn'[f] = Nobody
         /\ backlog' = << >> /\ ready' = {} /\ server' = "down"
         /\ \A c \in Clients : ~ Connected(c)' /\ up'[c] = << >>
         /\ \A c \in Clients :
              down'[c] = IF c \notin shut /\ Connected(c) THEN Append(down[c], Farewell(c, left))
                                                          ELSE down[c]
         /\ UNCHANGED <<client, shut, got, short, seen, adrift>>
<1> DEFINE cs == {conn[f] : f \in Fds} \cup {backlog[k] : k \in 1 .. Len(backlog)}
<1>1. \A c \in Clients : c \in cs <=> Connected(c)
  BY DEF Connected, Accepted, Queued
<1>2. /\ server' = "down" /\ conn' = [f \in Fds |-> Nobody] /\ backlog' = << >> /\ ready' = {}
      /\ up' = [c \in Clients |-> << >>] /\ kept' = 0
      /\ down' = Hangup(cs, left)
      /\ UNCHANGED <<clnt_sock, reads, client, shut, got, short, seen, adrift>>
  BY DEF Stop, clientVars
<1> HIDE DEF cs
<1>3. /\ down' \in [Clients -> Seq(Answers)]
      /\ \A c \in Clients :
           down'[c] = IF c \in cs \ shut THEN Append(down[c], Farewell(c, left)) ELSE down[c]
  BY <1>2, HangupIs
<1>4. up' \in [Clients -> Seq(Msgs)] /\ conn' \in [Fds -> Clients \cup {Nobody}]
      /\ backlog' \in Seq(Clients)
  BY <1>2, WordsAre
<1>5. Types'
  BY <1>2, <1>3, <1>4 DEF Types, Serving
<1>6. \A c \in Clients : ~ Connected(c)'
  <2>1. \A c \in Clients : ~ Accepted(c)'
    BY <1>2, SelectServerAssumption DEF Accepted
  <2>2. \A c \in Clients : ~ Queued(c)'
    BY <1>2 DEF Queued
  <2> QED
    BY <2>1, <2>2 DEF Connected
<1> QED
  BY <1>1, <1>2, <1>3, <1>5, <1>6


LEMMA PeerIs ==
  ASSUME Types
  PROVE  Peer \in Clients \cup {Nobody}
BY DEF Types, Peer

\* Taking what has come in off the way to the server.
LEMMA TakenIs ==
  ASSUME Types, HasData(Peer)
  PROVE  /\ Peer \in Clients /\ up[Peer] \in Seq(Msgs) /\ up[Peer] # << >>
         /\ Head(up[Peer]) \in Msgs /\ Tail(up[Peer]) \in Seq(Msgs)
         /\ <<"rest">> \o Tail(up[Peer]) \in Seq(Msgs)
         /\ AfterRequest(up[Peer]) \subseteq Seq(Msgs)
<1>1. Peer \in Clients /\ up[Peer] \in Seq(Msgs) /\ up[Peer] # << >>
  BY PeerIs DEF HasData, Types
<1>2. Tail(up[Peer]) \in Seq(Msgs) /\ <<"rest">> \o Tail(up[Peer]) \in Seq(Msgs)
  BY <1>1, WordsAre
<1>3. AfterRequest(up[Peer]) \subseteq {Tail(up[Peer]), up[Peer], <<"rest">> \o Tail(up[Peer])}
  BY DEF AfterRequest
<1>4. Head(up[Peer]) \in Msgs
  BY <1>1
<1>5. AfterRequest(up[Peer]) \subseteq Seq(Msgs)
  BY <1>1, <1>2, <1>3, Zenon
<1> QED
  BY <1>1, <1>2, <1>4, <1>5

LEMMA TypesNext ==
  ASSUME Types, Links, [Next]_vars
  PROVE  Types'
<1>1. CASE Stopping
  BY <1>1, StopIs DEF Stopping
<1>2. CASE Select
  BY <1>2 DEF Select, Types, Serving, loopVars, uploadVars, clientVars
<1>3. CASE Accept
  <2>1. conn' \in [Fds -> Clients \cup {Nobody}] /\ backlog' \in Seq(Clients)
        /\ clnt_sock' \in Fds /\ reads' \subseteq Fds /\ ready' \subseteq reads'
    BY <1>3, AcceptIs DEF Accept, Types
  <2> QED
    BY <1>3, <2>1 DEF Accept, Types, Serving, uploadVars, clientVars
<1>4. CASE Serve
  <2>1. ready \in SUBSET Nat /\ ready # {} /\ serv_sock \notin ready
    BY <1>4, NIs DEF Serve, Types
  <2>2. i' \in Fds \ {serv_sock} /\ ready' \subseteq ready
    BY <1>4, <2>1, MinIn DEF Serve, Types
  <2> QED
    BY <1>4, <2>2 DEF Serve, Types, Serving, loopVars, uploadVars, clientVars
<1>5. CASE EndScan
  BY <1>5 DEF EndScan, Types, Serving, loopVars, uploadVars, clientVars
<1>6. CASE ReadStart /\ ~ Stopping
  <2>1. up' \in [Clients -> Seq(Msgs)]
    BY <1>6, TakenIs DEF ReadStart, ShortRead, AfterMessage, Stopping, Types
  <2>2. down' \in [Clients -> Seq(Answers)]
    <3>1. \A c \in Clients : down[c] \o DirectoryList \in Seq(Answers)
      BY WordsAre DEF Types, DirectoryList
    <3> QED
      BY <1>6, <3>1, TakenIs DEF ReadStart, Stopping, Types
  <2> QED
    BY <1>6, <2>1, <2>2 DEF ReadStart, Stopping, Types, Serving, loopVars, uploadVars, clientVars
<1>7. CASE Disconnect
  <2>1. down' \in [Clients -> Seq(Answers)]
    BY <1>7, HangupIs DEF Disconnect
  <2>2. up' \in [Clients -> Seq(Msgs)]
    BY <1>7, WordsAre DEF Disconnect, Types
  <2>3. reads' \subseteq reads /\ ready' = {}
    BY <1>7 DEF Disconnect, StillWatched
  <2> QED
    BY <1>7, <2>1, <2>2, <2>3 DEF Disconnect, Types, Serving, uploadVars, clientVars
<1>8. CASE ReadRequest
  <2>1. up' \in [Clients -> Seq(Msgs)]
    BY <1>8, TakenIs DEF ReadRequest, Types
  <2>2. server' \in {"extra", "save", "scan"} /\ server = "request"
    BY <1>8 DEF ReadRequest
  <2> QED
    BY <1>8, <2>1, <2>2 DEF ReadRequest, Types, Serving, loopVars, uploadVars, clientVars
<1>9. CASE SendFile
  <2>1. up' \in [Clients -> Seq(Msgs)]
    BY <1>9, TakenIs DEF SendFile, Taken, Types
  <2>2. down' \in [Clients -> Seq(Answers)]
    <3>1. \A c \in Clients : down[c] \o Content \in Seq(Answers)
      BY ContentIs DEF Types
    <3> QED
      BY <1>9, <3>1, TakenIs DEF SendFile, Types
  <2> QED
    BY <1>9, <2>1, <2>2 DEF SendFile, Types, Serving, loopVars, uploadVars, clientVars
<1>10. CASE ReadExtra
  <2>1. up' \in [Clients -> Seq(Msgs)]
    BY <1>10, TakenIs DEF ReadExtra, Types
  <2>2. server' \in {"scan", "select"} /\ ready' \subseteq ready
    BY <1>10 DEF ReadExtra
  <2> QED
    BY <1>10, <2>1, <2>2 DEF ReadExtra, Types, Serving, loopVars, uploadVars, clientVars
<1>11. CASE SaveFile
  <2>1. up' \in [Clients -> Seq(Msgs)]
    BY <1>11, TakenIs DEF SaveFile, Taken, Types
  <2>2. kept' \in {kept + 1, 0} /\ conn' \in {conn, [conn EXCEPT ![clnt_sock] = Nobody]}
    BY <1>11 DEF SaveFile
  <2>3. kept' \in Nat /\ conn' \in [Fds -> Clients \cup {Nobody}]
    <3>1. kept + 1 \in Nat /\ 0 \in Nat
      BY DEF Types
    <3>2. [conn EXCEPT ![clnt_sock] = Nobody] \in [Fds -> Clients \cup {Nobody}]
      BY DEF Types
    <3>3. conn \in [Fds -> Clients \cup {Nobody}]
      BY DEF Types
    <3> QED
      BY <2>2, <3>1, <3>2, <3>3, Zenon
  <2> QED
    BY <1>11, <2>1, <2>3 DEF SaveFile, Types, Serving, clientVars
<1>19. CASE CloseFile /\ ~ Stopping
  <2>1. down' \in [Clients -> Seq(Answers)]
    BY <1>19, HangupIs DEF CloseFile, Stopping
  <2>3. up' \in [Clients -> Seq(Msgs)]
    BY <1>19, WordsAre DEF CloseFile, Stopping, Types
  <2>2. conn' \in [Fds -> Clients \cup {Nobody}]
    BY <1>19 DEF CloseFile, Stopping, Types
  <2> QED
    BY <1>19, <2>1, <2>2, <2>3 DEF CloseFile, Stopping, Types, Serving, uploadVars, clientVars
<1>12. ASSUME NEW c \in Clients, Connect(c) PROVE Types'
  <2>1. up' \in {up, Sent(c, <<"start">>)} /\ backlog' \in {backlog, Append(backlog, c)}
    BY <1>12 DEF Connect
  <2>2. up' \in [Clients -> Seq(Msgs)] /\ backlog' \in Seq(Clients)
    <3>1. Sent(c, <<"start">>) \in [Clients -> Seq(Msgs)]
      BY SentIs, WordsAre
    <3>2. up \in [Clients -> Seq(Msgs)] /\ backlog \in Seq(Clients)
      BY DEF Types
    <3>3. Append(backlog, c) \in Seq(Clients)
      BY <3>2
    <3> QED
      BY <2>1, <3>1, <3>2, <3>3, Zenon
  <2> QED
    BY <1>12, <2>1, <2>2 DEF Connect, Types, Serving, serverVars, uploadVars
<1>13. ASSUME NEW c \in Clients, ReadList(c) PROVE Types'
  <2>1. down' \in [Clients -> Seq(Answers)]
    <3>1. down[c] \in Seq(Answers) /\ down[c] # << >>
      BY <1>13 DEF ReadList, Types
    <3>2. Tail(down[c]) \in Seq(Answers)
      BY <3>1
    <3> QED
      BY <1>13, <3>2 DEF ReadList, AfterList, Types
  <2> QED
    BY <1>13, <2>1 DEF ReadList, Types, Serving, serverVars, uploadVars
<1>14. ASSUME NEW c \in Clients, Choose(c) PROVE Types'
  <2>1. up' \in [Clients -> Seq(Msgs)]
    <3>1. \A k \in 0 .. NChunks : Sent(c, Upload(k)) \in [Clients -> Seq(Msgs)]
      BY SentIs, UploadIs
    <3>2. Sent(c, <<"dir", "start">>) \in [Clients -> Seq(Msgs)]
          /\ Sent(c, <<"dir">>) \in [Clients -> Seq(Msgs)]
          /\ Sent(c, <<"file">>) \in [Clients -> Seq(Msgs)]
      BY SentIs, WordsAre
    <3>3. NChunks \in Nat
      BY SelectServerAssumption
    <3>4. up' \in {up, Sent(c, <<"dir", "start">>), Sent(c, <<"dir">>), Sent(c, <<"file">>)}
          \/ \E k \in 0 .. NChunks : up' = Sent(c, Upload(k))
      BY <1>14, <3>3 DEF Choose
    <3> QED
      BY <3>1, <3>2, <3>4 DEF Types
  <2>2. down' \in [Clients -> Seq(Answers)]
    BY <1>14, WordsAre DEF Choose, Leave, Types
  <2>3. client' \in [Clients -> {"off", "list", "menu", "download", "done", "saved", "lost"}]
        /\ shut' \subseteq Clients
    BY <1>14 DEF Choose, Leave, Types
  <2> QED
    BY <1>14, <2>1, <2>2, <2>3 DEF Choose, Types, Serving, serverVars, uploadVars
<1>15. ASSUME NEW c \in Clients, ReadFile(c) PROVE Types'
  <2>1. down' \in [Clients -> Seq(Answers)]
    <3>1. down[c] \in Seq(Answers) /\ down[c] # << >>
      BY <1>15 DEF ReadFile, Types
    <3>2. Tail(down[c]) \in Seq(Answers)
      BY <3>1
    <3> QED
      BY <1>15, <3>2, WordsAre DEF ReadFile, Leave, Types
  <2>2. got' \in {got, [got EXCEPT ![c] = @ + 1]} /\ shut' \in {shut, shut \cup {c}}
        /\ client' \in {client, [client EXCEPT ![c] = "saved"], [client EXCEPT ![c] = "lost"]}
    BY <1>15 DEF ReadFile, Leave
  <2>3. got' \in [Clients -> Nat] /\ shut' \subseteq Clients
        /\ client' \in [Clients -> {"off", "list", "menu", "download", "done", "saved", "lost"}]
    <3>1. [got EXCEPT ![c] = @ + 1] \in [Clients -> Nat] /\ got \in [Clients -> Nat]
      BY DEF Types
    <3>2. got' \in [Clients -> Nat]
      BY <2>2, <3>1, Zenon
    <3>3. client' \in [Clients -> {"off", "list", "menu", "download", "done", "saved", "lost"}]
      BY <2>2 DEF Types
    <3>4. shut' \subseteq Clients
      BY <2>2 DEF Types
    <3> QED
      BY <3>2, <3>3, <3>4
  <2> QED
    BY <1>15, <2>1, <2>3 DEF ReadFile, Types, Serving, serverVars, uploadVars
<1>16. ASSUME NEW c \in Clients, OpenCopyFails(c) \/ Kill(c) PROVE Types'
  <2>1. down' = [down EXCEPT ![c] = << >>] /\ up' \in {up, [up EXCEPT ![c] = << >>]}
    BY <1>16 DEF OpenCopyFails, Kill, Leave
  <2>3. down' \in [Clients -> Seq(Answers)] /\ up' \in [Clients -> Seq(Msgs)]
    BY <2>1, WordsAre DEF Types
  <2>2. shut' \subseteq Clients
        /\ client' \in [Clients -> {"off", "list", "menu", "download", "done", "saved", "lost"}]
    BY <1>16 DEF OpenCopyFails, Kill, Leave, Types
  <2>4. got' \in {got, [got EXCEPT ![c] = 0]}
    BY <1>16 DEF OpenCopyFails, Kill
  <2>5. got' \in [Clients -> Nat]
    <3>1. [got EXCEPT ![c] = 0] \in [Clients -> Nat] /\ got \in [Clients -> Nat]
      BY DEF Types
    <3> QED
      BY <2>4, <3>1, Zenon
  <2> QED
    BY <1>16, <2>2, <2>3, <2>5 DEF OpenCopyFails, Kill, Types, Serving, serverVars, uploadVars
<1>17. CASE UNCHANGED vars
  BY <1>17 DEF vars, Types, Serving, loopVars, uploadVars, clientVars
<1>18. SelectFails \/ SendFileFails => Stopping
  BY DEF SelectFails, SendFileFails, Stopping
<1> QED
  BY <1>1, <1>2, <1>3, <1>4, <1>5, <1>6, <1>7, <1>8, <1>9, <1>10, <1>11, <1>12, <1>13, <1>14,
     <1>15, <1>16, <1>17, <1>18, <1>19 DEF Next, ServerStep, ClientStep, Over

-------------------------------------------------------------------------------
(* Connections. *)

LEMMA LinksSame ==
  ASSUME Links, UNCHANGED <<conn, backlog>>, ready' \subseteq ready,
         server' = "down" => server = "down",
         \A c \in Clients : client'[c] = "off" => client[c] = "off"
  PROVE  Links' /\ \A c \in Clients : Connected(c)' <=> Connected(c)
BY DEF Links, Connected, Accepted, Queued

\* A connection is closed.
LEMMA LinksClose ==
  ASSUME Types, Links, NEW f \in Fds, conn' = [conn EXCEPT ![f] = Nobody],
         UNCHANGED <<backlog, client>>, ready' \subseteq ready, server' # "down"
  PROVE  Links' /\ \A c \in Clients : Connected(c)' <=> Connected(c) /\ c # conn[f]
<1>1. conn'[f] = Nobody /\ \A g \in Fds \ {f} : conn'[g] = conn[g]
  BY DEF Types
<1>2. \A c \in Clients : Accepted(c)' <=> Accepted(c) /\ c # conn[f]
  BY <1>1, SelectServerAssumption DEF Accepted, Links
<1>3. \A c \in Clients : Queued(c)' <=> Queued(c)
  BY DEF Queued
<1>4. \A c \in Clients : Queued(c) => c # conn[f]
  BY DEF Links, Accepted
<1>5. \A c \in Clients : Connected(c)' <=> Connected(c) /\ c # conn[f]
  BY <1>2, <1>3, <1>4 DEF Connected
<1> QED
  BY <1>1, <1>2, <1>3, <1>5 DEF Links

LEMMA LinksAccept ==
  ASSUME Types, Links, Accept
  PROVE  Links' /\ \A c \in Clients : Connected(c)' <=> Connected(c)
<1> DEFINE C == Head(backlog)
           f == clnt_sock'
<1>1. backlog \in Seq(Clients) /\ backlog # << >> /\ C \in Clients /\ backlog' = Tail(backlog)
  BY AcceptIs DEF Types
<1>2. /\ Len(backlog) \in Nat /\ Len(backlog) >= 1 /\ Len(backlog') = Len(backlog) - 1
      /\ backlog[1] = C /\ \A k \in 1 .. Len(backlog') : backlog'[k] = backlog[k + 1]
  BY <1>1
<1>3. Queued(C)
  BY <1>2 DEF Queued
<1>4. f \in Fds \ {serv_sock} /\ conn[f] = Nobody /\ conn' = [conn EXCEPT ![f] = C]
  BY AcceptIs
<1>5. conn'[f] = C /\ \A g \in Fds \ {f} : conn'[g] = conn[g]
  BY <1>4 DEF Types
<1>6. ~ Accepted(C) /\ C # Nobody
  BY <1>1, <1>3, SelectServerAssumption DEF Links
<1> HIDE DEF f, C
<1>7. \A c \in Clients : Accepted(c)' <=> Accepted(c) \/ c = C
  BY <1>4, <1>5, SelectServerAssumption DEF Accepted
<1>8. \A c \in Clients : Queued(c)' <=> Queued(c) /\ c # C
  <2>1. ASSUME NEW k \in 1 .. Len(backlog')
        PROVE  k + 1 \in 1 .. Len(backlog) /\ k + 1 # 1 /\ 1 \in 1 .. Len(backlog)
    BY <1>2
  <2>2. ASSUME NEW c \in Clients, Queued(c)' PROVE Queued(c) /\ c # C
    BY <1>2, <2>1, <2>2 DEF Queued, Links
  <2>3. ASSUME NEW c \in Clients, Queued(c), c # C PROVE Queued(c)'
    <3>1. PICK k \in 1 .. Len(backlog) : backlog[k] = c
      BY <2>3 DEF Queued
    <3>2. k # 1
      BY <1>2, <2>3, <3>1
    <3>3. k - 1 \in 1 .. Len(backlog') /\ (k - 1) + 1 = k
      BY <1>2, <3>1, <3>2
    <3>4. backlog'[k - 1] = c
      BY <1>2, <3>1, <3>3
    <3> QED
      BY <3>3, <3>4 DEF Queued
  <2> QED
    BY <2>2, <2>3
<1>9. \A c \in Clients : Connected(c)' <=> Connected(c)
  BY <1>3, <1>7, <1>8 DEF Connected
<1>10. \A g, h \in Fds : conn'[g] = conn'[h] /\ conn'[g] # Nobody => g = h
  <2>1. \A g \in Fds : conn[g] # C
    BY <1>6 DEF Accepted
  <2> QED
    BY <1>4, <1>5, <2>1 DEF Links
<1>11. \A j, k \in 1 .. Len(backlog') : backlog'[j] = backlog'[k] => j = k
  <2> SUFFICES ASSUME NEW j \in 1 .. Len(backlog'), NEW k \in 1 .. Len(backlog'),
                      backlog'[j] = backlog'[k]
               PROVE  j = k
    OBVIOUS
  <2>1. j + 1 \in 1 .. Len(backlog) /\ k + 1 \in 1 .. Len(backlog)
        /\ backlog[j + 1] = backlog[k + 1]
    BY <1>2
  <2>2. j + 1 = k + 1
    BY <2>1 DEF Links
  <2> QED
    BY <2>2
<1>12. serv_sock \notin ready' /\ server' # "down" /\ client' = client
  BY DEF Accept, clientVars
<1>13. \A c \in Clients : ~ (Accepted(c)' /\ Queued(c)')
  BY <1>7, <1>8 DEF Links
<1>14. conn'[serv_sock] = Nobody
  BY <1>4, <1>5, NIs DEF Links
<1> QED
  BY <1>9, <1>10, <1>11, <1>12, <1>13, <1>14 DEF Links

LEMMA LinksConnect ==
  ASSUME Types, Links, NEW c \in Clients, Connect(c)
  PROVE  /\ Links'
         /\ server # "down" /\ client' = [client EXCEPT ![c] = "list"] =>
              \A d \in Clients : Connected(d)' <=> Connected(d) \/ d = c
         /\ server = "down" => \A d \in Clients : ~ Connected(d)'
<1>1. client[c] = "off" /\ UNCHANGED <<conn, ready, server>>
      /\ client' \in {[client EXCEPT ![c] = "list"], [client EXCEPT ![c] = "lost"]}
  BY DEF Connect, serverVars
<1>2. ~ Connected(c) /\ backlog \in Seq(Clients)
  BY <1>1 DEF Links, Types
<1>3. client'[c] # "off" /\ \A d \in Clients : client'[d] = "off" => client[d] = "off"
  BY <1>1 DEF Types
<1>4. CASE backlog' = backlog /\ server = "down"
  BY <1>1, <1>3, <1>4, LinksSame DEF Links
<1>5. CASE backlog' = Append(backlog, c) /\ server # "down"
  <2>1. /\ Len(backlog) \in Nat /\ Len(backlog') = Len(backlog) + 1 /\ backlog' # << >>
        /\ backlog'[Len(backlog) + 1] = c
        /\ \A k \in 1 .. Len(backlog) : backlog'[k] = backlog[k]
    BY <1>2, <1>5
  <2>2. \A d \in Clients : Accepted(d)' <=> Accepted(d)
    BY <1>1 DEF Accepted
  <2>3. 1 .. Len(backlog') = 1 .. Len(backlog) \cup {Len(backlog) + 1}
    BY <2>1
  <2>4. \A d \in Clients : Queued(d)' <=> Queued(d) \/ d = c
    BY <2>1, <2>3 DEF Queued
  <2>5. \A d \in Clients : Connected(d)' <=> Connected(d) \/ d = c
    BY <2>2, <2>4 DEF Connected
  <2>6. \A k \in 1 .. Len(backlog) : backlog[k] # c
    BY <1>2 DEF Connected, Queued
  <2>7. \A j, k \in 1 .. Len(backlog') : backlog'[j] = backlog'[k] => j = k
    BY <2>1, <2>3, <2>6 DEF Links
  <2>8. \A d \in Clients : client'[d] = "off" => ~ Connected(d)'
    BY <1>3, <2>5 DEF Links
  <2> QED
    BY <1>1, <1>2, <1>5, <2>1, <2>2, <2>4, <2>5, <2>7, <2>8 DEF Links, Connected
<1> QED
  BY <1>4, <1>5 DEF Connect

LEMMA LinksNext ==
  ASSUME Types, Links, [Next]_vars
  PROVE  Links'
<1>1. CASE Stopping
  <2>1. /\ \A f \in Fds : conn'[f] = Nobody
        /\ backlog' = << >> /\ ready' = {}
        /\ \A c \in Clients : ~ Connected(c)'
    BY <1>1, StopIs DEF Stopping
  <2> QED
    BY <2>1, NIs DEF Links, Connected
<1>2. CASE Select
  <2>1. UNCHANGED <<conn, backlog, client>> /\ server' = "scan"
        /\ (serv_sock \in ready' => backlog # << >>)
    BY <1>2 DEF Select, Readable, loopVars, clientVars
  <2> QED
    BY <2>1 DEF Links, Connected, Accepted, Queued
<1>3. CASE Accept
  BY <1>3, LinksAccept
<1>4. CASE Serve \/ EndScan \/ ReadRequest \/ ReadExtra \/ SendFile \/ (ReadStart /\ ~ Stopping)
  <2>1. UNCHANGED <<conn, backlog, client>> /\ ready' \subseteq ready /\ server' # "down"
    BY <1>4 DEF Serve, EndScan, ReadRequest, ReadExtra, SendFile, ReadStart, Stopping, loopVars, clientVars
  <2> QED
    BY <2>1, LinksSame
<1>5. CASE Disconnect
  <2>1. UNCHANGED <<backlog, client>> /\ ready' \subseteq ready /\ server' # "down"
        /\ conn' = [conn EXCEPT ![i] = Nobody] /\ i \in Fds
    BY <1>5 DEF Disconnect, clientVars, Types, Serving
  <2> QED
    BY <2>1, LinksClose
<1>6. CASE CloseFile /\ ~ Stopping
  <2>1. UNCHANGED <<backlog, client>> /\ ready' \subseteq ready /\ server' # "down"
        /\ conn' = [conn EXCEPT ![clnt_sock] = Nobody] /\ clnt_sock \in Fds
    BY <1>6 DEF CloseFile, Stopping, clientVars, Types
  <2> QED
    BY <2>1, LinksClose
<1>7. CASE SaveFile
  <2>1. UNCHANGED <<backlog, client, ready>> /\ server' # "down" /\ clnt_sock \in Fds
        /\ (conn' = conn \/ conn' = [conn EXCEPT ![clnt_sock] = Nobody])
    BY <1>7 DEF SaveFile, clientVars, Types
  <2> QED
    BY <2>1, LinksClose, LinksSame
<1>8. ASSUME NEW c \in Clients, Connect(c) PROVE Links'
  BY <1>8, LinksConnect
<1>9. ASSUME NEW c \in Clients, ReadList(c) \/ Choose(c) \/ ReadFile(c) \/ OpenCopyFails(c) \/ Kill(c)
      PROVE  Links'
  <2>1. UNCHANGED <<conn, backlog, ready, server>>
    BY <1>9 DEF ReadList, Choose, ReadFile, OpenCopyFails, Kill, serverVars
  <2>2. \A d \in Clients : client'[d] = "off" => client[d] = "off"
    <3>1. CASE ReadList(c)
      BY <3>1 DEF ReadList, Types
    <3>2. CASE Choose(c)
      BY <3>2 DEF Choose, Leave, Types
    <3>3. CASE ReadFile(c)
      BY <3>3 DEF ReadFile, Leave, Types
    <3>4. CASE OpenCopyFails(c) \/ Kill(c)
      BY <3>4 DEF OpenCopyFails, Kill, Leave, Types
    <3> QED
      BY <1>9, <3>1, <3>2, <3>3, <3>4
  <2> QED
    BY <2>1, <2>2, LinksSame
<1>10. CASE UNCHANGED vars
  BY <1>10, LinksSame DEF vars, loopVars, clientVars
<1>11. SelectFails \/ SendFileFails => Stopping
  BY DEF SelectFails, SendFileFails, Stopping
<1> QED
  BY <1>1, <1>2, <1>3, <1>4, <1>5, <1>6, <1>7, <1>8, <1>9, <1>10, <1>11
  DEF Next, ServerStep, ClientStep, Over

LEMMA WatchedNext ==
  ASSUME Types, Links, Watched, [Next]_vars
  PROVE  Watched'
<1>s. ASSUME UNCHANGED <<conn, reads>>, seen \subseteq seen', server = "down" => server' = "down"
      PROVE  Watched'
  BY <1>s DEF Watched, Open
<1>1. CASE Stopping
  BY <1>1, StopIs DEF Watched, Stopping
<1>2. CASE Select \/ Serve \/ EndScan \/ ReadRequest \/ ReadExtra \/ SendFile \/ (ReadStart /\ ~ Stopping)
  <2>1. UNCHANGED <<conn, reads>> /\ seen \subseteq seen' /\ server # "down"
    BY <1>2 DEF Select, Serve, EndScan, ReadRequest, ReadExtra, SendFile, ReadStart, Stopping, loopVars, history
  <2> QED
    BY <1>s, <2>1
<1>3. CASE Accept
  <2> DEFINE f == clnt_sock'
  <2>1. /\ backlog # << >> /\ Head(backlog) \in Clients /\ f \in Fds \ {serv_sock}
        /\ conn' = [conn EXCEPT ![f] = Head(backlog)] /\ reads' = reads \cup {f}
    BY <1>3, AcceptIs
  <2>2. server # "down" /\ seen' = seen
    BY <1>3 DEF Accept, history
  <2> HIDE DEF f
  <2>3. \A g \in Fds : Open(g)' <=> Open(g) \/ g = f
    BY <2>1, SelectServerAssumption DEF Open, Types
  <2> QED
    BY <2>1, <2>2, <2>3 DEF Watched, Types
<1>4. CASE Disconnect
  <2>1. /\ i \in Fds \ {serv_sock} /\ conn' = [conn EXCEPT ![i] = Nobody] /\ reads' = reads \ {i}
        /\ server # "down" /\ seen' = seen
    BY <1>4 DEF Disconnect, StillWatched, Types, Serving, history
  <2>2. \A g \in Fds : Open(g)' <=> Open(g) /\ g # i
    BY <2>1, SelectServerAssumption DEF Open, Types
  <2> QED
    BY <2>1, <2>2 DEF Watched
<1>5. CASE CloseFile /\ ~ Stopping
  BY <1>5 DEF CloseFile, Stopping, Watched
<1>6. CASE SaveFile
  <2>1. UNCHANGED reads /\ server # "down" /\ ((seen' = seen /\ conn' = conn) \/ "transfer" \in seen')
    BY <1>6 DEF SaveFile
  <2> QED
    BY <1>s, <2>1 DEF Watched
<1>7. ASSUME NEW c \in Clients,
             Connect(c) \/ ReadList(c) \/ Choose(c) \/ ReadFile(c) \/ OpenCopyFails(c) \/ Kill(c)
      PROVE  Watched'
  <2>1. UNCHANGED <<conn, reads, server>> /\ seen \subseteq seen'
    BY <1>7 DEF Connect, ReadList, Choose, ReadFile, OpenCopyFails, Kill, serverVars, history
  <2> QED
    BY <1>s, <2>1
<1>8. CASE UNCHANGED vars
  BY <1>s, <1>8 DEF vars, loopVars, history
<1>9. SelectFails \/ SendFileFails => Stopping
  BY DEF SelectFails, SendFileFails, Stopping
<1> QED
  BY <1>1, <1>2, <1>3, <1>4, <1>5, <1>6, <1>7, <1>8, <1>9 DEF Next, ServerStep, ClientStep, Over

-------------------------------------------------------------------------------
(* Clients and what the server is doing with them. *)

\* Nothing happens to client c.
Alone(c) ==
  /\ client'[c] = client[c] /\ up'[c] = up[c] /\ down'[c] = down[c] /\ got'[c] = got[c]
  /\ c \in shut' <=> c \in shut
  /\ Connected(c)' <=> Connected(c)
  /\ c \in misled => c \in misled'

LEMMA AloneOK ==
  ASSUME NEW c \in Clients, ClientOK(c), Alone(c), At(c)' = At(c), At(c) = "save" => kept' = kept
  PROVE  ClientOK(c)'
<1>1. Beginning(c)' /\ Ending(c)' /\ Saving(c)'
  BY DEF ClientOK, Alone, Beginning, Ending, Saving
<1>2. Talking(c)'
  BY DEF ClientOK, Alone, Talking, Talks, Asking, Starting, Fetching, IsContent
<1>3. HungUpOn(c)'
  BY DEF ClientOK, Alone, HungUpOn, Talks, IsRest
<1>4. Leaving(c)'
  BY DEF ClientOK, Alone, Leaving, IsUpload
<1> QED
  BY <1>1, <1>2, <1>3, <1>4 DEF ClientOK

\* The server goes on to other clients, or is at others.
LEMMA AtIs ==
  ASSUME NEW c \in Clients
  PROVE  /\ Peer # c => At(c) = "turn"
         /\ server \notin {"request", "extra", "save", "send"} => At(c) = "turn"
         /\ Peer = c /\ server \in {"request", "extra", "save", "send"} => At(c) = server
         /\ At(c) \in {"request", "extra", "save", "send", "turn"}
BY DEF At

\* The server closes its connection with a client that waits for a list, and from which
\* something is unread.
LEMMA HangupOK ==
  ASSUME NEW c \in Clients, ClientOK(c), Connected(c), ~ Connected(c)', client[c] # "off",
         client'[c] = client[c], got'[c] = got[c], c \in shut' <=> c \in shut,
         c \in misled => c \in misled',
         c \notin shut => client[c] = "list" /\ down'[c] = <<"reset">>
  PROVE  ClientOK(c)'
<1>1. Beginning(c)' /\ Ending(c)' /\ Saving(c)' /\ Talking(c)' /\ Leaving(c)'
  BY DEF ClientOK, Beginning, Ending, Saving, Talking, Leaving
<1>2. HungUpOn(c)'
  BY DEF HungUpOn, ClientOK, Ending, Talks
<1> QED
  BY <1>1, <1>2 DEF ClientOK

\* What it sees when it had its start on the way.
LEMMA ResetIs ==
  ASSUME NEW c \in Clients, NEW left, down[c] = << >>, left[c] # << >>
  PROVE  Append(down[c], Farewell(c, left)) = <<"reset">>
BY DEF Farewell

\* A client that it is not about to serve has its start on the way.
LEMMA TurnIs ==
  ASSUME Types, NEW c \in Clients, ClientOK(c), Connected(c), c \notin shut, client[c] # "off",
         At(c) = "turn"
  PROVE  down[c] = << >> /\ up[c] # << >> /\ client[c] = "list" /\ got[c] = 0
         /\ up[c] \in {<<"start">>, <<"rest">>}
<1>1. Talks(c)
  BY DEF ClientOK, Ending, Talks, Types
<1>2. Starting(c) /\ got[c] = 0
  BY <1>1 DEF ClientOK, Talking
<1>3. up[c] \in {<<"start">>, <<"rest">>}
  BY <1>2 DEF Starting
<1>4. <<"start">> # << >> /\ <<"rest">> # << >>
  OBVIOUS
<1> QED
  BY <1>2, <1>3, <1>4 DEF Starting

LEMMA KnownIs ==
  ASSUME Types, Links, NEW c \in Clients, Connected(c)
  PROVE  client[c] # "off" /\ server # "down"
BY DEF Links

\* A client that is being served has not been hung up on.
LEMMA ServedIs ==
  ASSUME Types, NEW c \in Clients
  PROVE  /\ Peer = c => Connected(c)
         /\ ~ Connected(c) => At(c) = "turn"
BY DEF Types, Peer, Connected, Accepted, At

LEMMA LiteralsAre ==
  /\ Head(<<"start">>) = "start" /\ Tail(<<"start">>) = << >> /\ <<"start">> # << >>
  /\ Head(<<"rest">>) = "rest" /\ Tail(<<"rest">>) = << >> /\ <<"rest">> # << >>
  /\ Head(<<"dir", "start">>) = "dir" /\ Tail(<<"dir", "start">>) = <<"start">>
  /\ <<"dir", "start">> # << >>
  /\ Head(<<"dir">>) = "dir" /\ Tail(<<"dir">>) = << >> /\ <<"dir">> # << >>
  /\ Head(<<"eof">>) = "eof" /\ <<"eof">> # << >>
  /\ Head(<<"file">>) = "file" /\ Tail(<<"file">>) = << >> /\ <<"file">> # << >>
  /\ Head(<<"list">>) = "list" /\ Tail(<<"list">>) = << >> /\ <<"list">> # << >>
  /\ Head(<<"reset">>) = "reset" /\ <<"reset">> # << >>
  /\ << >> \o <<"list">> = <<"list">>
  /\ <<"rest">> \o Tail(<<"start">>) = <<"rest">>
OBVIOUS

\* What has to be shown after a step that leaves a client connected, or does not.
LEMMA PeerKept ==
  ASSUME NEW c \in Clients, ClientOK(c), Connected(c), Connected(c)', client[c] # "off", c \in shut' <=> c \in shut,
         client'[c] = client[c], got'[c] = got[c], c \in misled => c \in misled',
         c \in shut => Leaving(c)', c \notin shut => Talking(c)'
  PROVE  ClientOK(c)'
BY DEF ClientOK, Beginning, Talking, Talks, HungUpOn, Ending, Leaving, Saving

LEMMA PeerClosed ==
  ASSUME NEW c \in Clients, ClientOK(c), ~ Connected(c)', client[c] # "off", c \in shut' <=> c \in shut,
         client'[c] = client[c], got'[c] = got[c], c \in misled => c \in misled',
         c \notin shut => HungUpOn(c)'
  PROVE  ClientOK(c)'
BY DEF ClientOK, Beginning, Talking, Talks, HungUpOn, Ending, Leaving, Saving

LEMMA StopOK ==
  ASSUME Types, Links, NEW c \in Clients, ClientOK(c), NEW left, Stop(left),
         \/ SelectFails /\ left = up /\ misled' = misled
         \/ (ReadStart \/ CloseFile) /\ Peer \in shut /\ left = up /\ misled' = misled
         \/ SendFileFails /\ left = Taken
  PROVE  ClientOK(c)'
<1>1. /\ server' = "down" /\ ~ Connected(c)' /\ UNCHANGED <<client, shut, got>>
      /\ up'[c] = << >>
      /\ down'[c] = IF c \notin shut /\ Connected(c) THEN Append(down[c], Farewell(c, left)) ELSE down[c]
  BY StopIs
<1>2. misled \subseteq misled'
  BY DEF SendFileFails
<1>3. CASE Connected(c)
  <2>1. client[c] # "off"
    BY <1>3 DEF Links
  <2>2. CASE c \in shut
    BY <1>1, <1>2, <1>3, <2>1, <2>2, HangupOK
  <2>3. CASE c \notin shut /\ At(c) = "turn"
    <3>1. down[c] = << >> /\ up[c] # << >> /\ client[c] = "list"
      BY <1>3, <2>1, <2>3, TurnIs
    <3>2. left[c] = up[c]
      <4>1. CASE left = up
        BY <4>1
      <4>2. CASE SendFileFails /\ left = Taken
        <5>1. Peer # c
          BY <2>3, <4>2, AtIs DEF SendFileFails
        <5> QED
          BY <4>2, <5>1 DEF Taken, Types
      <4> QED
        BY <4>1, <4>2
    <3>3. down'[c] = <<"reset">>
      BY <1>1, <1>3, <2>3, <3>1, <3>2, ResetIs
    <3> QED
      BY <1>1, <1>2, <1>3, <2>1, <3>1, <3>3, HangupOK
  <2>4. CASE c \notin shut /\ At(c) # "turn"
    <3>1. SendFileFails /\ left = Taken /\ Peer = c /\ server = "request" /\ At(c) = "request"
      BY <2>4, AtIs DEF SelectFails, ReadStart, CloseFile, SendFileFails
    <3>2. up[c] # << >> /\ Head(up[c]) = "file" /\ c \in misled'
      BY <3>1 DEF SendFileFails, HasData
    <3>3. Talks(c)
      BY <1>3, <2>1, <2>4 DEF ClientOK, Ending, Talks, Types
    <3>4. Asking(c)
      BY <1>3, <3>1, <3>3 DEF ClientOK, Talking
    <3>5. client[c] = "download" /\ up[c] = <<"file">> /\ down[c] = << >>
      BY <3>2, <3>4, LiteralsAre DEF Asking
    <3>6. left[c] = << >>
      BY <3>1, <3>5, LiteralsAre DEF Taken, Types
    <3>7. down'[c] = <<"eof">>
      <4>1. down'[c] = Append(down[c], Farewell(c, left)) /\ Farewell(c, left) = "eof"
        BY <1>1, <1>3, <2>4, <3>6 DEF Farewell
      <4> QED
        BY <3>5, <4>1
    <3>8. HungUpOn(c)'
      BY <1>1, <3>2, <3>5, <3>7 DEF HungUpOn
    <3> QED
      BY <1>1, <1>2, <2>1, <3>8, PeerClosed
  <2> QED
    BY <2>2, <2>3, <2>4
<1>4. CASE ~ Connected(c)
  <2>1. At(c) = "turn" /\ At(c)' = "turn"
    BY <1>1, <1>4, ServedIs DEF At
  <2> QED
    BY <1>1, <1>2, <1>4 DEF ClientOK, Beginning, Talking, HungUpOn, Talks, IsRest, Ending, Leaving, Saving
<1> QED
  BY <1>3, <1>4

\* select() and the loop over the descriptors.
LEMMA LoopOK ==
  ASSUME Types, Links, NEW c \in Clients, ClientOK(c), Select \/ Accept \/ Serve \/ EndScan
  PROVE  ClientOK(c)'
<1>1. server \in {"select", "scan"} /\ server' \in {"select", "scan", "start"}
      /\ UNCHANGED <<client, up, down, got, shut, misled>>
  BY DEF Select, Accept, Serve, EndScan, clientVars, history
<1>2. Connected(c)' <=> Connected(c)
  <2>1. CASE Accept
    BY <2>1, LinksAccept
  <2>2. CASE ~ Accept
    BY <2>2 DEF Select, Serve, EndScan, loopVars, Connected, Accepted, Queued
  <2> QED
    BY <2>1, <2>2
<1>3. At(c)' = "turn" /\ At(c) = "turn"
  BY <1>1 DEF At
<1> QED
  BY <1>1, <1>2, <1>3, AloneOK DEF Alone

\* The steps of a request that leave the connections as they are.
LEMMA OthersOK ==
  ASSUME Types, Links, NEW c \in Clients, ClientOK(c), Peer # c,
         \/ ReadRequest \/ ReadExtra \/ SendFile \/ SaveFile
         \/ (ReadStart \/ CloseFile) /\ ~ Stopping
  PROVE  ClientOK(c)'
<1>1. UNCHANGED <<client, got, shut, clnt_sock, backlog, misled>>
  BY DEF ReadStart, ReadRequest, ReadExtra, SendFile, SaveFile, CloseFile, Stopping, loopVars, clientVars, history
<1>6. up'[c] = up[c]
  BY DEF ReadStart, ShortRead, ReadRequest, ReadExtra, SendFile, SaveFile, CloseFile, Stopping, Taken, Types
<1>7. down'[c] = down[c]
  <2>1. Hangup({Peer}, up)[c] = down[c]
    BY HangupIs
  <2> QED
    BY <2>1 DEF ReadStart, ReadRequest, ReadExtra, SendFile, SaveFile, CloseFile, Stopping, Types
<1>2. conn' = conn \/ conn' = [conn EXCEPT ![clnt_sock] = Nobody]
  BY DEF ReadStart, ReadRequest, ReadExtra, SendFile, SaveFile, CloseFile, Stopping, loopVars
<1>3. Connected(c)' <=> Connected(c)
  BY <1>1, <1>2, SelectServerAssumption DEF Connected, Accepted, Queued, Peer, Types
<1>4. Peer' # c
  BY <1>1, <1>2, SelectServerAssumption DEF Peer, Types
<1>5. At(c)' = "turn" /\ At(c) = "turn"
  BY <1>4 DEF At
<1> QED
  BY <1>1, <1>3, <1>5, <1>6, <1>7, AloneOK DEF Alone

LEMMA DisconnectOK ==
  ASSUME Types, Links, NEW c \in Clients, ClientOK(c), Disconnect
  PROVE  ClientOK(c)'
<1>1. /\ server = "request" /\ server' = "select" /\ AtEnd(Peer) /\ i \in Fds
      /\ down' = Hangup({conn[i]}, up)
      /\ up' = [d \in Clients |-> IF d = conn[i] THEN << >> ELSE up[d]]
      /\ conn' = [conn EXCEPT ![i] = Nobody] /\ ready' = {}
      /\ UNCHANGED <<backlog, client, got, shut, misled>>
  BY DEF Disconnect, clientVars, Types, Serving, history
<1>2. Connected(c)' <=> Connected(c) /\ c # conn[i]
  BY <1>1, LinksClose
<1>3. At(c)' = "turn"
  BY <1>1 DEF At
<1>4. down'[c] = IF c = conn[i] /\ c \notin shut THEN Append(down[c], Farewell(c, up)) ELSE down[c]
  BY <1>1, HangupIs
<1>5. CASE c = conn[i]
  <2>1. Connected(c) /\ client[c] # "off"
    BY <1>1, <1>5 DEF Connected, Accepted, Links
  <2>2. ASSUME c \notin shut PROVE down[c] = << >> /\ up[c] # << >> /\ client[c] = "list"
    <3>1. At(c) = "turn"
      BY <1>1, <2>2, SelectServerAssumption DEF AtEnd, At
    <3> QED
      BY <2>1, <2>2, <3>1, TurnIs
  <2>3. c \notin shut => down'[c] = <<"reset">>
    BY <1>4, <1>5, <2>2, ResetIs
  <2> QED
    BY <1>1, <1>2, <1>5, <2>1, <2>2, <2>3, HangupOK
<1>6. CASE c # conn[i] /\ Peer # c
  <2>1. At(c) = "turn"
    BY <1>6 DEF At
  <2>2. Alone(c)
    BY <1>1, <1>2, <1>4, <1>6 DEF Alone
  <2> QED
    BY <1>3, <2>1, <2>2, AloneOK
<1>7. CASE c # conn[i] /\ Peer = c
  <2>1. c \in shut /\ up[c] = << >> /\ up'[c] = << >>
    BY <1>1, <1>7, SelectServerAssumption DEF AtEnd
  <2>2. client[c] \in {"done", "saved", "lost"}
    BY <2>1 DEF ClientOK, Ending
  <2> QED
    BY <1>1, <1>2, <1>3, <1>4, <1>7, <2>1, <2>2
    DEF ClientOK, Beginning, Talking, HungUpOn, Talks, Ending, Leaving, Saving
<1> QED
  BY <1>5, <1>6, <1>7

-------------------------------------------------------------------------------
(* The client that is being served. *)

\* What is known of the client that is at the other end of clnt_sock.
LEMMA PeerOK ==
  ASSUME Types, Links, NEW c \in Clients, ClientOK(c), Peer = c
  PROVE  /\ Connected(c) /\ client[c] # "off" /\ c # Nobody
         /\ c \notin shut => Talks(c) /\ (server # "send" => got[c] = 0)
         /\ c \in shut => ~ Talks(c)
<1>1. Connected(c)
  BY ServedIs
<1>2. client[c] # "off" /\ c # Nobody
  BY <1>1, SelectServerAssumption DEF Links
<1>3. c \notin shut => Talks(c)
  BY <1>1, <1>2 DEF ClientOK, Ending, Talks, Types
<1>4. c \in shut => ~ Talks(c)
  BY DEF ClientOK, Ending, Talks
<1>5. Talks(c) /\ server # "send" => got[c] = 0
  BY <1>1, AtIs DEF ClientOK, Talking
<1> QED
  BY <1>1, <1>2, <1>3, <1>4, <1>5

LEMMA ReadStartOK ==
  ASSUME Types, Links, NEW c \in Clients, ClientOK(c), Peer = c, ReadStart, ~ Stopping, c \notin adrift'
  PROVE  ClientOK(c)'
<1>1. /\ Connected(c) /\ client[c] # "off" /\ c # Nobody
      /\ c \notin shut => Talks(c) /\ (server # "send" => got[c] = 0)
      /\ c \in shut => ~ Talks(c)
  BY PeerOK
<1>2. /\ server = "start" /\ server' = "request" /\ UNCHANGED <<conn, backlog, clnt_sock>>
      /\ UNCHANGED <<client, shut, got, misled>>
  BY DEF ReadStart, Stopping, loopVars, clientVars, history
<1>3. Connected(c)' /\ At(c) = "turn" /\ At(c)' = "request"
  BY <1>1, <1>2 DEF Connected, Accepted, Queued, At, Peer
<1>4. up[c] \in Seq(Msgs) /\ down[c] \in Seq(Answers)
  BY DEF Types
<1>5. CASE HasData(c)
  <2>1. up[c] # << >> /\ up'[c] = Tail(up[c])
        /\ down'[c] = IF c \in shut THEN down[c] ELSE down[c] \o <<"list">>
    BY <1>5, SelectServerAssumption, TakenIs
    DEF ReadStart, ShortRead, Stopping, HasData, AtEnd, AfterMessage, DirectoryList, Types
  <2>2. CASE c \notin shut
    <3>1. down[c] = << >> /\ client[c] = "list" /\ got[c] = 0 /\ up[c] \in {<<"start">>, <<"rest">>}
      BY <1>1, <1>3, <2>2, TurnIs
    <3>2. up'[c] = << >> /\ down'[c] = <<"list">>
      BY <2>1, <2>2, <3>1, LiteralsAre
    <3>3. Talking(c)'
      BY <1>2, <1>3, <3>1, <3>2 DEF Talking, Asking
    <3> QED
      BY <1>1, <1>2, <1>3, <2>2, <3>3, PeerKept
  <2>3. CASE c \in shut
    <3>1. up[c] \in {<<"start">>, <<"rest">>}
      BY <1>1, <1>3, <2>1, <2>3 DEF ClientOK, Leaving
    <3>2. up'[c] = << >>
      BY <2>1, <3>1, LiteralsAre
    <3>3. Leaving(c)'
      BY <1>3, <3>2 DEF Leaving
    <3> QED
      BY <1>1, <1>2, <1>3, <2>3, <3>3, PeerKept
  <2> QED
    BY <2>2, <2>3
<1>6. CASE ~ HasData(c)
  <2>1. c \in shut /\ up[c] = << >> /\ up' = up
    BY <1>1, <1>6 DEF ReadStart, Stopping, AtEnd
  <2>2. Leaving(c)'
    BY <1>3, <2>1 DEF Leaving
  <2> QED
    BY <1>1, <1>2, <1>3, <2>1, <2>2, PeerKept
<1> QED
  BY <1>5, <1>6

LEMMA ReadRequestOK ==
  ASSUME Types, Links, Uploads, NEW c \in Clients, ClientOK(c), Peer = c, ReadRequest, c \notin adrift'
  PROVE  ClientOK(c)'
<1>1. /\ Connected(c) /\ client[c] # "off"
      /\ c \notin shut => Talks(c) /\ (server # "send" => got[c] = 0)
      /\ c \in shut => ~ Talks(c)
  BY PeerOK
<1>2. /\ server = "request" /\ UNCHANGED <<conn, backlog, clnt_sock, client, shut, got, down, kept, misled>>
      /\ up[c] # << >>
      /\ up'[c] \in AfterRequest(up[c])
      /\ \/ Head(up[c]) = "dir" /\ server' = "extra"
         \/ Head(up[c]) = "upload" /\ server' = "save"
         \/ Head(up[c]) \notin {"dir", "upload", "file"} /\ server' = "scan"
  BY DEF ReadRequest, HasData, loopVars, clientVars, uploadVars, Types
<1>3. Connected(c)' /\ At(c) = "request"
      /\ At(c)' = IF server' = "scan" THEN "turn" ELSE server'
  BY <1>1, <1>2 DEF Connected, Accepted, Queued, At, Peer
<1>4. up[c] \in Seq(Msgs) /\ kept = 0
  BY <1>2 DEF Types, Uploads
<1>7. Head(up[c]) \in {"dir", "upload"} => up'[c] = Tail(up[c])
  BY <1>2 DEF AfterRequest
<1>5. CASE c \notin shut
  <2>1. client[c] = "list" /\ up[c] = <<"dir", "start">> /\ down[c] = << >>
    BY <1>1, <1>2, <1>3, <1>5, LiteralsAre DEF ClientOK, Talking, Asking
  <2>2. up'[c] = <<"start">> /\ server' = "extra"
    BY <1>2, <1>7, <2>1, LiteralsAre
  <2>3. Talking(c)'
    BY <1>1, <1>2, <1>3, <1>5, <2>1, <2>2, LiteralsAre DEF Talking, Starting
  <2> QED
    BY <1>1, <1>2, <1>3, <1>5, <2>3, PeerKept
<1>6. CASE c \in shut
  <2>1. up[c] \in {<<"dir", "start">>, <<"dir">>} \/ IsUpload(c)
    BY <1>1, <1>2, <1>3, <1>6, LiteralsAre DEF ClientOK, Leaving
  <2>2. CASE up[c] \in {<<"dir", "start">>, <<"dir">>}
    <3>1. up'[c] \in {<<"start">>, << >>} /\ server' = "extra"
      BY <1>2, <1>7, <2>2, LiteralsAre
    <3>2. Leaving(c)'
      BY <1>3, <3>1 DEF Leaving
    <3> QED
      BY <1>1, <1>2, <1>3, <1>6, <3>2, PeerKept
  <2>3. CASE IsUpload(c)
    <3>1. Head(up[c]) = "upload" /\ up'[c] = Tail(up[c]) /\ Data(up'[c])
          /\ (client[c] = "done" => Len(up[c]) = NChunks + 1)
      BY <1>7, <2>3 DEF IsUpload
    <3>2. Len(up'[c]) = Len(up[c]) - 1 /\ Len(up[c]) \in Nat /\ NChunks \in Nat
      BY <1>2, <1>4, <3>1, SelectServerAssumption
    <3>3. server' = "save"
      BY <1>2, <3>1
    <3>4. client[c] = "done" => kept' + Len(up'[c]) = NChunks
      BY <1>2, <1>4, <3>1, <3>2
    <3>5. Leaving(c)'
      BY <1>2, <1>3, <3>1, <3>3, <3>4 DEF Leaving, Data
    <3> QED
      BY <1>1, <1>2, <1>3, <1>6, <3>5, PeerKept
  <2> QED
    BY <2>1, <2>2, <2>3
<1> QED
  BY <1>5, <1>6

LEMMA SendFileOK ==
  ASSUME Types, Links, NEW c \in Clients, ClientOK(c), Peer = c, SendFile
  PROVE  ClientOK(c)'
<1>1. /\ Connected(c) /\ client[c] # "off"
      /\ c \notin shut => Talks(c) /\ (server # "send" => got[c] = 0)
      /\ c \in shut => ~ Talks(c)
  BY PeerOK
<1>2. /\ server = "request" /\ server' = "send"
      /\ UNCHANGED <<conn, clnt_sock, backlog, client, shut, got, misled>>
      /\ Head(up[c]) = "file" /\ up[c] # << >> /\ up'[c] = Tail(up[c])
      /\ c \notin shut => down'[c] = down[c] \o Content
  BY DEF SendFile, Taken, HasData, loopVars, clientVars, history, Types
<1>3. Connected(c)' /\ At(c) = "request" /\ At(c)' = "send"
  BY <1>1, <1>2 DEF Connected, Accepted, Queued, At, Peer
<1>4. up[c] = <<"file">>
  <2>1. CASE c \in shut
    BY <1>1, <1>2, <1>3, <2>1, LiteralsAre DEF ClientOK, Leaving, IsUpload
  <2>2. CASE c \notin shut
    BY <1>1, <1>2, <1>3, <2>2, LiteralsAre DEF ClientOK, Talking, Asking
  <2> QED
    BY <2>1, <2>2
<1>5. up'[c] = << >>
  BY <1>2, <1>4, LiteralsAre
<1>6. ASSUME c \notin shut PROVE Talking(c)'
  <2>1. client[c] = "download" /\ down[c] = << >> /\ got[c] = 0
    BY <1>1, <1>2, <1>3, <1>4, <1>6, LiteralsAre DEF ClientOK, Talking, Asking
  <2>2. Content \in Seq(Answers) /\ Len(Content) = NChunks /\ NChunks \in Nat
        /\ \A k \in 1 .. NChunks : Content[k] = "data"
    BY ContentIs, SelectServerAssumption
  <2>3. << >> \o Content = Content
    BY <2>2
  <2>4. down'[c] = Content
    BY <1>2, <1>6, <2>1, <2>3
  <2>5. got'[c] + Len(down'[c]) = NChunks
    BY <1>2, <2>1, <2>2, <2>4
  <2>6. Fetching(c)'
    BY <1>2, <1>5, <2>1, <2>2, <2>4, <2>5 DEF Fetching, IsContent
  <2> QED
    BY <1>3, <2>6 DEF Talking
<1>7. c \in shut => Leaving(c)'
  BY <1>3, <1>5 DEF Leaving
<1> QED
  BY <1>1, <1>2, <1>3, <1>6, <1>7, PeerKept

LEMMA CloseFileOK ==
  ASSUME Types, Links, NEW c \in Clients, ClientOK(c), Peer = c, CloseFile, ~ Stopping
  PROVE  ClientOK(c)'
<1>1. /\ Connected(c) /\ client[c] # "off"
      /\ c \notin shut => Talks(c) /\ (server # "send" => got[c] = 0)
      /\ c \in shut => ~ Talks(c)
  BY PeerOK
<1>2. /\ server = "send" /\ server' = "scan" /\ conn' = [conn EXCEPT ![clnt_sock] = Nobody]
      /\ UNCHANGED <<backlog, client, shut, got, ready, misled>> /\ clnt_sock \in Fds
      /\ down' = Hangup({c}, up)
  BY DEF CloseFile, Stopping, clientVars, Types
<1>3. ~ Connected(c)'
  BY <1>2, LinksClose DEF Peer
<1>4. ASSUME c \notin shut PROVE HungUpOn(c)'
  <2>1. At(c) = "send"
    BY <1>2 DEF At
  <2>2. Fetching(c)
    BY <1>1, <1>4, <2>1 DEF ClientOK, Talking
  <2>3. down'[c] = Append(down[c], "eof")
    BY <1>2, <1>4, <2>2, HangupIs DEF Farewell, Fetching
  <2>4. down[c] \in Seq(Answers) /\ "eof" \in Answers /\ NChunks \in Nat /\ got[c] \in Nat
    BY SelectServerAssumption DEF Types, Answers
  <2>5. /\ Len(down'[c]) = Len(down[c]) + 1 /\ Len(down[c]) \in Nat /\ down'[c] # << >>
        /\ down'[c][Len(down[c]) + 1] = "eof"
        /\ \A k \in 1 .. Len(down[c]) : down'[c][k] = down[c][k]
    BY <2>3, <2>4
  <2>6. Len(down'[c]) - 1 = Len(down[c]) /\ got'[c] + Len(down'[c]) = NChunks + 1
    BY <1>2, <2>2, <2>4, <2>5 DEF Fetching, IsContent
  <2>7. \A k \in 1 .. Len(down'[c]) - 1 : down'[c][k] = "data"
    BY <2>2, <2>5, <2>6 DEF Fetching, IsContent
  <2>8. IsRest(c)'
    BY <2>5, <2>6, <2>7 DEF IsRest
  <2> QED
    BY <1>2, <2>2, <2>8 DEF HungUpOn, Fetching
<1> QED
  BY <1>1, <1>2, <1>3, <1>4, PeerClosed

LEMMA ReadExtraOK ==
  ASSUME Types, Links, NEW c \in Clients, ClientOK(c), Peer = c, ReadExtra
  PROVE  ClientOK(c)'
<1>1. /\ Connected(c) /\ client[c] # "off" /\ c # Nobody
      /\ c \notin shut => Talks(c) /\ (server # "send" => got[c] = 0)
      /\ c \in shut => ~ Talks(c)
  BY PeerOK
<1>2. /\ server = "extra" /\ server' \in {"scan", "select"}
      /\ UNCHANGED <<conn, backlog, clnt_sock, client, shut, got, down, misled>>
  BY DEF ReadExtra, loopVars, clientVars, history
<1>3. Connected(c)' /\ At(c) = "extra" /\ At(c)' = "turn"
  BY <1>1, <1>2 DEF Connected, Accepted, Queued, At, Peer
<1>4. CASE up[c] = << >> /\ c \in shut /\ up' = up
  <2>1. Leaving(c)'
    BY <1>3, <1>4 DEF Leaving
  <2> QED
    BY <1>1, <1>2, <1>3, <1>4, <2>1, PeerKept
<1>5. CASE up[c] = <<"start">> /\ up'[c] = <<"rest">>
  <2>1. Leaving(c)'
    BY <1>3, <1>5 DEF Leaving
  <2>2. ASSUME c \notin shut PROVE Talking(c)'
    <3>1. down[c] = << >> /\ client[c] = "list"
      BY <1>1, <1>3, <2>2 DEF ClientOK, Talking, Starting
    <3> QED
      BY <1>1, <1>2, <1>3, <1>5, <2>2, <3>1 DEF Talking, Starting
  <2> QED
    BY <1>1, <1>2, <1>3, <2>1, <2>2, PeerKept
<1>6. (up[c] = << >> /\ c \in shut) \/ up[c] = <<"start">>
  <2>1. CASE c \in shut
    BY <1>1, <1>3, <2>1 DEF ClientOK, Leaving
  <2>2. CASE c \notin shut
    BY <1>1, <1>3, <2>2 DEF ClientOK, Talking, Starting
  <2> QED
    BY <2>1, <2>2
<1>7. up[c] = << >> => up' = up
  BY DEF ReadExtra, HasData
<1>8. up[c] = <<"start">> => up'[c] = <<"rest">>
  <2> SUFFICES ASSUME up[c] = <<"start">> PROVE up'[c] = <<"rest">>
    OBVIOUS
  <2>1. AfterRequest(up[c]) = {<<"rest">>}
    BY LiteralsAre DEF AfterRequest
  <2>2. \E q \in AfterRequest(up[c]) : up' = [up EXCEPT ![c] = q]
    BY <1>1, LiteralsAre DEF ReadExtra, AtEnd
  <2> QED
    BY <2>1, <2>2 DEF Types
<1> QED
  BY <1>4, <1>5, <1>6, <1>7, <1>8

LEMMA SaveFileOK ==
  ASSUME Types, Links, NEW c \in Clients, ClientOK(c), Peer = c, SaveFile
  PROVE  ClientOK(c)' /\ c \in shut /\ (up[c] = << >> /\ client[c] = "done" => kept = NChunks)
<1>1. /\ Connected(c) /\ client[c] # "off" /\ c # Nobody
      /\ c \notin shut => Talks(c) /\ (server # "send" => got[c] = 0)
      /\ c \in shut => ~ Talks(c)
  BY PeerOK
<1>2. /\ server = "save" /\ UNCHANGED <<backlog, clnt_sock, client, shut, got, down, ready, misled>>
      /\ clnt_sock \in Fds
  BY DEF SaveFile, clientVars, Types
<1>3. At(c) = "save"
  BY <1>2 DEF At
<1>4. c \in shut
  BY <1>1, <1>3 DEF ClientOK, Talking
<1>5. Data(up[c]) /\ (client[c] = "done" => kept + Len(up[c]) = NChunks) /\ up[c] \in Seq(Msgs)
      /\ kept \in Nat /\ NChunks \in Nat
  BY <1>1, <1>3, <1>4, SelectServerAssumption DEF ClientOK, Leaving, Types
<1>6. CASE HasData(c)
  <2>1. up[c] # << >> /\ up'[c] = Tail(up[c]) /\ kept' = kept + 1 /\ conn' = conn /\ server' = server
    BY <1>1, <1>6 DEF SaveFile, HasData, AtEnd, Taken, Types
  <2>2. Data(up'[c]) /\ Len(up'[c]) = Len(up[c]) - 1 /\ Len(up[c]) \in Nat
    BY <1>5, <2>1, DataTail
  <2>3. Connected(c)' /\ At(c)' = "save"
    <3>1. Connected(c)'
      BY <1>1, <1>2, <2>1 DEF Connected, Accepted, Queued
    <3>2. server' = "save" /\ Peer' = c
      BY <1>2, <2>1 DEF Peer
    <3>3. At(c)' = "save"
      BY <3>2 DEF At
    <3> QED
      BY <3>1, <3>3
  <2>4. client[c] = "done" => kept' + Len(up'[c]) = NChunks
    <3>1. ASSUME NEW n \in Nat, NEW k \in Nat PROVE (k + 1) + (n - 1) = k + n
      OBVIOUS
    <3>2. kept' + Len(up'[c]) = kept + Len(up[c])
      BY <1>5, <2>1, <2>2, <3>1, Zenon
    <3> QED
      BY <1>5, <3>2
  <2>5. Leaving(c)'
    BY <1>2, <2>2, <2>3, <2>4 DEF Leaving, Data
  <2> QED
    BY <1>1, <1>2, <1>4, <2>1, <2>3, <2>5, PeerKept
<1>7. CASE ~ HasData(c)
  <2>1. conn' = [conn EXCEPT ![clnt_sock] = Nobody] /\ up[c] = << >> /\ server' = "scan"
    BY <1>1, <1>7 DEF SaveFile, AtEnd, HasData
  <2>2. ~ Connected(c)'
    BY <1>2, <2>1, LinksClose DEF Peer
  <2>3. client[c] = "done" => kept = NChunks
    BY <1>5, <2>1
  <2> QED
    BY <1>1, <1>2, <1>4, <2>2, <2>3, PeerClosed
<1> QED
  BY <1>6, <1>7

-------------------------------------------------------------------------------
(* The steps of the clients. *)

\* A client that has ended and closed its end.
LEMMA EndedOK ==
  ASSUME NEW c \in Clients, client'[c] \in {"done", "saved", "lost"}, c \in shut',
         Leaving(c)', Saving(c)'
  PROVE  ClientOK(c)'
BY DEF ClientOK, Beginning, Talking, Talks, HungUpOn, Ending

\* A client that goes on with the server.
LEMMA TalksOK ==
  ASSUME NEW c \in Clients, Talks(c)', c \notin shut', Connected(c)', Talking(c)'
  PROVE  ClientOK(c)'
BY DEF ClientOK, Beginning, Talks, HungUpOn, Ending, Leaving, Saving

\* A client that is no longer connected.
LEMMA GoneOK ==
  ASSUME NEW c \in Clients, ~ Connected(c)', client'[c] # "off", HungUpOn(c)', Ending(c)', Saving(c)'
  PROVE  ClientOK(c)'
BY DEF ClientOK, Beginning, Talking, Leaving

\* What a client does leaves the server where it is.
LEMMA ClientFrame ==
  ASSUME NEW c \in Clients, ReadList(c) \/ Choose(c) \/ ReadFile(c) \/ OpenCopyFails(c) \/ Kill(c)
  PROVE  /\ \A d \in Clients : (Connected(d)' <=> Connected(d)) /\ At(d)' = At(d)
         /\ kept' = kept /\ misled \subseteq misled'
<1>1. UNCHANGED <<conn, backlog, server, clnt_sock, kept>> /\ misled \subseteq misled'
  BY DEF ReadList, Choose, ReadFile, OpenCopyFails, Kill, serverVars, uploadVars, history
<1> QED
  BY <1>1 DEF Connected, Accepted, Queued, At, Peer

\* What a client does happens to no other.
LEMMA ElsewhereOK ==
  ASSUME Types, Links, NEW c \in Clients, NEW d \in Clients, d # c, ClientOK(d),
         Connect(c) \/ ReadList(c) \/ Choose(c) \/ ReadFile(c) \/ OpenCopyFails(c) \/ Kill(c)
  PROVE  ClientOK(d)'
<1>1. client'[d] = client[d] /\ (d \in shut' <=> d \in shut) /\ kept' = kept /\ misled \subseteq misled'
  BY DEF Connect, ReadList, Choose, ReadFile, OpenCopyFails, Kill, Leave, serverVars, uploadVars,
         history, Types
<1>2. got'[d] = got[d]
  BY DEF Connect, ReadList, Choose, ReadFile, OpenCopyFails, Kill, Types
<1>3. down'[d] = down[d]
  BY DEF Connect, ReadList, Choose, ReadFile, OpenCopyFails, Kill, Leave, Types
<1>4. up'[d] = up[d]
  <2>1. \A ts : Sent(c, ts)[d] = up[d]
    BY DEF Sent, Types
  <2> QED
    BY <2>1 DEF Connect, ReadList, Choose, ReadFile, OpenCopyFails, Kill, Types
<1>5. Connected(d)' <=> Connected(d)
  <2>1. CASE Connect(c)
    <3>1. CASE server # "down" /\ client' = [client EXCEPT ![c] = "list"]
      BY <2>1, <3>1, LinksConnect
    <3>2. CASE server = "down"
      BY <2>1, <3>2, LinksConnect DEF Links
    <3> QED
      BY <2>1, <3>1, <3>2 DEF Connect
  <2>2. CASE ~ Connect(c)
    BY <2>2, ClientFrame
  <2> QED
    BY <2>1, <2>2
<1>6. At(d)' = At(d)
  <2>1. UNCHANGED <<conn, server, clnt_sock>>
    BY DEF Connect, ReadList, Choose, ReadFile, OpenCopyFails, Kill, serverVars
  <2> QED
    BY <2>1 DEF At, Peer
<1> QED
  BY <1>1, <1>2, <1>3, <1>4, <1>5, <1>6, AloneOK DEF Alone

LEMMA ConnectOK ==
  ASSUME Types, Links, NEW c \in Clients, ClientOK(c), Connect(c)
  PROVE  ClientOK(c)'
<1>1. /\ client[c] = "off" /\ c \notin shut /\ up[c] = << >> /\ down[c] = << >> /\ got[c] = 0
      /\ ~ Connected(c)
  BY DEF Connect, ClientOK, Beginning, Links
<1>2. UNCHANGED <<conn, server, clnt_sock, shut, down, got>>
  BY DEF Connect, serverVars
<1>3. CASE server = "down"
  <2>1. client'[c] = "lost" /\ ~ Connected(c)'
    BY <1>3, LinksConnect DEF Connect, Types
  <2> QED
    BY <1>1, <1>2, <2>1, GoneOK DEF HungUpOn, Talks, Ending, Saving
<1>4. CASE server # "down"
  <2>1. client' = [client EXCEPT ![c] = "list"] /\ up' = Sent(c, <<"start">>)
    BY <1>4 DEF Connect
  <2>2. client'[c] = "list" /\ up'[c] = <<"start">> /\ Connected(c)'
    BY <1>1, <1>4, <2>1, SentIs, WordsAre, LinksConnect DEF Types
  <2>3. At(c)' = "turn"
    BY <1>1, <1>2, ServedIs DEF At, Peer
  <2>4. Talking(c)'
    BY <1>1, <1>2, <2>2, <2>3 DEF Talking, Starting
  <2> QED
    BY <1>1, <1>2, <2>2, <2>4, TalksOK DEF Talks
<1> QED
  BY <1>3, <1>4

\* What is on its way between the server and a client that asks for something.
LEMMA TalkIs ==
  ASSUME Types, NEW c \in Clients, ClientOK(c), Talks(c)
  PROVE  /\ c \notin shut
         /\ client[c] = "menu" => Connected(c)
         /\ Connected(c) =>
              \/ At(c) = "request" /\ got[c] = 0 /\ Asking(c)
              \/ At(c) = "send" /\ Fetching(c)
              \/ At(c) \notin {"request", "send", "save"} /\ got[c] = 0 /\ Starting(c)
BY DEF ClientOK, Talks, Ending, HungUpOn, Talking

LEMMA ReadListOK ==
  ASSUME Types, Links, NEW c \in Clients, ClientOK(c), ReadList(c)
  PROVE  ClientOK(c)'
<1>1. client[c] = "list" /\ down[c] # << >> /\ UNCHANGED <<up, shut, got>>
  BY DEF ReadList
<1>2. (Connected(c)' <=> Connected(c)) /\ At(c)' = At(c)
  BY ClientFrame
<1>3. c \notin shut
  BY <1>1, TalkIs DEF Talks
<1>4. CASE Connected(c)
  <2>1. At(c) = "request" /\ Asking(c) /\ got[c] = 0
    BY <1>1, <1>4, TalkIs DEF Talks, Starting, Fetching
  <2>2. up[c] = << >> /\ down[c] = <<"list">>
    BY <1>1, <2>1 DEF Asking
  <2>3. client'[c] = "menu" /\ down'[c] = << >>
    BY <2>2, LiteralsAre DEF ReadList, AfterList, Types
  <2>4. Talking(c)'
    BY <1>1, <1>2, <2>1, <2>2, <2>3 DEF Talking, Asking
  <2> QED
    BY <1>1, <1>2, <1>3, <1>4, <2>3, <2>4, TalksOK DEF Talks
<1>5. CASE ~ Connected(c)
  <2>1. down[c] = <<"reset">>
    BY <1>1, <1>5 DEF ClientOK, HungUpOn, Talks
  <2>2. client'[c] = "lost"
    BY <2>1, LiteralsAre DEF ReadList, Types
  <2> QED
    BY <1>1, <1>2, <1>3, <1>5, <2>2, GoneOK DEF HungUpOn, Talks, Ending, Saving
<1> QED
  BY <1>4, <1>5

LEMMA ChooseOK ==
  ASSUME Types, Links, NEW c \in Clients, ClientOK(c), Choose(c)
  PROVE  ClientOK(c)'
<1>1. client[c] = "menu" /\ got' = got
  BY DEF Choose
<1>2. (Connected(c)' <=> Connected(c)) /\ At(c)' = At(c)
  BY ClientFrame
<1>3. c \notin shut /\ Connected(c) /\ got[c] = 0 /\ At(c) = "request"
      /\ up[c] = << >> /\ down[c] = << >>
  BY <1>1, TalkIs DEF Talks, Starting, Asking, Fetching
<1>4. ~ HungUp(c)
  BY <1>3 DEF HungUp
<1>5. CASE up' = Sent(c, <<"dir", "start">>) /\ client' = [client EXCEPT ![c] = "list"]
           /\ UNCHANGED <<shut, down>>
  <2>1. client'[c] = "list" /\ up'[c] = <<"dir", "start">> /\ down'[c] = << >>
    BY <1>3, <1>5, SentIs, WordsAre DEF Types
  <2>2. Talking(c)'
    BY <1>1, <1>2, <1>3, <2>1 DEF Talking, Asking
  <2> QED
    BY <1>1, <1>2, <1>3, <1>5, <2>1, <2>2, TalksOK DEF Talks
<1>6. CASE up' = Sent(c, <<"file">>) /\ client' = [client EXCEPT ![c] = "download"]
           /\ UNCHANGED <<shut, down>>
  <2>1. client'[c] = "download" /\ up'[c] = <<"file">> /\ down'[c] = << >>
    BY <1>3, <1>6, SentIs, WordsAre DEF Types
  <2>2. Talking(c)'
    BY <1>1, <1>2, <1>3, <2>1 DEF Talking, Asking
  <2> QED
    BY <1>1, <1>2, <1>3, <1>6, <2>1, <2>2, TalksOK DEF Talks
<1>7. ASSUME NEW k \in Nat, up' = Sent(c, Upload(k)), Leave(c, IF k = NChunks THEN "done" ELSE "lost")
      PROVE  ClientOK(c)'
  <2>1. /\ Upload(k) \in Seq(Msgs) /\ Upload(k) # << >> /\ Len(Upload(k)) = k + 1
        /\ Head(Upload(k)) = "upload" /\ Data(Tail(Upload(k)))
    BY UploadIs
  <2>2. up'[c] = Upload(k)
    BY <1>3, <1>7, <2>1, SentIs
  <2>3. client'[c] = (IF k = NChunks THEN "done" ELSE "lost") /\ c \in shut'
    BY <1>7 DEF Leave, Types
  <2>4. up'[c] # << >> /\ Head(up'[c]) = "upload" /\ Data(Tail(up'[c]))
        /\ (client'[c] = "done" => Len(up'[c]) = NChunks + 1)
    BY <2>1, <2>2, <2>3
  <2>5. IsUpload(c)'
    BY <2>4 DEF IsUpload
  <2>6. Leaving(c)' /\ Saving(c)'
    BY <1>2, <1>3, <2>3, <2>5 DEF Leaving, Saving
  <2> QED
    BY <2>3, <2>6, EndedOK
<1>8. CASE Leave(c, "done") /\ UNCHANGED up
  <2>1. client'[c] = "done" /\ up'[c] = << >> /\ c \in shut'
    BY <1>3, <1>8 DEF Leave, Types
  <2>2. Leaving(c)' /\ Saving(c)'
    BY <1>2, <1>3, <2>1 DEF Leaving, Saving
  <2> QED
    BY <2>1, <2>2, EndedOK
<1>9. CASE Leave(c, "lost") /\ up' = Sent(c, <<"dir">>)
  <2>1. client'[c] = "lost" /\ up'[c] = <<"dir">> /\ c \in shut'
    BY <1>3, <1>9, SentIs, WordsAre DEF Leave, Types
  <2>2. Leaving(c)' /\ Saving(c)'
    BY <1>2, <1>3, <2>1 DEF Leaving, Saving
  <2> QED
    BY <2>1, <2>2, EndedOK
<1>10. NChunks \in Nat
  BY SelectServerAssumption
<1> QED
  BY <1>4, <1>5, <1>6, <1>7, <1>8, <1>9, <1>10 DEF Choose

\* A block of a download is read.
LEMMA RestTail ==
  ASSUME NEW d \in Seq(Answers), NEW g \in Nat, d # << >>, d[Len(d)] = "eof",
         \A k \in 1 .. Len(d) - 1 : d[k] = "data", g + Len(d) = NChunks + 1
  PROVE  /\ Head(d) = "data" =>
              LET t == Tail(d) IN
                /\ t # << >> /\ t[Len(t)] = "eof" /\ \A k \in 1 .. Len(t) - 1 : t[k] = "data"
                /\ (g + 1) + Len(t) = NChunks + 1
         /\ Head(d) = "eof" => g = NChunks
<1>1. Len(d) \in Nat /\ Len(d) >= 1 /\ Head(d) = d[1] /\ NChunks \in Nat
  BY SelectServerAssumption
<1>2. ASSUME Head(d) = "data"
      PROVE  LET t == Tail(d) IN
                /\ t # << >> /\ t[Len(t)] = "eof" /\ \A k \in 1 .. Len(t) - 1 : t[k] = "data"
                /\ (g + 1) + Len(t) = NChunks + 1
  <2>1. Len(d) # 1
    BY <1>1, <1>2
  <2>2. /\ Tail(d) \in Seq(Answers) /\ Len(Tail(d)) = Len(d) - 1
        /\ \A k \in 1 .. Len(d) - 1 : Tail(d)[k] = d[k + 1]
    BY <1>1
  <2>3. PICK n \in Nat : Len(d) = n + 1 /\ n >= 1
    <3>1. ASSUME NEW m \in Nat, m >= 1, m # 1 PROVE m - 1 \in Nat /\ m = (m - 1) + 1 /\ m - 1 >= 1
      BY <3>1
    <3>2. Len(d) \in Nat /\ Len(d) >= 1 /\ Len(d) # 1
      BY <1>1, <2>1
    <3> QED
      BY <3>1, <3>2, Zenon
  <2>4. Len(Tail(d)) = n /\ \A k \in 1 .. n : Tail(d)[k] = d[k + 1]
    BY <2>2, <2>3
  <2>5. Tail(d)[Len(Tail(d))] = "eof"
    BY <2>3, <2>4
  <2>6. \A k \in 1 .. Len(Tail(d)) - 1 : Tail(d)[k] = "data"
    <3>1. ASSUME NEW k \in 1 .. n - 1 PROVE k \in 1 .. n /\ k + 1 \in 1 .. Len(d) - 1
      BY <2>3
    <3> QED
      BY <2>4, <3>1
  <2>7. Tail(d) # << >>
    <3>1. Len(<< >>) = 0 /\ Len(Tail(d)) # 0
      BY <2>3, <2>4
    <3> QED
      BY <3>1, Zenon
  <2>8. (g + 1) + Len(Tail(d)) = NChunks + 1
    BY <1>1, <2>3, <2>4
  <2> QED
    BY <2>5, <2>6, <2>7, <2>8
<1>3. ASSUME Head(d) = "eof" PROVE g = NChunks
  <2>1. d[1] # "data" /\ Len(d) \in Nat /\ Len(d) >= 1
    BY <1>1, <1>3
  <2>2. 1 \notin 1 .. Len(d) - 1
    BY <2>1
  <2>3. Len(d) = 1
    <3>1. ASSUME NEW m \in Nat, m >= 1, 1 \notin 1 .. m - 1 PROVE m = 1
      BY <3>1
    <3> QED
      BY <2>1, <2>2, <3>1, Zenon
  <2> QED
    BY <1>1, <2>3
<1> QED
  BY <1>2, <1>3

LEMMA ContentTail ==
  ASSUME NEW d \in Seq(Answers), NEW g \in Nat, d # << >>,
         \A k \in 1 .. Len(d) : d[k] = "data", g + Len(d) = NChunks
  PROVE  LET t == Tail(d) IN
           (\A k \in 1 .. Len(t) : t[k] = "data") /\ (g + 1) + Len(t) = NChunks
<1>1. Len(d) \in Nat /\ Len(d) >= 1 /\ Len(Tail(d)) = Len(d) - 1
      /\ \A k \in 1 .. Len(d) - 1 : Tail(d)[k] = d[k + 1]
  OBVIOUS
<1>2. PICK n \in Nat : Len(d) = n + 1
  <2>1. ASSUME NEW m \in Nat, m >= 1 PROVE m - 1 \in Nat /\ m = (m - 1) + 1
    BY <2>1
  <2> QED
    BY <1>1, <2>1, Zenon
<1>3. Len(Tail(d)) = n /\ \A k \in 1 .. n : Tail(d)[k] = d[k + 1]
  BY <1>1, <1>2
<1>4. \A k \in 1 .. n : k + 1 \in 1 .. Len(d)
  BY <1>2
<1>5. (g + 1) + n = NChunks
  BY <1>2, SelectServerAssumption
<1>6. \A k \in 1 .. Len(Tail(d)) : Tail(d)[k] = "data"
  BY <1>3, <1>4
<1>7. (g + 1) + Len(Tail(d)) = NChunks
  BY <1>3, <1>5
<1> QED
  BY <1>6, <1>7

LEMMA ReadFileOK ==
  ASSUME Types, Links, NEW c \in Clients, ClientOK(c), ReadFile(c)
  PROVE  ClientOK(c)'
<1>1. client[c] = "download" /\ down[c] # << >> /\ UNCHANGED up
      /\ down[c] \in Seq(Answers) /\ got[c] \in Nat
  BY DEF ReadFile, Types
<1>2. (Connected(c)' <=> Connected(c)) /\ At(c)' = At(c) /\ misled \subseteq misled'
  BY ClientFrame
<1>3. c \notin shut
  BY <1>1, TalkIs DEF Talks
<1>4. Connected(c) => At(c) = "send" /\ Fetching(c)
  BY <1>1, TalkIs DEF Talks, Starting, Asking
<1>5. ~ Connected(c) => (c \in misled /\ down[c] = <<"eof">>) \/ IsRest(c)
  BY <1>1 DEF ClientOK, HungUpOn, Talks
<1>6. Head(down[c]) \in {"data", "eof"} /\ (Connected(c) => Head(down[c]) = "data")
  <2>1. Len(down[c]) \in Nat /\ Len(down[c]) >= 1 /\ Head(down[c]) = down[c][1]
    BY <1>1
  <2>2. CASE Connected(c)
    BY <1>4, <2>1, <2>2 DEF Fetching, IsContent
  <2>3. CASE ~ Connected(c) /\ c \in misled /\ down[c] = <<"eof">>
    BY <2>3, LiteralsAre
  <2>4. CASE ~ Connected(c) /\ IsRest(c)
    <3>1. PICK n \in Nat : n = Len(down[c]) /\ n >= 1
      BY <2>1
    <3>2. n = 1 \/ 1 \in 1 .. n - 1
      <4>1. ASSUME NEW m \in Nat, m >= 1, m # 1 PROVE 1 \in 1 .. m - 1
        BY <4>1
      <4> QED
        BY <3>1, <4>1
    <3>3. down[c][n] = "eof" /\ \A k \in 1 .. n - 1 : down[c][k] = "data"
      BY <2>4, <3>1 DEF IsRest
    <3> QED
      BY <2>1, <2>4, <3>2, <3>3
  <2> QED
    BY <1>5, <2>2, <2>3, <2>4
<1>7. CASE client' = client /\ shut' = shut
  <2>1. Head(down[c]) = "data" /\ down'[c] = Tail(down[c]) /\ got'[c] = got[c] + 1
    <3>1. "saved" # "download" /\ "lost" # "download"
      OBVIOUS
    <3> QED
      BY <1>1, <1>3, <1>6, <1>7, <3>1 DEF ReadFile, Leave, Types
  <2>2. CASE Connected(c)
    <3>1. Fetching(c)
      BY <1>4, <2>2
    <3>2. IsContent(c)'
      BY <1>1, <2>1, <3>1, ContentTail DEF Fetching, IsContent
    <3>3. Fetching(c)'
      BY <1>1, <1>7, <3>1, <3>2 DEF Fetching
    <3>4. Talking(c)'
      BY <1>2, <1>4, <2>2, <3>3 DEF Talking
    <3> QED
      BY <1>1, <1>2, <1>3, <1>7, <2>2, <3>4, TalksOK DEF Talks
  <2>3. CASE ~ Connected(c)
    <3>1. IsRest(c)
      BY <1>5, <2>1, <2>3, LiteralsAre
    <3>2. IsRest(c)'
      <4>1. /\ down[c][Len(down[c])] = "eof" /\ \A k \in 1 .. Len(down[c]) - 1 : down[c][k] = "data"
            /\ got[c] + Len(down[c]) = NChunks + 1
        BY <3>1 DEF IsRest
      <4>2. LET q == Tail(down[c]) IN
              /\ q # << >> /\ q[Len(q)] = "eof" /\ \A k \in 1 .. Len(q) - 1 : q[k] = "data"
              /\ (got[c] + 1) + Len(q) = NChunks + 1
        BY <1>1, <2>1, <4>1, RestTail
      <4> QED
        BY <2>1, <4>2 DEF IsRest
    <3> QED
      BY <1>1, <1>2, <1>3, <1>7, <2>3, <3>2, GoneOK DEF HungUpOn, Talks, Ending, Saving
  <2> QED
    BY <2>2, <2>3
<1>8. CASE Leave(c, "saved") /\ (Head(down[c]) = "data" => c \in misled') /\ got' = got
  <2>1. client'[c] = "saved" /\ c \in shut'
    BY <1>8 DEF Leave, Types
  <2>2. Saving(c)'
    <3>1. CASE c \in misled'
      BY <3>1 DEF Saving
    <3>2. CASE c \notin misled'
      <4>1. ~ Connected(c) /\ Head(down[c]) = "eof" /\ IsRest(c)
        BY <1>2, <1>5, <1>6, <1>8, <3>2
      <4>2. got[c] = NChunks
        BY <1>1, <4>1, RestTail DEF IsRest
      <4> QED
        BY <1>8, <4>2 DEF Saving
    <3> QED
      BY <3>1, <3>2
  <2>3. Leaving(c)'
    BY <1>1, <1>2, <1>4 DEF Leaving, Fetching
  <2> QED
    BY <2>1, <2>2, <2>3, EndedOK
<1> QED
  BY <1>6, <1>7, <1>8 DEF ReadFile

LEMMA OpenCopyFailsOK ==
  ASSUME Types, Links, NEW c \in Clients, ClientOK(c), OpenCopyFails(c)
  PROVE  ClientOK(c)'
<1>1. client[c] = "download" /\ up' = up /\ c \in shut' /\ c \in misled' /\ client'[c] = "saved"
  BY DEF OpenCopyFails, Leave, Types
<1>2. (Connected(c)' <=> Connected(c)) /\ At(c)' = At(c)
  BY ClientFrame
<1>3. Connected(c) => (At(c) = "request" /\ up[c] = <<"file">>) \/ (At(c) = "send" /\ up[c] = << >>)
  BY <1>1, TalkIs DEF Talks, Starting, Asking, Fetching
<1>4. Leaving(c)' /\ Saving(c)'
  BY <1>1, <1>2, <1>3 DEF Leaving, Saving
<1> QED
  BY <1>1, <1>4, EndedOK

LEMMA KillOK ==
  ASSUME Types, Links, NEW c \in Clients, ClientOK(c), Kill(c)
  PROVE  ClientOK(c)'
<1>1. Talks(c) /\ up'[c] \in {up[c], << >>} /\ c \in shut' /\ client'[c] = "lost"
  BY DEF Kill, Leave, Types, Talks
<1>2. (Connected(c)' <=> Connected(c)) /\ At(c)' = At(c)
  BY ClientFrame
<1>3. ASSUME Connected(c)
      PROVE  \/ At(c) = "request" /\ up'[c] \in {<< >>, <<"dir", "start">>, <<"file">>}
             \/ At(c) = "send" /\ up'[c] = << >>
             \/ At(c) = "extra" /\ up'[c] \in {<< >>, <<"start">>}
             \/ At(c) = "turn" /\ up'[c] \in {<< >>, <<"start">>, <<"rest">>}
  <2>1. CASE At(c) = "request" /\ Asking(c)
    BY <1>1, <2>1 DEF Asking
  <2>2. CASE At(c) \notin {"request", "send", "save"} /\ Starting(c)
    BY <1>1, <2>2, AtIs DEF Starting
  <2>3. CASE At(c) = "send" /\ Fetching(c)
    BY <1>1, <2>3 DEF Fetching
  <2> QED
    BY <1>1, <1>3, <2>1, <2>2, <2>3, TalkIs
<1>4. Leaving(c)' /\ Saving(c)'
  BY <1>1, <1>2, <1>3 DEF Leaving, Saving
<1> QED
  BY <1>1, <1>4, EndedOK

-------------------------------------------------------------------------------
(* All together. *)

\* The clients that are adrift stay so.
LEMMA AdriftGrows ==
  ASSUME [Next]_vars
  PROVE  adrift \subseteq adrift'
<1>1. ServerStep => adrift \subseteq adrift'
  BY DEF ServerStep, SelectFails, Select, Accept, Serve, EndScan, ReadStart, ShortRead, Disconnect,
         ReadRequest, SendFile, SendFileFails, CloseFile, ReadExtra, SaveFile, Stop, history
<1>2. \A c \in Clients : ClientStep(c) \/ Kill(c) => adrift \subseteq adrift'
  BY DEF ClientStep, Connect, ReadList, Choose, ReadFile, OpenCopyFails, Kill, history
<1> QED
  BY <1>1, <1>2 DEF Next, Over, vars, history

LEMMA ClientsNext ==
  ASSUME Inv, [Next]_vars, NEW c \in Clients, c \notin adrift'
  PROVE  ClientOK(c)'
<1>1. Types /\ Links /\ Uploads /\ ClientOK(c)
  BY AdriftGrows DEF Inv
<1>2. CASE SelectFails \/ SendFileFails
  BY <1>1, <1>2, StopOK DEF SelectFails, SendFileFails
<1>3. CASE Select \/ Accept \/ Serve \/ EndScan
  BY <1>1, <1>3, LoopOK
<1>4. CASE Disconnect
  BY <1>1, <1>4, DisconnectOK
<1>5. CASE ((ReadStart \/ CloseFile) /\ ~ Stopping) \/ ReadRequest \/ ReadExtra \/ SendFile \/ SaveFile
  <2>1. CASE Peer # c
    BY <1>1, <1>5, <2>1, OthersOK
  <2>2. CASE Peer = c
    BY <1>1, <1>5, <2>2, ReadStartOK, ReadRequestOK, ReadExtraOK, SendFileOK, CloseFileOK, SaveFileOK
  <2> QED
    BY <2>1, <2>2
<1>6. ASSUME NEW d \in Clients,
             Connect(d) \/ ReadList(d) \/ Choose(d) \/ ReadFile(d) \/ OpenCopyFails(d) \/ Kill(d)
      PROVE  ClientOK(c)'
  <2>1. CASE d # c
    BY <1>1, <1>6, <2>1, ElsewhereOK
  <2>2. CASE d = c
    BY <1>1, <1>6, <2>2, ConnectOK, ReadListOK, ChooseOK, ReadFileOK, OpenCopyFailsOK, KillOK
  <2> QED
    BY <2>1, <2>2
<1>7. CASE UNCHANGED vars
  <2>1. Alone(c)
    BY <1>7 DEF vars, loopVars, clientVars, history, Alone, Connected, Accepted, Queued
  <2>2. At(c)' = At(c) /\ kept' = kept
    BY <1>7 DEF vars, loopVars, uploadVars, At, Peer
  <2> QED
    BY <1>1, <2>1, <2>2, AloneOK
<1>8. CASE (ReadStart \/ CloseFile) /\ Stopping
  <2>1. Peer \in shut /\ Stop(up) /\ misled' = misled
    <3>1. server' = "down"
      BY <1>8 DEF Stopping, Stop
    <3> QED
      BY <1>8, <3>1 DEF ReadStart, CloseFile
  <2> QED
    BY <1>1, <1>8, <2>1, StopOK
<1> QED
  BY <1>2, <1>3, <1>4, <1>5, <1>6, <1>7, <1>8 DEF Next, ServerStep, ClientStep, Over

LEMMA UploadsNext ==
  ASSUME Inv, [Next]_vars
  PROVE  Uploads'
<1>1. Types /\ Links /\ Uploads /\ (\A c \in Clients \ adrift : ClientOK(c)) /\ adrift \subseteq adrift'
  BY AdriftGrows DEF Inv
<1>2. CASE Stopping
  BY <1>1, <1>2 DEF Stopping, Stop, Uploads, clientVars
<1>3. CASE \/ Select \/ Accept \/ Serve \/ EndScan \/ Disconnect \/ SendFile \/ ReadExtra
           \/ (ReadStart \/ CloseFile) /\ ~ Stopping
  <2>1. server \in {"select", "scan", "start", "request", "extra", "send"}
        /\ server' \notin {"extra", "save"} /\ UNCHANGED <<kept, short, shut, client>>
    BY <1>3 DEF Select, Accept, Serve, EndScan, ReadStart, Disconnect, SendFile, CloseFile, ReadExtra,
                Stopping, uploadVars, clientVars
  <2> QED
    BY <1>1, <2>1 DEF Uploads
<1>4. CASE ReadRequest
  <2>1. server = "request" /\ UNCHANGED <<kept, short, shut, client, conn, clnt_sock>> /\ server' # "request"
    BY <1>4 DEF ReadRequest, uploadVars, clientVars, loopVars
  <2>2. Peer # Nobody /\ Peer' = Peer
    BY <1>4, <2>1 DEF ReadRequest, HasData, Peer
  <2> QED
    BY <1>1, <2>1, <2>2 DEF Uploads
<1>5. CASE SaveFile
  <2>1. server = "save" /\ UNCHANGED <<clnt_sock, shut, client, adrift>> /\ Peer # Nobody
    BY <1>1, <1>5 DEF SaveFile, Uploads, clientVars
  <2>2. Peer \in Clients
    BY <1>1, <2>1, PeerIs
  <2>3. CASE UNCHANGED <<server, conn, short>>
    BY <1>1, <2>1, <2>3 DEF Uploads, Peer
  <2>4. CASE /\ AtEnd(Peer) /\ kept' = 0 /\ server' = "scan"
             /\ short' = IF kept < NChunks THEN short \cup {Peer} ELSE short
    <3>1. Peer \in shut /\ up[Peer] = << >>
      BY <2>1, <2>4 DEF AtEnd
    <3>2. Peer \notin adrift /\ client[Peer] = "done" => kept = NChunks
      BY <1>1, <1>5, <2>2, <3>1, SaveFileOK
    <3>3. Peer \notin adrift /\ kept < NChunks => client[Peer] # "done"
      BY <3>2, SelectServerAssumption
    <3>4. \A c \in short' \ adrift : c \in shut /\ client[c] # "done"
      BY <1>1, <2>4, <3>1, <3>3 DEF Uploads
    <3> QED
      BY <1>1, <2>1, <2>2, <2>4, <3>4 DEF Uploads
  <2> QED
    BY <1>5, <2>3, <2>4 DEF SaveFile
<1>6. ASSUME NEW c \in Clients,
             Connect(c) \/ ReadList(c) \/ Choose(c) \/ ReadFile(c) \/ OpenCopyFails(c) \/ Kill(c)
      PROVE  Uploads'
  <2>1. UNCHANGED <<server, conn, clnt_sock, kept, short, adrift>> /\ shut \subseteq shut'
    BY <1>6 DEF Connect, ReadList, Choose, ReadFile, OpenCopyFails, Kill, Leave, serverVars, uploadVars, history
  <2>2. \A d \in Clients \ {c} : client'[d] = client[d]
    BY <1>1, <1>6 DEF Connect, ReadList, Choose, ReadFile, OpenCopyFails, Kill, Leave, Types
  <2>3. client[c] = "off" \/ Talks(c)
    BY <1>6 DEF Connect, ReadList, Choose, ReadFile, OpenCopyFails, Kill, Talks
  <2>4. c \notin adrift => c \notin shut
    BY <1>1, <2>3, TalkIs DEF ClientOK, Beginning
  <2>5. short \ adrift \subseteq Clients \ {c}
    BY <1>1, <2>4 DEF Uploads
  <2> QED
    BY <1>1, <2>1, <2>2, <2>5 DEF Uploads, Peer
<1>7. CASE UNCHANGED vars
  BY <1>1, <1>7 DEF vars, loopVars, uploadVars, clientVars, history, Uploads, Peer
<1>8. SelectFails \/ SendFileFails => Stopping
  BY DEF SelectFails, SendFileFails, Stopping
<1> QED
  BY <1>2, <1>3, <1>4, <1>5, <1>6, <1>7, <1>8 DEF Next, ServerStep, ClientStep, Over

LEMMA InvInit ==
  ASSUME Init
  PROVE  Inv
<1>1. Types
  BY NIs, WordsAre DEF Init, Types, Serving
<1>2. \A c \in Clients : ~ Connected(c)
  BY SelectServerAssumption DEF Init, Connected, Accepted, Queued
<1>3. Links
  BY <1>2, NIs, SelectServerAssumption DEF Init, Links, Connected
<1>4. Watched
  BY NIs DEF Init, Watched, Open
<1>5. Uploads
  BY DEF Init, Uploads
<1>6. ASSUME NEW c \in Clients PROVE ClientOK(c)
  BY <1>2 DEF Init, ClientOK, Beginning, Talking, Talks, HungUpOn, Ending, Leaving, Saving
<1> QED
  BY <1>1, <1>3, <1>4, <1>5, <1>6 DEF Inv

LEMMA InvNext ==
  ASSUME Inv, [Next]_vars
  PROVE  Inv'
<1>1. Types' /\ Links' /\ Watched'
  BY TypesNext, LinksNext, WatchedNext DEF Inv
<1>2. Uploads'
  BY UploadsNext
<1>3. \A c \in Clients \ adrift' : ClientOK(c)'
  BY ClientsNext
<1> QED
  BY <1>1, <1>2, <1>3 DEF Inv

\* The server of practice/hw3/server/server.c serves a request from its first
\* read() to its last on the connection it accepted last, and what is on its way
\* between it and each client of practice/hw3/client/client.c is what the
\* client's program counter and the server's say, also when a file cannot be
\* opened and fclose(NULL) ends the server (server.c:200).
THEOREM InvCorrect == Spec => []Inv
<1>1. Init => Inv
  BY InvInit
<1>2. Inv /\ [Next]_vars => Inv'
  BY InvNext
<1> QED
  BY <1>1, <1>2, PTL DEF Spec

-------------------------------------------------------------------------------
(* The properties. *)

LEMMA InStepIs ==
  ASSUME Inv
  PROVE  InStep
<1>1. Types /\ Links /\ \A c \in Clients \ adrift : ClientOK(c)
  BY DEF Inv
<1>2. ASSUME Peer \notin adrift, HasData(Peer)
      PROVE  /\ server = "start" => Head(up[Peer]) \in {"start", "rest"}
             /\ server = "request" => Head(up[Peer]) \in {"dir", "file", "upload"}
  <2> DEFINE c == Peer
  <2>1. c \in Clients /\ up[c] \in Seq(Msgs) /\ up[c] # << >>
    BY <1>1, <1>2, TakenIs
  <2>2. ClientOK(c)
    BY <1>1, <1>2, <2>1
  <2>3. Connected(c) /\ client[c] # "off" /\ (c \notin shut => Talks(c))
    BY <1>1, <2>1, <2>2, PeerOK
  <2> HIDE DEF c
  <2>4. c = Peer
    BY DEF c
  <2>5. CASE server = "start"
    <3>1. At(c) = "turn"
      BY <2>5 DEF At
    <3>2. up[c] \in {<<"start">>, <<"rest">>}
      <4>1. CASE c \in shut
        BY <2>1, <2>2, <2>3, <3>1, <4>1 DEF ClientOK, Leaving
      <4>2. CASE c \notin shut
        BY <1>1, <2>1, <2>2, <2>3, <3>1, <4>2, TurnIs
      <4> QED
        BY <4>1, <4>2
    <3> QED
      BY <2>4, <2>5, <3>2, LiteralsAre
  <2>6. CASE server = "request"
    <3>1. At(c) = "request"
      BY <2>4, <2>6 DEF At
    <3>2. up[c] \in {<<"dir", "start">>, <<"dir">>, <<"file">>} \/ IsUpload(c)
      <4>1. CASE c \in shut
        BY <2>1, <2>2, <2>3, <3>1, <4>1 DEF ClientOK, Leaving
      <4>2. CASE c \notin shut
        BY <2>1, <2>2, <2>3, <3>1, <4>2 DEF ClientOK, Talking, Asking
      <4> QED
        BY <4>1, <4>2
    <3> QED
      BY <2>4, <2>6, <3>2, LiteralsAre DEF IsUpload
  <2> QED
    BY <2>5, <2>6
<1>3. ASSUME NEW c \in Clients \ adrift, client[c] = "menu" PROVE down[c] = << >>
  BY <1>1, <1>3, TalkIs DEF Talks, Starting, Asking, Fetching
<1>4. \A c \in Clients \ adrift : client[c] = "menu" => \A k \in 1 .. Len(down[c]) : down[c][k] # "list"
  BY <1>3
<1> QED
  BY <1>2, <1>4 DEF InStep

\* What the server reads as a start of a client is one and what it reads as a
\* request is one (server.c:98-125), and a client at its menu has read its list,
\* whatever number of clients crowd, are killed or transfer files, for every
\* client whose messages came as a whole and whose upload could be opened.
THEOREM InStepCorrect == Spec => []InStep
BY InvCorrect, InStepIs, PTL

\* What client.c takes for a complete file is one, but for what it cannot tell from
\* the end of a file, and the server has the whole of each upload of a client that
\* ended by itself, for files of any length.
THEOREM TransfersAreWholeCorrect == Spec => []TransfersAreWhole
<1>1. Inv => TransfersAreWhole
  BY DEF Inv, ClientOK, Saving, Uploads, TransfersAreWhole
<1> QED
  BY <1>1, InvCorrect, PTL

\* As long as nobody transfers a file the descriptors select() watches in
\* server.c are those that are open, so that it does not end the server.
THEOREM WatchesWhatIsOpenCorrect == Spec => []WatchesWhatIsOpen
<1>1. Inv => WatchesWhatIsOpen
  BY DEF Inv, Watched, WatchesWhatIsOpen
<1> QED
  BY <1>1, InvCorrect, PTL

================================================================================
