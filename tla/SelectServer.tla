---------------------------- MODULE SelectServer ----------------------------
(***************************************************************************)
(* practice/hw3: a file server that serves its clients from one process    *)
(* with select(), and the client program.  A client says "start", gets the *)
(* list of the server's directory and asks for one thing: another          *)
(* directory and its list, a file, the upload of a file, or nothing.       *)
(*                                                                         *)
(* The server watches every connection, but whichever one is ready, what   *)
(* it reads and writes is clnt_sock, the one it accepted last.             *)
(*                                                                         *)
(* What is on its way to the server is a sequence of "start", "rest" (a    *)
(* message of which the first bytes have been read), the choices and       *)
(* "data"; what is on its way to a client is "list", "data" and how the    *)
(* server closed the connection: "eof", or "reset" if something was unread.*)
(***************************************************************************)
EXTENDS Integers, Sequences, FiniteSets, FiniteSetsExt

CONSTANTS
  Clients,      \* the client processes
  Nobody,       \* who is at the other end of a descriptor that is not open
  Menu,         \* what the users choose from the menu
  MaxDirs,      \* bound: how often the users change the directory
  MaxCuts,      \* bound: once so many clients are adrift messages come as a whole
  NChunks,      \* how many blocks a file has
  MayDie,       \* TRUE: a client may be killed
  OpenMayFail   \* TRUE: fopen() may fail

ASSUME SelectServerAssumption ==
  /\ IsFiniteSet(Clients)
  /\ Nobody \notin Clients
  /\ Menu \subseteq {"dir", "file", "upload", "quit"}
  /\ MaxDirs \in Nat
  /\ MaxCuts \in Nat
  /\ NChunks \in Nat
  /\ {MayDie, OpenMayFail} \subseteq BOOLEAN

serv_sock == 3

\* The descriptors the server can get.
Fds == serv_sock .. serv_sock + Cardinality(Clients)

VARIABLES
  server,     \* the server's program counter
  i,          \* the descriptor it found ready
  clnt_sock,  \* the descriptor it accepted last
  reads,      \* the descriptors it watches
  fd_max,     \* the greatest of them so far
  ready,      \* cpy_reads: those found ready and not looked at yet
  conn,       \* conn[f]: the client at the other end of f
  backlog,    \* clients that are not accepted yet, oldest first
  client,     \* client[c]: c's program counter
  up,         \* up[c]: what is on its way from c to the server
  shut,       \* the clients that have closed their end
  down,       \* down[c]: what is on its way from the server to c
  dirs,       \* how often the clients have changed the directory
  got,        \* got[c]: how many blocks c has saved, if it was not killed
  kept,       \* how many blocks of an upload the server has written
  short,      \* the clients of whose uploads it has taken a part for the whole
  seen,       \* history: what has gone before: "crowd", two clients at once;
              \* "transfer" of a file in either direction; "kill", a client
              \* that was killed
  adrift,     \* history: the clients whose messages the server no longer tells
              \* apart: one was read in part, or an upload could not be opened
  misled      \* history: the clients to which something else looked like the
              \* end of the file: an fopen() that failed on either side, a
              \* connection that was reset, a block that reads "eof"

loopVars   == <<clnt_sock, reads, fd_max, conn, backlog>>
clientVars == <<client, shut, dirs, got>>

uploadVars == <<kept, short>>

history == <<seen, adrift, misled>>

vars == <<server, i, ready, loopVars, uploadVars, clientVars, up, down, history>>

Init ==
  /\ server    = "select"
  /\ i         = 0
  /\ clnt_sock = serv_sock
  /\ reads     = {serv_sock}
  /\ fd_max    = serv_sock
  /\ ready     = {}
  /\ conn      = [f \in Fds |-> Nobody]
  /\ backlog   = << >>
  /\ client    = [c \in Clients |-> "off"]
  /\ up        = [c \in Clients |-> << >>]
  /\ shut      = {}
  /\ down      = [c \in Clients |-> << >>]
  /\ dirs      = 0
  /\ got       = [c \in Clients |-> 0]
  /\ kept      = 0
  /\ short     = {}
  /\ seen      = {}
  /\ adrift    = {}
  /\ misled    = {}

-------------------------------------------------------------------------------
(* Sockets. *)

Open(f) == f = serv_sock \/ conn[f] # Nobody

\* A read() of c's connection would not return anything but the end.
AtEnd(c) == c = Nobody \/ (c \in shut /\ up[c] = << >>)

\* A read() of c's connection returns some data.
HasData(c) == c # Nobody /\ up[c] # << >>

\* select() finds f ready.
Readable(f) ==
  IF f = serv_sock THEN backlog # << >> ELSE HasData(conn[f]) \/ AtEnd(conn[f])

\* The client that clnt_sock leads to.
Peer == conn[clnt_sock]

\* How c sees that the server has closed their connection, when left is what the
\* server has not read.
Farewell(c, left) == IF left[c] = << >> THEN "eof" ELSE "reset"

\* What is on its way to the clients once the server has closed those to cs.
Hangup(cs, left) ==
  [c \in Clients |-> IF c \in cs \ shut THEN Append(down[c], Farewell(c, left)) ELSE down[c]]

\* The server process ends, and so do all connections.
Stop(left) ==
  /\ server' = "down"
  /\ down' = Hangup({conn[f] : f \in Fds} \cup {backlog[k] : k \in 1 .. Len(backlog)}, left)
  /\ conn' = [f \in Fds |-> Nobody]
  /\ backlog' = << >>
  /\ ready' = {}
  /\ up' = [c \in Clients |-> << >>]
  /\ kept' = 0
  /\ i' = 0
  /\ UNCHANGED <<clnt_sock, reads, fd_max, short, clientVars, seen, adrift>>

\* What is left when the server has read the first message of its peer.
Taken == [up EXCEPT ![Peer] = Tail(@)]

\* A read() returns the first bytes of a start only; what comes after is no longer
\* read where it begins.
ShortRead ==
  /\ Head(up[Peer]) = "start"
  /\ Cardinality(adrift) < MaxCuts
  /\ up' = [up EXCEPT ![Peer] = <<"rest">> \o Tail(@)]
  /\ adrift' = adrift \cup {Peer}

-------------------------------------------------------------------------------
(* The server's loop. *)

\* select() returns -1 when a descriptor it is to watch is not open: the
\* server leaves its loop.
SelectFails ==
  /\ server = "select"
  /\ \E f \in reads : ~ Open(f)
  /\ Stop(up)
  /\ UNCHANGED misled

\* select() returns.
Select ==
  /\ server = "select"
  /\ \A f \in reads : Open(f)
  /\ ready' = {f \in reads : f <= fd_max /\ Readable(f)}
  /\ ready' # {}
  /\ server' = "scan"
  /\ UNCHANGED <<i, loopVars, uploadVars, clientVars, up, down, history>>

\* The loop over the descriptors comes to the listening one.
Accept ==
  /\ server = "scan"
  /\ serv_sock \in ready
  /\ LET f == Min({g \in Fds : ~ Open(g)}) IN
       /\ conn' = [conn EXCEPT ![f] = Head(backlog)]
       /\ clnt_sock' = f
       /\ reads' = reads \cup {f}
       /\ fd_max' = Max({fd_max, f})
  /\ backlog' = Tail(backlog)
  /\ ready' = ready \ {serv_sock}
  /\ UNCHANGED <<server, i, uploadVars, clientVars, up, down, history>>

\* It comes to another one.
Serve ==
  /\ server = "scan"
  /\ ready # {}
  /\ serv_sock \notin ready
  /\ i' = Min(ready)
  /\ ready' = ready \ {i'}
  /\ server' = "start"
  /\ UNCHANGED <<loopVars, uploadVars, clientVars, up, down, history>>

EndScan ==
  /\ server = "scan"
  /\ ready = {}
  /\ server' = "select"
  /\ i' = 0
  /\ UNCHANGED <<ready, loopVars, uploadVars, clientVars, up, down, history>>

-------------------------------------------------------------------------------
(* One request.  Reads wait until there is something to read. *)

\* Bug for a mutant run: the buffer is too short for the message.
AfterMessageTooShort(s) ==
  IF Head(s) = "start" THEN <<"rest">> \o Tail(s) ELSE Tail(s)

\* What is left of s when read() has filled the BUF_SIZE bytes of message.
AfterMessage(s) == Tail(s)

\* The client is sent the list of the directory.
DirectoryList == <<"list">>

\* read(message), then the name of the directory and its list.  Nothing is
\* looked at: they are sent whatever was read, and if the client is gone
\* one of the writes may kill the server.
ReadStart ==
  /\ server = "start"
  /\ \/ /\ HasData(Peer)
        /\ \/ up' = [up EXCEPT ![Peer] = AfterMessage(@)] /\ UNCHANGED adrift
           \/ ShortRead
        /\ down' = IF Peer \in shut THEN down ELSE [down EXCEPT ![Peer] = @ \o DirectoryList]
        /\ server' = "request"
        /\ UNCHANGED <<i, ready, loopVars, uploadVars, clientVars, seen, misled>>
     \/ /\ AtEnd(Peer)
        /\ server' = "request"
        /\ UNCHANGED <<i, ready, loopVars, uploadVars, clientVars, up, down, history>>
     \/ /\ Peer \in shut
        /\ Stop(up)
        /\ UNCHANGED misled

\* Bug for a mutant run: the descriptor that was closed is still watched.
StillWatchedAll == reads

\* FD_CLR(i).
StillWatched == reads \ {i}

\* The read() of the request fails: what is closed is i, and the rest of the
\* descriptors is left for the next select().
Disconnect ==
  /\ server = "request"
  /\ AtEnd(Peer)
  /\ reads' = StillWatched
  /\ down' = Hangup({conn[i]}, up)
  /\ up' = [c \in Clients |-> IF c = conn[i] THEN << >> ELSE up[c]]
  /\ conn' = [conn EXCEPT ![i] = Nobody]
  /\ ready' = {}
  /\ server' = "select"
  /\ i' = 0
  /\ UNCHANGED <<clnt_sock, fd_max, backlog, uploadVars, clientVars, history>>

\* What a read() of the size of a request leaves of s: a start is longer, and a
\* block may be.
AfterRequest(s) ==
  IF Head(s) = "start" THEN {<<"rest">> \o Tail(s)}
  ELSE IF Head(s) = "data" THEN {Tail(s), s} ELSE {Tail(s)}

\* The read() returns something else than a request for a file.  When an upload
\* could not be opened the blocks of the file are read as requests; neither they
\* nor a part of a message is taken to look like a request.
ReadRequest ==
  /\ server = "request"
  /\ HasData(Peer)
  /\ LET what == Head(up[Peer])
         read == \E s \in AfterRequest(up[Peer]) : up' = [up EXCEPT ![Peer] = s]
     IN
       \/ what = "dir" /\ read /\ server' = "extra" /\ UNCHANGED adrift
       \/ what = "upload" /\ read /\ server' = "save" /\ UNCHANGED adrift
       \/ what = "upload" /\ OpenMayFail /\ read /\ server' = "scan" /\ adrift' = adrift \cup {Peer}
       \/ what \notin {"dir", "upload", "file"} /\ read /\ server' = "scan" /\ UNCHANGED adrift
  /\ UNCHANGED <<i, ready, loopVars, uploadVars, clientVars, down, seen, misled>>

\* Bug for a mutant run: the last block is not sent.
ContentOffByOne == [k \in 1 .. NChunks - 1 |-> "data"]

\* What is written of a file.
Content == [k \in 1 .. NChunks |-> "data"]

\* The request for a file: its content.
SendFile ==
  /\ server = "request"
  /\ HasData(Peer)
  /\ Head(up[Peer]) = "file"
  /\ up' = Taken
  /\ down' = IF Peer \in shut THEN down ELSE [down EXCEPT ![Peer] = @ \o Content]
  /\ server' = "send"
  /\ UNCHANGED <<i, ready, loopVars, uploadVars, clientVars, history>>

\* The file cannot be opened, and fclose(NULL) ends the server, which has read the
\* whole request: its client sees an end.
SendFileFails ==
  /\ OpenMayFail
  /\ server = "request"
  /\ HasData(Peer)
  /\ Head(up[Peer]) = "file"
  /\ Stop(Taken)
  /\ misled' = misled \cup {Peer}

\* Then the connection is closed, but is still watched; or the client is gone
\* before it has read the file, and one of the writes ends the server.
CloseFile ==
  /\ server = "send"
  /\ \/ /\ down' = Hangup({Peer}, up)
        /\ up' = [c \in Clients |-> IF c = Peer THEN << >> ELSE up[c]]
        /\ conn' = [conn EXCEPT ![clnt_sock] = Nobody]
        /\ seen' = seen \cup {"transfer"}
        /\ server' = "scan"
        /\ UNCHANGED <<i, clnt_sock, reads, fd_max, backlog, ready, uploadVars, clientVars, adrift>>
     \/ /\ Peer \in shut
        /\ Stop(up)
  /\ UNCHANGED misled

\* After chdir(): one more read(), of the size of a request, takes the first
\* bytes of the client's next start.
ReadExtra ==
  /\ server = "extra"
  /\ \/ /\ HasData(Peer)
        /\ \E s \in AfterRequest(up[Peer]) : up' = [up EXCEPT ![Peer] = s]
        /\ server' = "scan"
        /\ UNCHANGED <<i, ready>>
     \/ /\ AtEnd(Peer)
        /\ ready' = {}
        /\ server' = "select"
        /\ i' = 0
        /\ UNCHANGED up
  /\ UNCHANGED <<loopVars, uploadVars, clientVars, down, history>>

\* The uploaded file is read up to its end, then the connection is closed, but
\* is still watched.
SaveFile ==
  /\ server = "save"
  /\ \/ /\ HasData(Peer)
        /\ up' = Taken
        /\ kept' = kept + 1
        /\ UNCHANGED <<server, conn, short, seen>>
     \/ /\ AtEnd(Peer)
        /\ conn' = [conn EXCEPT ![clnt_sock] = Nobody]
        /\ short' = IF kept < NChunks THEN short \cup {Peer} ELSE short
        /\ kept' = 0
        /\ seen' = seen \cup {"transfer"}
        /\ server' = "scan"
        /\ UNCHANGED up
  /\ UNCHANGED <<i, ready, clnt_sock, reads, fd_max, backlog, clientVars, down, adrift, misled>>

-------------------------------------------------------------------------------
(* Client c. *)

Ended(c) == client[c] \in {"done", "saved", "lost"}

\* The server has closed its end of c's connection.
HungUp(c) == \E k \in 1 .. Len(down[c]) : down[c][k] \in {"eof", "reset"}

\* What is on its way to the server once c has written ts.
Sent(c, ts) == IF HungUp(c) THEN up ELSE [up EXCEPT ![c] = @ \o ts]

\* c ends, and so does its end of the connection.
Leave(c, how) ==
  /\ client' = [client EXCEPT ![c] = how]
  /\ shut' = shut \cup {c}
  /\ down' = [down EXCEPT ![c] = << >>]

serverVars == <<server, i, ready, clnt_sock, reads, fd_max, conn, uploadVars>>

\* Connects and writes its first start.
Connect(c) ==
  /\ client[c] = "off"
  /\ seen' = IF \A d \in Clients : client[d] = "off" \/ Ended(d) THEN seen
             ELSE seen \cup {"crowd"}
  /\ \/ /\ server # "down"
        /\ backlog' = Append(backlog, c)
        /\ up' = Sent(c, <<"start">>)
        /\ client' = [client EXCEPT ![c] = "list"]
     \/ /\ server = "down"
        /\ client' = [client EXCEPT ![c] = "lost"]
        /\ UNCHANGED <<backlog, up>>
  /\ UNCHANGED <<serverVars, shut, down, dirs, got, adrift, misled>>

\* What is left of s when the list has been read.
AfterList(s) == Tail(s)

\* Reads the list.  If there is no list it reads for ever.
ReadList(c) ==
  /\ client[c] = "list"
  /\ down[c] # << >>
  /\ \/ /\ Head(down[c]) = "list"
        /\ down' = [down EXCEPT ![c] = AfterList(@)]
        /\ client' = [client EXCEPT ![c] = "menu"]
     \/ /\ Head(down[c]) # "list"
        /\ client' = [client EXCEPT ![c] = "lost"]
        /\ UNCHANGED down
  /\ UNCHANGED <<serverVars, backlog, up, shut, dirs, got, history>>

\* What is written for an upload of which k blocks are sent.
Upload(k) == <<"upload">> \o [j \in 1 .. k |-> "data"]

\* The user chooses what to do.  A client may be killed before it has written the
\* start that follows the name of a directory, or before the end of an upload,
\* which also ends early if the file cannot be opened.  Asking for a file on a
\* connection that the server has closed may have it reset before the answer is
\* read.
Choose(c) ==
  /\ client[c] = "menu"
  /\ \E what \in Menu :
       \/ /\ what = "dir"
          /\ dirs < MaxDirs
          /\ dirs' = dirs + 1
          /\ \/ /\ up' = Sent(c, <<"dir", "start">>)
                /\ client' = [client EXCEPT ![c] = "list"]
                /\ UNCHANGED <<shut, down, seen>>
             \/ /\ MayDie
                /\ up' = Sent(c, <<"dir">>)
                /\ Leave(c, "lost")
                /\ seen' = seen \cup {"kill"}
       \/ /\ what = "file"
          /\ up' = Sent(c, <<"file">>)
          /\ client' = [client EXCEPT ![c] = "download"]
          /\ down' \in {down} \cup
               (IF HungUp(c) THEN {[down EXCEPT ![c] = <<"reset">>]} ELSE {})
          /\ UNCHANGED <<shut, dirs, seen>>
       \/ /\ what = "upload"
          /\ \E k \in (IF OpenMayFail THEN {0} ELSE {}) \cup
                     (IF MayDie THEN 0 .. NChunks ELSE {NChunks}) :
               /\ up' = Sent(c, Upload(k))
               /\ Leave(c, IF k = NChunks THEN "done" ELSE "lost")
          /\ UNCHANGED <<dirs, seen>>
       \/ /\ what = "quit"
          /\ Leave(c, "done")
          /\ UNCHANGED <<up, dirs, seen>>
  /\ UNCHANGED <<serverVars, backlog, got, adrift, misled>>

\* Reads the file: the end of the connection is the end of the file, and so is a
\* block that reads as the string "eof".  When the connection was reset as many
\* bytes are written as (size_t) -1 says: that ends the client, or the next read()
\* finds the end.
ReadFile(c) ==
  /\ client[c] = "download"
  /\ down[c] # << >>
  /\ LET what == Head(down[c]) IN
       \/ /\ what \in {"data", "list"}
          /\ down' = [down EXCEPT ![c] = Tail(@)]
          /\ got' = [got EXCEPT ![c] = @ + 1]
          /\ UNCHANGED <<client, shut, misled>>
       \/ /\ what = "data"
          /\ Leave(c, "saved")
          /\ misled' = misled \cup {c}
          /\ UNCHANGED got
       \/ /\ what = "eof"
          /\ Leave(c, "saved")
          /\ UNCHANGED <<got, misled>>
       \/ /\ what = "reset"
          /\ \E how \in {"saved", "lost"} : Leave(c, how)
          /\ misled' = misled \cup {c}
          /\ UNCHANGED got
  /\ UNCHANGED <<serverVars, backlog, up, dirs, seen, adrift>>

\* The copy cannot be opened: the client says that it is saved all the same.
OpenCopyFails(c) ==
  /\ OpenMayFail
  /\ client[c] = "download"
  /\ got[c] = 0
  /\ Leave(c, "saved")
  /\ misled' = misled \cup {c}
  /\ UNCHANGED <<serverVars, backlog, up, dirs, got, seen, adrift>>

\* The client is killed.  If it had not read everything what it sent may be
\* lost.
Kill(c) ==
  /\ MayDie
  /\ client[c] \in {"list", "menu", "download"}
  /\ Leave(c, "lost")
  /\ seen' = seen \cup {"kill"}
  /\ \/ UNCHANGED up
     \/ down[c] # << >> /\ up' = [up EXCEPT ![c] = << >>]
  /\ got' = [got EXCEPT ![c] = 0]
  /\ UNCHANGED <<serverVars, backlog, dirs, adrift, misled>>

-------------------------------------------------------------------------------
\* Every client has ended.
Over ==
  /\ \A c \in Clients : Ended(c)
  /\ UNCHANGED vars

ServerStep ==
  \/ SelectFails \/ Select \/ Accept \/ Serve \/ EndScan
  \/ ReadStart \/ Disconnect \/ ReadRequest \/ SendFile \/ SendFileFails
  \/ CloseFile \/ ReadExtra \/ SaveFile

ClientStep(c) == Connect(c) \/ ReadList(c) \/ Choose(c) \/ ReadFile(c) \/ OpenCopyFails(c)

Next ==
  \/ ServerStep
  \/ \E c \in Clients : ClientStep(c) \/ Kill(c)
  \/ Over

Spec == Init /\ [][Next]_vars

\* The programs run and the users choose; nobody has to start a client.
FairSpec ==
  /\ Spec
  /\ WF_vars(ServerStep)
  /\ \A c \in Clients : WF_vars(ReadList(c) \/ Choose(c) \/ ReadFile(c))

-------------------------------------------------------------------------------
(* Properties *)

\* Server and client stay in step although neither says how much it sends and
\* the server takes the head of a start away after a change of directory: as long
\* as no upload of it fails to be opened and each of its messages comes as a
\* whole, what is read of a client as a start is one and what is read as a request
\* is one, and it has read all it was sent when it asks its user.  Clients may
\* crowd, be killed, transfer files and be adrift, which disturbs no other.
InStep ==
  /\ HasData(Peer) /\ Peer \notin adrift =>
       /\ server = "start" => Head(up[Peer]) \in {"start", "rest"}
       /\ server = "request" => Head(up[Peer]) \in {"dir", "file", "upload"}
  /\ \A c \in Clients \ adrift :
       client[c] = "menu" => \A k \in 1 .. Len(down[c]) : down[c][k] # "list"

\* Client and server both take the end of the connection for the end of the
\* file.  A client that takes its download for complete has the whole file all
\* the same, also when clients crowd, are killed or the server ends, unless it is
\* one of those that something else misled or that are adrift; and
\* the server has the whole of every upload of a client that ended by itself.
TransfersAreWhole ==
  /\ \A c \in Clients \ (misled \cup adrift) : client[c] = "saved" => got[c] = NChunks
  /\ \A c \in short \ adrift : client[c] # "done"

\* What select() is to watch is what is open, no more and no less, however many
\* clients there are and whichever is disconnected, as long as none transfers a
\* file.
WatchesWhatIsOpen ==
  server = "select" /\ "transfer" \notin seen => \A f \in Fds : f \in reads <=> Open(f)

\* A client was accepted before another one, so that the server no longer reads
\* what it sends.
PassedOver(c) == \E f \in Fds : conn[f] = c /\ f # clnt_sock

\* A client gets every list it asks for, as long as none transfers a file or is
\* killed: the server never blocks in a read() that has nothing to come, and
\* when clients come one by one it does not stop either.  When they crowd it is only
\* those passed over, or all if the server wrote to one that had left, that
\* are not served.
AllServed ==
  [](seen \subseteq {"crowd"} /\ adrift = {} /\ misled = {}) =>
    \A c \in Clients :
      client[c] = "list" /\ ~ HungUp(c) ~>
        client[c] = "menu" \/ ("crowd" \in seen /\ (PassedOver(c) \/ server = "down"))

=============================================================================
