------------------------------ MODULE Download ------------------------------
(***************************************************************************)
(* practice/hw1: a server that accepts two connections, lists its files on *)
(* the first, sends the file named on the second, and ends.  A client uses *)
(* one connection for the list and a new one for the file.  A connection   *)
(* that ends is the end of the list or of the file.                        *)
(***************************************************************************)
EXTENDS Integers, Sequences

CONSTANTS
  Clients,      \* the client processes
  Nobody,       \* the other end of clnt_sock when it is closed
  NFiles,       \* how many names are listed
  NChunks,      \* how many blocks the file has
  OpenMayFail   \* TRUE: fopen() of a listed file may fail

ASSUME DownloadAssumption ==
  /\ Nobody \notin Clients
  /\ NFiles \in Nat
  /\ NChunks \in Nat
  /\ OpenMayFail \in BOOLEAN

VARIABLES
  server,     \* the server's program counter
  cut,        \* clients whose connection nobody had accepted when the server ended
  clnt_sock,  \* whose connection it has accepted
  backlog,    \* clients that wait to be accepted, oldest first
  client,     \* client[c]: c's program counter
  up,         \* up[c]: messages on their way to the server
  down,       \* down[c]: what is on its way to c
  names,      \* names[c]: how many names c has read
  got         \* got[c]: how many blocks c has saved

vars == <<server, cut, clnt_sock, backlog, client, up, down, names, got>>

Init ==
  /\ server    = "accept first"
  /\ cut       = {}
  /\ clnt_sock = Nobody
  /\ backlog   = << >>
  /\ client    = [c \in Clients |-> "start"]
  /\ up        = [c \in Clients |-> << >>]
  /\ down      = [c \in Clients |-> << >>]
  /\ names     = [c \in Clients |-> 0]
  /\ got       = [c \in Clients |-> 0]

-------------------------------------------------------------------------------
(* The server. *)

\* accept(), the first or the second one.
Accept ==
  /\ backlog # << >>
  /\ \/ server = "accept first" /\ server' = "list"
     \/ server = "accept second" /\ server' = "file"
  /\ clnt_sock' = Head(backlog)
  /\ backlog' = Tail(backlog)
  /\ UNCHANGED <<cut, client, up, down, names, got>>

\* Bug for a mutant run: the last file is not listed.
ListingOffByOne == [k \in 1 .. NFiles - 1 |-> "name"]

\* What send_file_list() writes.
Listing == [k \in 1 .. NFiles |-> "name"]

\* Bug for a mutant run: the connection is left open.
ClosingForgotten == << >>

\* What the client reads after shutdown() and close().
Closing == <<"eof">>

\* Any message is answered with the list.
SendList ==
  /\ server = "list"
  /\ up[clnt_sock] # << >>
  /\ up' = [up EXCEPT ![clnt_sock] = Tail(@)]
  /\ down' = [down EXCEPT ![clnt_sock] = (@ \o Listing) \o Closing]
  /\ clnt_sock' = Nobody
  /\ server' = "accept second"
  /\ UNCHANGED <<cut, backlog, client, names, got>>

\* Bug for a mutant run: a file of whole blocks lacks the last one.
ContentOffByOne == [k \in 1 .. NChunks - 1 |-> "data"]

\* What send_file_content() writes.
Content == [k \in 1 .. NChunks |-> "data"]

\* The second message is taken as a file name.  If there is no such file
\* fclose(NULL) ends the server; otherwise it ends when the file is sent.  The
\* connections nobody has accepted end too.
SendFile ==
  /\ server = "file"
  /\ up[clnt_sock] # << >>
  /\ cut' = {backlog[k] : k \in 1 .. Len(backlog)}
  /\ \E opened \in BOOLEAN :
       /\ opened => Head(up[clnt_sock]) = "file name"
       /\ opened \/ OpenMayFail \/ Head(up[clnt_sock]) = "yes"
       /\ server' = IF opened THEN "down" ELSE "crashed"
       /\ down' = [c \in Clients |->
                     IF c = clnt_sock THEN (down[c] \o IF opened THEN Content ELSE << >>) \o Closing
                     ELSE IF c \in cut' THEN Append(down[c], "reset")
                     ELSE down[c]]
  /\ up' = [up EXCEPT ![clnt_sock] = Tail(@)]
  /\ clnt_sock' = Nobody
  /\ backlog' = << >>
  /\ UNCHANGED <<client, names, got>>

-------------------------------------------------------------------------------
(* Client c. *)

Ended == server \in {"down", "crashed"}

\* open_socket(), for the list or for the file.
Connect(c) ==
  /\ \/ /\ ~ Ended
        /\ backlog' = Append(backlog, c)
        /\ \/ client[c] = "start" /\ client' = [client EXCEPT ![c] = "greet"]
           \/ client[c] = "pick" /\ client' = [client EXCEPT ![c] = "ask"]
     \/ /\ Ended
        /\ client[c] \in {"start", "pick"}
        /\ client' = [client EXCEPT ![c] = "failed"]
        /\ UNCHANGED backlog
  /\ UNCHANGED <<server, cut, clnt_sock, up, down, names, got>>

\* The user says yes, or names a file, and the client writes it.  If the
\* connection has been reset by then the write() fails, which nobody notices,
\* and leaves an end of file for the next read().
Write(c) ==
  /\ \/ /\ client[c] = "greet"
        /\ up' = [up EXCEPT ![c] = <<"yes">>]
        /\ client' = [client EXCEPT ![c] = "list"]
     \/ /\ client[c] = "ask"
        /\ up' = [up EXCEPT ![c] = <<"file name">>]
        /\ client' = [client EXCEPT ![c] = "file"]
  /\ \/ UNCHANGED down
     \/ down[c] # << >> /\ down' = [down EXCEPT ![c] = <<"eof">>]
  /\ UNCHANGED <<server, cut, clnt_sock, backlog, names, got>>

\* Reads the list up to its end.  A read() that fails does not end the loop, but
\* the one after it returns 0.
ReadList(c) ==
  /\ client[c] = "list"
  /\ down[c] # << >>
  /\ down' = [down EXCEPT ![c] = Tail(@)]
  /\ IF Head(down[c]) = "name"
     THEN /\ names' = [names EXCEPT ![c] = @ + 1]
          /\ UNCHANGED <<client, up>>
     ELSE /\ client' = [client EXCEPT ![c] = "pick"]
          /\ up' = [up EXCEPT ![c] = << >>]
          /\ UNCHANGED names
  /\ UNCHANGED <<server, cut, clnt_sock, backlog, got>>

\* Reads the file up to its end.  A read() that fails makes the client write a
\* block of -1 bytes, which it does not survive.
ReadFile(c) ==
  /\ client[c] = "file"
  /\ down[c] # << >>
  /\ down' = [down EXCEPT ![c] = Tail(@)]
  /\ got' = [got EXCEPT ![c] = IF Head(down[c]) = "data" THEN @ + 1 ELSE @]
  /\ client' = [client EXCEPT ![c] = CASE Head(down[c]) = "data" -> @
                                       [] Head(down[c]) = "eof"  -> "saved"
                                       [] OTHER                  -> "failed"]
  /\ UNCHANGED <<server, cut, clnt_sock, backlog, up, names>>

-------------------------------------------------------------------------------
ServerStep == Accept \/ SendList \/ SendFile

ClientStep(c) == Connect(c) \/ Write(c) \/ ReadList(c) \/ ReadFile(c)

Next ==
  \/ ServerStep
  \/ \E c \in Clients : ClientStep(c)

Spec == Init /\ [][Next]_vars

\* The programs run and the users answer.
FairSpec ==
  /\ Spec
  /\ WF_vars(ServerStep)
  /\ \A c \in Clients : WF_vars(ClientStep(c))

-------------------------------------------------------------------------------
(* Properties *)

\* A client that says its file is saved has all of it or nothing, never a part,
\* and nothing only if the server could not open the file, or had ended before it
\* accepted the client's second connection: there the end of the connection
\* looks like the end of the file.
SavedIsWhole ==
  \A c \in Clients : client[c] = "saved" =>
    \/ got[c] = NChunks
    \/ got[c] = 0 /\ (server = "crashed" \/ c \in cut)

\* Nobody gets a block of the file without having seen the whole list, whoever
\* connects between a client's two connections: a client whose first
\* connection is taken for the second one of another gets nothing.
ListBeforeFile ==
  \A c \in Clients : got[c] > 0 \/ client[c] = "saved" => names[c] = NFiles

\* The programs of the server and of every client end, whoever takes whose
\* place in the queue.
AllEnd ==
  <>(/\ Ended
     /\ \A c \in Clients : client[c] \in {"saved", "failed"})

=============================================================================
