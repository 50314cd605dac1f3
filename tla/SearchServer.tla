---------------------------- MODULE SearchServer ----------------------------
(***************************************************************************)
(* practice/hw4: the search server, one thread per client, and the client, *)
(* whose user types a word key by key and sees, after each key, the words  *)
(* that contain it.                                                        *)
(*                                                                         *)
(* The threads share the address of clnt_sock, which is main()'s variable, *)
(* and, in trie.c, the result list, its length and the string to start     *)
(* again from; only the table of sockets has a lock.                       *)
(*                                                                         *)
(* An array of results is what has been stored in it so far; the rest is   *)
(* memory that malloc() has just got, which is zero.                       *)
(***************************************************************************)
EXTENDS SearchResults, FiniteSets, FiniteSetsExt

CONSTANTS
  Clients,    \* the client processes
  Nobody,     \* who is at the other end of a descriptor that is not open
  Dict,       \* the results for the words of the trie, in the order it keeps them
  Keys,       \* the letters users type
  MaxKeys     \* bound: how many keys the users type together

ASSUME SearchServerAssumption ==
  /\ IsFiniteSet(Clients)
  /\ Nobody \notin Clients
  /\ Dict \in Seq([word : Seq(Int), cnt : Int])
  /\ MaxKeys \in Nat

\* The k-th thread is created for the k-th connection.
Threads == 1 .. Cardinality(Clients)

serv_sock == 3

Fds == serv_sock + 1 .. serv_sock + Cardinality(Clients)

\* Enough arrays for each thread to have one and for one that is shared.
Arrays == 1 .. Cardinality(Clients) + 1

None  == 0                                \* no array
Unset == [word |-> << >>, cnt |-> 0]      \* an entry that nothing is stored in

\* What may have gone wrong before: a thread started after clnt_sock had
\* changed, a client was accepted on a descriptor that a thread still has, a user
\* typed on or left although an answer was due, two searches overlapped, an answer
\* was printed before the screen was cleared, a client left that was not in the
\* last entry of the table.
Mishaps == {"late", "reused", "hurried", "rude", "overlap", "wiped", "middle"}

VARIABLES
  main,        \* program counter of main()
  clnt_sock,   \* the descriptor accepted last
  created,     \* how many threads there are
  conn,        \* conn[f]: the client at the other end of f
  backlog,     \* clients that are not accepted yet, in the order of connecting
  clnt_socks,  \* the table of sockets
  clnt_cnt,    \* how many entries it has
  pc,          \* pc[t]: program counter of thread t
  sock,        \* sock[t]: its clnt_sock
  msg,         \* msg[t]: its msg
  at,          \* at[t]: how much of Dict its search has been through, if it is in one
  res,         \* res[t]: its result, an array
  result,      \* the array that searches store to
  result_cnt,  \* the number of results found
  str0,        \* the thread to whose msg searches return
  rslt_cnt,    \* trie->rslt_cnt
  heap,        \* heap[a]: what has been stored in array a
  killed,      \* the server process has been killed
  client,      \* client[c]: c's program counter
  word,        \* word[c]: its search_word
  keys,        \* how many keys the users have typed
  shown,       \* shown[c]: the results on its screen
  up,          \* up[c]: messages from c to the server
  down,        \* down[c]: answers from the server to c
  hung,        \* hung[c]: how c's end of its connection is
  clean,       \* history: clean[t], no other search has got into t's
  mishaps      \* history: which of the Mishaps have happened

mainVars   == <<main, clnt_sock, created, conn, backlog>>
tableVars  == <<clnt_socks, clnt_cnt>>
threadVars == <<pc, sock, msg, at, res>>
sharedVars == <<result, result_cnt, str0, rslt_cnt, heap>>
clientVars == <<client, word, keys, shown>>
netVars    == <<up, down, hung>>

vars == <<mainVars, tableVars, threadVars, sharedVars, killed, clientVars, netVars,
          clean, mishaps>>

Init ==
  /\ main       = "accept"
  /\ clnt_sock  = serv_sock
  /\ created    = 0
  /\ conn       = [f \in Fds |-> Nobody]
  /\ backlog    = SetToSeq(Clients)
  /\ clnt_socks = [i \in 0 .. Cardinality(Clients) |-> 0]
  /\ clnt_cnt   = 0
  /\ pc         = [t \in Threads |-> "unborn"]
  /\ sock       = [t \in Threads |-> serv_sock]
  /\ msg        = [t \in Threads |-> << >>]
  /\ at         = [t \in Threads |-> 0]
  /\ res        = [t \in Threads |-> None]
  /\ result     = None
  /\ result_cnt = 0
  /\ str0       = 0
  /\ rslt_cnt   = 0
  /\ heap       = [a \in Arrays |-> << >>]
  /\ killed     = FALSE
  /\ client     = [c \in Clients |-> "on"]
  /\ word       = [c \in Clients |-> << >>]
  /\ keys       = 0
  /\ shown      = [c \in Clients |-> << >>]
  /\ up         = [c \in Clients |-> << >>]
  /\ down       = [c \in Clients |-> << >>]
  /\ hung       = [c \in Clients |-> "open"]
  /\ clean      = [t \in Threads |-> TRUE]
  /\ mishaps    = {}

-------------------------------------------------------------------------------
(* main() *)

\* accept() returns into the variable of which threads have the address.
Accept ==
  /\ main = "accept"
  /\ backlog # << >>
  /\ clnt_sock' = Min({f \in Fds : conn[f] = Nobody})
  /\ conn' = [conn EXCEPT ![clnt_sock'] = Head(backlog)]
  /\ backlog' = Tail(backlog)
  /\ main' = "register"
  /\ mishaps' = mishaps \cup (IF \E t \in Threads : pc[t] = "born" THEN {"late"} ELSE {})
                        \cup (IF \E t \in Threads : sock[t] = clnt_sock' THEN {"reused"} ELSE {})
  /\ UNCHANGED <<created, tableVars, threadVars, sharedVars, killed, clientVars,
                 netVars, clean>>

\* The entry of the table, under mutx.
Register ==
  /\ main = "register"
  /\ clnt_socks' = [clnt_socks EXCEPT ![clnt_cnt] = clnt_sock]
  /\ clnt_cnt' = clnt_cnt + 1
  /\ main' = "create"
  /\ UNCHANGED <<clnt_sock, created, conn, backlog, threadVars, sharedVars, killed,
                 clientVars, netVars, clean, mishaps>>

Create ==
  /\ main = "create"
  /\ created' = created + 1
  /\ pc' = [pc EXCEPT ![created'] = "born"]
  /\ main' = "accept"
  /\ UNCHANGED <<clnt_sock, conn, backlog, tableVars, sock, msg, at, res, sharedVars,
                 killed, clientVars, netVars, clean, mishaps>>

-------------------------------------------------------------------------------
(* Thread t: handle_clnt. *)

\* The client that thread t serves.
Peer(t) == IF sock[t] \in Fds THEN conn[sock[t]] ELSE Nobody

\* clnt_sock = *((int*)arg), as it is now.
Start(t) ==
  /\ pc[t] = "born"
  /\ sock' = [sock EXCEPT ![t] = clnt_sock]
  /\ pc' = [pc EXCEPT ![t] = "read"]
  /\ UNCHANGED <<mainVars, tableVars, msg, at, res, sharedVars, killed, clientVars,
                 netVars, clean, mishaps>>

\* read() returns what has come in: one message or several in one.
ReadQuery(t) ==
  LET c == Peer(t) IN
  /\ pc[t] = "read"
  /\ c # Nobody
  /\ \E k \in 1 .. Len(up[c]) :
       /\ msg' = [msg EXCEPT ![t] = FlattenSeq(SubSeq(up[c], 1, k))]
       /\ up' = [up EXCEPT ![c] = SubSeq(@, k + 1, Len(@))]
  /\ pc' = [pc EXCEPT ![t] = "begin"]
  /\ UNCHANGED <<mainVars, tableVars, sock, at, res, sharedVars, killed, clientVars,
                 down, hung, clean, mishaps>>

\* Bug for a mutant run: the loop goes on.
AfterEndOfInput == "begin"

\* Where the thread goes when read() returns 0.
AfterEnd == "remove"

\* read() returns 0, or -1, which is not the end of the loop: the last message
\* is still in msg and is searched for once more.
ReadEnd(t) ==
  LET c == Peer(t) IN
  /\ pc[t] = "read"
  /\ \/ /\ c = Nobody
        /\ pc' = [pc EXCEPT ![t] = "begin"]
        /\ UNCHANGED hung
     \/ /\ c # Nobody
        /\ up[c] = << >>
        /\ hung[c] = "fin"
        /\ pc' = [pc EXCEPT ![t] = AfterEnd]
        /\ UNCHANGED hung
     \/ /\ c # Nobody
        /\ up[c] = << >>
        /\ hung[c] = "rst"
        /\ pc' = [pc EXCEPT ![t] = "begin"]
        /\ hung' = [hung EXCEPT ![c] = "broken"]
  /\ UNCHANGED <<mainVars, tableVars, sock, msg, at, res, sharedVars, killed, clientVars,
                 up, down, clean, mishaps>>

-------------------------------------------------------------------------------
(* Thread t: getStringsContainChar. *)

Searching(t) == pc[t] \in {"alloc", "fill", "find"}

\* The results are not sent yet.
Busy(t) == Searching(t) \/ pc[t] \in {"sort", "send"}

\* result_cnt = 0; str0 = str.
Begin(t) ==
  /\ pc[t] = "begin"
  /\ result_cnt' = 0
  /\ str0' = t
  /\ pc' = [pc EXCEPT ![t] = "alloc"]
  /\ clean' = [u \in Threads |-> IF u = t THEN ~ \E v \in Threads : Searching(v)
                                 ELSE clean[u] /\ ~ Busy(u)]
  /\ mishaps' = mishaps \cup (IF \E u \in Threads : Busy(u) THEN {"overlap"} ELSE {})
  /\ UNCHANGED <<mainVars, tableVars, sock, msg, at, res, result, rslt_cnt, heap, killed,
                 clientVars, netVars>>

\* result = malloc(): an array nobody has.  Arrays are never freed; one that
\* nobody can reach any more stands for a new one.
Alloc(t) ==
  /\ pc[t] = "alloc"
  /\ result' = Min(Arrays \ {res[u] : u \in Threads})
  /\ heap' = [heap EXCEPT ![result'] = << >>]
  /\ pc' = [pc EXCEPT ![t] = "fill"]
  /\ UNCHANGED <<mainVars, tableVars, sock, msg, at, res, result_cnt, str0, rslt_cnt, killed,
                 clientVars, netVars, clean, mishaps>>

\* The entries of result are allocated.
Fill(t) ==
  /\ pc[t] = "fill"
  /\ pc' = [pc EXCEPT ![t] = "find"]
  /\ UNCHANGED <<mainVars, tableVars, sock, msg, at, res, sharedVars, killed, clientVars,
                 netVars, clean, mishaps>>

\* The first n entries of an array.
Entries(arr, n) == [k \in 1 .. n |-> IF k <= Len(arr) THEN arr[k] ELSE Unset]

\* The words that thread t still has to find.  Once another search has changed
\* str0 it may find others and miss some.
Hits(t) == {k \in at[t] + 1 .. Len(Dict) : IsContain(msg[t], Dict[k].word)}

\* traverseAndFindChar comes to the next word to store.
Find(t) ==
  /\ pc[t] = "find"
  /\ \E k \in at[t] + 1 .. Len(Dict) :
       /\ str0 = t => Hits(t) # {} /\ k = Min(Hits(t))
       /\ heap' = [heap EXCEPT ![result] =
                     [Entries(@, Max({Len(@), result_cnt + 1})) EXCEPT ![result_cnt + 1] = Dict[k]]]
       /\ at' = [at EXCEPT ![t] = k]
  /\ result_cnt' = result_cnt + 1
  /\ UNCHANGED <<mainVars, tableVars, pc, sock, msg, res, result, str0, rslt_cnt, killed,
                 clientVars, netVars, clean, mishaps>>

\* It stores through an entry that another thread has still to allocate.
FindNowhere(t) ==
  /\ pc[t] = "find"
  /\ \E u \in Threads \ {t} : pc[u] = "fill"
  /\ killed' = TRUE
  /\ UNCHANGED <<mainVars, tableVars, threadVars, sharedVars, clientVars, netVars, clean,
                 mishaps>>

\* The search is over: trie->rslt_cnt = result_cnt; return result.
End(t) ==
  /\ pc[t] = "find"
  /\ str0 = t => Hits(t) = {}
  /\ rslt_cnt' = result_cnt
  /\ res' = [res EXCEPT ![t] = result]
  /\ at' = [at EXCEPT ![t] = 0]
  /\ pc' = [pc EXCEPT ![t] = "sort"]
  /\ UNCHANGED <<mainVars, tableVars, sock, msg, result, result_cnt, str0, heap, killed,
                 clientVars, netVars, clean, mishaps>>

-------------------------------------------------------------------------------
(* Thread t: the answer, and the end. *)

\* Bug for a mutant run: the last result is not sorted.
SortedFewer == IF rslt_cnt > 0 THEN rslt_cnt - 1 ELSE 0

\* How many results are sorted: those that were found last, by any thread.
Sorted == rslt_cnt

Sort(t) ==
  /\ pc[t] = "sort"
  /\ heap' = [heap EXCEPT ![res[t]] = BubbleSort(Entries(@, Max({Len(@), Sorted})), Sorted)]
  /\ pc' = [pc EXCEPT ![t] = "send"]
  /\ UNCHANGED <<mainVars, tableVars, sock, msg, at, res, result, result_cnt, str0, rslt_cnt,
                 killed, clientVars, netVars, clean, mishaps>>

\* Bug for a mutant run: the thread serves one message.
AfterAnswerEnd == "remove"

\* Where the thread goes after it has answered.
AfterAnswer == "read"

\* send_msg, with trie->rslt_cnt as it is now.  A client that is gone swallows
\* what is written or has the server killed by SIGPIPE; once its reset has been
\* seen it is the latter.
Send(t) ==
  LET c == Peer(t)
      list == TopList(Entries(heap[res[t]], Max({Len(heap[res[t]]), rslt_cnt})), rslt_cnt)
  IN
  /\ pc[t] = "send"
  /\ \/ /\ c # Nobody
        /\ hung[c] = "open"
        /\ down' = [down EXCEPT ![c] = Append(@, [msg |-> msg[t], list |-> list,
                                                       clean |-> clean[t]])]
        /\ UNCHANGED killed
     \/ /\ ~ (c \in Clients /\ hung[c] \in {"open", "broken"})
        /\ UNCHANGED <<down, killed>>
     \/ /\ c # Nobody
        /\ hung[c] # "open"
        /\ killed' = TRUE
        /\ UNCHANGED down
  /\ res' = [res EXCEPT ![t] = None]
  /\ pc' = [pc EXCEPT ![t] = AfterAnswer]
  /\ clean' = [clean EXCEPT ![t] = TRUE]
  /\ UNCHANGED <<mainVars, tableVars, sock, msg, at, sharedVars, clientVars, up, hung, mishaps>>

\* The entries that hold thread t's socket.
Found(t) == {i \in 0 .. clnt_cnt - 1 : clnt_socks[i] = sock[t]}

\* Bug for a mutant run: the counter is lowered if the socket is found.
CountAfterFound(t) == IF Found(t) = {} THEN clnt_cnt ELSE clnt_cnt - 1

\* The number of entries after the removal.
CountAfter(t) == clnt_cnt - 1

\* The removal from the table, under mutx: i is raised before it is used, so
\* that the entry itself stays and those after it are overwritten.
RemoveSock(t) ==
  /\ pc[t] = "remove"
  /\ clnt_socks' = [i \in DOMAIN clnt_socks |->
                      IF Found(t) # {} /\ i \in Min(Found(t)) + 1 .. clnt_cnt - 1
                        THEN clnt_socks[i + 1] ELSE clnt_socks[i]]
  /\ clnt_cnt' = CountAfter(t)
  /\ mishaps' = mishaps \cup (IF clnt_cnt - 1 \in Found(t) THEN {} ELSE {"middle"})
  /\ pc' = [pc EXCEPT ![t] = "close"]
  /\ UNCHANGED <<mainVars, sock, msg, at, res, sharedVars, killed, clientVars, netVars, clean>>

Close(t) ==
  /\ pc[t] = "close"
  /\ conn' = IF sock[t] \in Fds THEN [conn EXCEPT ![sock[t]] = Nobody] ELSE conn
  /\ pc' = [pc EXCEPT ![t] = "end"]
  /\ sock' = [sock EXCEPT ![t] = serv_sock]
  /\ msg' = [msg EXCEPT ![t] = << >>]
  /\ UNCHANGED <<main, clnt_sock, created, backlog, tableVars, at, res, sharedVars,
                 killed, clientVars, netVars, clean, mishaps>>

-------------------------------------------------------------------------------
(* Client c.  All have connected at the beginning: one that connects later is *)
(* one that is accepted later. *)

\* Nothing that c has sent is unanswered or unread.
Quiet(c) ==
  /\ up[c] = << >>
  /\ down[c] = << >>
  /\ \A t \in Threads : Peer(t) = c => pc[t] # "begin" /\ ~ Busy(t)

\* The user types a letter or takes one back, and the whole word is sent, if
\* there is any of it.
Type(c) ==
  /\ client[c] = "on"
  /\ keys < MaxKeys
  /\ keys' = keys + 1
  /\ \/ \E x \in Keys : word' = [word EXCEPT ![c] = Append(@, x)]
     \/ word[c] # << >> /\ word' = [word EXCEPT ![c] = Front(@)]
  /\ up' = IF word'[c] = << >> THEN up ELSE [up EXCEPT ![c] = Append(@, word'[c])]
  /\ client' = [client EXCEPT ![c] = "typed"]
  /\ mishaps' = mishaps \cup (IF Quiet(c) THEN {} ELSE {"hurried"})
  /\ UNCHANGED <<mainVars, tableVars, threadVars, sharedVars, killed, shown, down, hung, clean>>

\* Bug for a mutant run: the screen is not cleared.
BlankNothing(c) == shown[c]

\* The lines of results that clrscr() leaves on the screen.
Blank(c) == << >>

\* clrscr() after the write().
Clear(c) ==
  /\ client[c] = "typed"
  /\ shown' = [shown EXCEPT ![c] = Blank(c)]
  /\ client' = [client EXCEPT ![c] = "on"]
  /\ UNCHANGED <<mainVars, tableVars, threadVars, sharedVars, killed, word, keys, netVars, clean,
                 mishaps>>

\* The receiving thread reads an answer and prints it, line over line: what was
\* on the lines below it stays.
ReadAnswer(c) ==
  /\ client[c] \in {"on", "typed"}
  /\ down[c] # << >>
  /\ shown' = [shown EXCEPT ![c] = LET list == Head(down[c]).list IN
                                    list \o SubSeq(@, Len(list) + 1, Len(@))]
  /\ down' = [down EXCEPT ![c] = Tail(@)]
  /\ mishaps' = mishaps \cup (IF client[c] = "typed" THEN {"wiped"} ELSE {})
  /\ UNCHANGED <<mainVars, tableVars, threadVars, sharedVars, killed, client, word, keys, up,
                 hung, clean>>

\* The user ends the program.  If something was unread the connection is reset
\* and what is on its way may be lost.
Quit(c) ==
  /\ client[c] \in {"on", "typed"}
  /\ client' = [client EXCEPT ![c] = "gone"]
  /\ hung' = [hung EXCEPT ![c] = IF down[c] = << >> THEN "fin" ELSE "rst"]
  /\ down' = [down EXCEPT ![c] = << >>]
  /\ up' \in {up} \cup (IF down[c] = << >> THEN {} ELSE {[up EXCEPT ![c] = << >>]})
  /\ mishaps' = mishaps \cup (IF Quiet(c) THEN {} ELSE {"rude"})
  /\ word' = [word EXCEPT ![c] = << >>]
  /\ shown' = [shown EXCEPT ![c] = << >>]
  /\ UNCHANGED <<mainVars, tableVars, threadVars, sharedVars, killed, keys, clean>>

-------------------------------------------------------------------------------
MainThread == ~ killed /\ (Accept \/ Register \/ Create)

ClientThread(t) ==
  /\ ~ killed
  /\ \/ Start(t) \/ ReadQuery(t) \/ ReadEnd(t)
     \/ Begin(t) \/ Alloc(t) \/ Fill(t) \/ Find(t) \/ FindNowhere(t) \/ End(t)
     \/ Sort(t) \/ Send(t) \/ RemoveSock(t) \/ Close(t)

\* The threads of the client program.  What it does once the server is gone,
\* which is to print its last answer over and over, is left out.
ClientProgram(c) == ~ killed /\ (Clear(c) \/ ReadAnswer(c))

User(c) == ~ killed /\ (Type(c) \/ Quit(c))

ProgramStep ==
  \/ MainThread
  \/ \E c \in Clients : ClientProgram(c)
  \/ \E t \in Threads : ClientThread(t)

Next == ProgramStep \/ \E c \in Clients : User(c)

Spec == Init /\ [][Next]_vars

\* Some thread that can go on does; users do as they like.
FairSpec == Spec /\ WF_vars(ProgramStep)

-------------------------------------------------------------------------------
(* Properties *)

\* The words that contain message m, as places in the dictionary.
Matching(m) == {k \in DOMAIN Dict : IsContain(m, Dict[k].word)}

\* Word j comes before word k in an answer.
Better(j, k) == \/ Dict[j].cnt > Dict[k].cnt
                \/ Dict[j].cnt = Dict[k].cnt /\ j < k

\* The place of word k in an answer to m.
Rank(m, k) == Cardinality({j \in Matching(m) : Better(j, k)}) + 1

\* What is to be sent for message m: of the words that contain it the first
\* MaxLines, the greatest count first and equal counts in the dictionary's order.
RightAnswer(m) ==
  [n \in 1 .. Min({MaxLines, Cardinality(Matching(m))}) |->
     Dict[CHOOSE k \in Matching(m) : Rank(m, k) = n]]

\* An answer is right for the message it is sent for, if no other thread began
\* or was in a search between the beginning of this one and the answer: threads
\* that sort and send do no harm, although they share the counters and the list.
AnswersAreRight ==
  \A c \in Clients : \A k \in 1 .. Len(down[c]) :
    down[c][k].clean => down[c][k].list = RightAnswer(down[c][k].msg)

\* Only a client that leaves while it is owed an answer, two searches at once, or
\* a client that gets the descriptor of a thread that serves another can kill the
\* server: clients that leave otherwise, and threads that share a connection that
\* lasts, cannot.
ServerSurvives == killed => mishaps \cap {"rude", "overlap", "reused"} # {}

\* The threads whose client is registered.
Registered == {t \in Threads : pc[t] \notin {"unborn", "close", "end"}}

\* The table has as many entries as there are clients to serve, so that its
\* limit is that of the clients at one time; and its entries are the sockets
\* that are served as long as threads start in time and clients leave in the
\* reverse order of their coming.
TableIsRight ==
  /\ clnt_cnt = Cardinality(Registered) + (IF main = "create" THEN 1 ELSE 0)
  /\ main = "accept" /\ mishaps \cap {"late", "middle"} = {}
        /\ (\A t \in Threads : pc[t] # "born") =>
       {clnt_socks[i] : i \in 0 .. clnt_cnt - 1} = {sock[t] : t \in Registered}

\* A user who has waited for each answer sees that to what is typed, and no more:
\* unless a thread started late, two searches overlapped or an answer came before
\* the screen was cleared.
ShownIsCurrent ==
  mishaps \cap {"late", "hurried", "overlap", "wiped"} = {} /\ ~ killed =>
    \A c \in Clients :
      client[c] = "on" /\ word[c] # << >> /\ Quiet(c) => shown[c] = RightAnswer(word[c])

\* What a user types is answered in the end, unless a thread has started late or
\* the server is killed: searches at once may spoil an answer, but not lose it.
AllAnswered ==
  []("late" \notin mishaps /\ ~ killed) =>
    \A c \in Clients : client[c] = "typed" ~> client[c] = "gone" \/ Quiet(c)

=============================================================================
