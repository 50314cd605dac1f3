-------------------------- MODULE SearchServer_proofs --------------------------
(***************************************************************************)
(* What TLAPS proves about SearchServer, for any number of clients, any    *)
(* dictionary and any number of keys: what can kill the server, what the   *)
(* table of sockets holds, that bubbleSort sorts, which answers are right  *)
(* and what users see.                                                     *)
(***************************************************************************)
EXTENDS SearchServer, FiniteSetTheorems, WellFoundedInduction, TLAPS

N == Cardinality(Clients)

Counters == {"unborn", "born", "read", "begin", "alloc", "fill", "find", "sort", "send",
             "remove", "close", "end"}

\* A client is accepted whose thread is not created yet.
Pending == IF main = "accept" THEN 0 ELSE 1

\* Threads are created one after the other, and have a descriptor from their start
\* to their end.
Types ==
  /\ main \in {"accept", "register", "create"}
  /\ created \in 0 .. N
  /\ backlog \in Seq(Clients)
  /\ created + Len(backlog) + Pending = N
  /\ created + Pending > 0 => clnt_sock \in Fds
  /\ conn \in [Fds -> Clients \cup {Nobody}]
  /\ clnt_socks \in [0 .. N -> Int]
  /\ pc \in [Threads -> Counters]
  /\ \A t \in Threads : pc[t] = "unborn" <=> t > created
  /\ sock \in [Threads -> Fds \cup {serv_sock}]
  /\ \A t \in Threads : pc[t] \in {"unborn", "born", "end"} <=> sock[t] = serv_sock

Ends ==
  /\ DOMAIN up = Clients
  /\ DOMAIN client = Clients
  /\ hung \in [Clients -> {"open", "fin", "rst", "broken"}]

\* A thread that has a message to answer.
Answering(t) == pc[t] = "begin" \/ Busy(t)

\* Without the mishaps that are bad for it the server only writes to clients that are
\* there, and only one thread is in a search.
Surviving ==
  /\ mishaps \cap {"rude", "reused"} = {} =>
       /\ \A c \in Clients : hung[c] # "open" =>
            hung[c] = "fin" /\ up[c] = << >> /\ client[c] = "gone"
       /\ \A t \in Threads : Answering(t) /\ Peer(t) # Nobody => hung[Peer(t)] = "open"
  /\ "overlap" \notin mishaps => \A t, u \in Threads : Busy(t) /\ Busy(u) => t = u

\* There is a descriptor for every client.
Roomy == Cardinality({f \in Fds : conn[f] # Nobody}) + Len(backlog) <= N

Counted == clnt_cnt = Cardinality(Registered) + (IF main = "create" THEN 1 ELSE 0)

\* A client has been accepted whose thread has not started.
Waiting == main # "accept" \/ \E t \in Threads : pc[t] = "born"

\* When threads start in time each has an open descriptor of its own.
Prompt ==
  "late" \notin mishaps =>
    /\ main # "accept" => \A t \in Threads : pc[t] # "born"
    /\ \A t, u \in Threads : pc[t] = "born" /\ pc[u] = "born" => t = u
    /\ Waiting => conn[clnt_sock] # Nobody /\ \A t \in Threads : sock[t] # clnt_sock
    /\ \A t \in Threads : sock[t] \in Fds => conn[sock[t]] # Nobody
    /\ \A t, u \in Threads : sock[t] \in Fds /\ sock[t] = sock[u] => t = u
    /\ "reused" \notin mishaps

\* The threads that have started and whose client is registered.
Serving == {t \in Threads : pc[t] \notin {"unborn", "born", "close", "end"}}

\* The entry for the client whose thread has not started.
Entry == IF main = "create" \/ \E t \in Threads : pc[t] = "born" THEN {clnt_sock} ELSE {}

\* When also clients leave in the reverse order of their coming the table holds each
\* socket that is served once.
Listed ==
  mishaps \cap {"late", "middle"} = {} =>
    /\ \A i, j \in 0 .. clnt_cnt - 1 : clnt_socks[i] = clnt_socks[j] => i = j
    /\ {clnt_socks[i] : i \in 0 .. clnt_cnt - 1} = {sock[t] : t \in Serving} \cup Entry

Inv ==
  /\ Types /\ Ends /\ Surviving /\ Roomy /\ Counted /\ Prompt /\ Listed
  /\ ServerSurvives

-------------------------------------------------------------------------------
(* Numbers. *)

LEMMA NIs ==
  /\ N \in Nat
  /\ Threads = 1 .. N /\ Fds = 4 .. 3 + N
  /\ IsFiniteSet(Fds) /\ Cardinality(Fds) = N /\ IsFiniteSet(Threads)
<1>1. N \in Nat
  BY SearchServerAssumption, FS_CardinalityType DEF N
<1>2. Threads = 1 .. N /\ Fds = 4 .. 3 + N
  BY <1>1 DEF N, Threads, Fds, serv_sock
<1>3. IsFiniteSet(1 .. N) /\ IsFiniteSet(4 .. 3 + N) /\ Cardinality(4 .. 3 + N) = N
  <2>1. PICK m \in Int : m = 3 + N
    BY <1>1
  <2>2. IsFiniteSet(4 .. m) /\ Cardinality(4 .. m) = IF 4 > m THEN 0 ELSE (m - 4) + 1
    BY FS_Interval
  <2>3. (IF 4 > m THEN 0 ELSE (m - 4) + 1) = N
    BY <1>1, <2>1
  <2>4. IsFiniteSet(1 .. N)
    BY <1>1, FS_Interval
  <2> QED
    BY <2>1, <2>2, <2>3, <2>4
<1> QED
  BY <1>1, <1>2, <1>3

\* A set of natural numbers that is not empty has a least one.
LEMMA LessIs ==
  \E R : IsWellFoundedOn(R, Nat) /\ \A a, b \in Nat : <<a, b>> \in R <=> a < b
<1>1. IsWellFoundedOn(OpToRel(<, Nat), Nat)
  BY NatLessThanWellFounded, Zenon
<1>2. \A a, b \in Nat : <<a, b>> \in OpToRel(<, Nat) <=> a < b
  BY Zenon DEF OpToRel
<1> QED
  BY <1>1, <1>2, Zenon

LEMMA MinIs ==
  ASSUME NEW S \in SUBSET Nat, S # {}
  PROVE  Min(S) \in S /\ \A y \in S : Min(S) <= y
<1>1. PICK R : IsWellFoundedOn(R, Nat) /\ \A a, b \in Nat : <<a, b>> \in R <=> a < b
  BY LessIs
<1>2. IsWellFoundedOn(R, Nat) /\ S \subseteq Nat /\ S # {}
  BY <1>1
<1>3. PICK x \in S : \A y \in S : ~ (<<y, x>> \in R)
  BY <1>2, WFMin
<1>4. ASSUME NEW y \in S PROVE x <= y
  <2>1. x \in Nat /\ y \in Nat /\ <<y, x>> \notin R
    BY <1>3
  <2>2. ~ (y < x)
    BY <1>1, <2>1
  <2> QED
    BY <2>1, <2>2
<1> QED
  BY <1>4 DEF Min

\* The clients in the order of connecting.
LEMMA BacklogIs ==
  SetToSeq(Clients) \in Seq(Clients) /\ Len(SetToSeq(Clients)) = N
<1>1. PICK f : f \in Bijection(1 .. N, Clients)
  BY SearchServerAssumption, FS_CardinalityType DEF N, ExistsBijection
<1>2. f \in [1 .. N -> Clients] /\ IsInjective(f)
  BY <1>1 DEF Bijection, Injection, IsInjective
<1>3. SetToSeq(Clients) \in [1 .. N -> Clients]
  BY <1>2 DEF SetToSeq, N
<1>4. N \in Nat
  BY NIs
<1>5. PICK g \in [1 .. N -> Clients] : g = SetToSeq(Clients)
  BY <1>3
<1>6. g \in Seq(Clients) /\ Len(g) = N
  BY <1>4
<1> QED
  BY <1>5, <1>6

-------------------------------------------------------------------------------
(* The kinds of steps. *)

\* Where a thread is from its start to its end, but for the last step.
Within == {"read", "begin", "alloc", "fill", "find", "sort", "send", "remove"}

\* The mishaps that have nothing to do with the table.
Others == {"overlap", "hurried", "rude", "wiped"}

\* A step of a thread that serves its client.
Inner(t) ==
  /\ pc[t] \in Within
  /\ \E x \in Within : pc' = [pc EXCEPT ![t] = x]
  /\ UNCHANGED <<mainVars, tableVars, sock>>
  /\ mishaps \subseteq mishaps' /\ mishaps' \subseteq mishaps \cup Others

\* A step of a client, or none.
Outer ==
  /\ UNCHANGED <<mainVars, tableVars, pc, sock>>
  /\ mishaps \subseteq mishaps' /\ mishaps' \subseteq mishaps \cup Others

LEMMA Kinds ==
  ASSUME Types, [Next]_vars
  PROVE  \/ Accept \/ Register \/ Create \/ Outer
         \/ \E t \in Threads : Start(t) \/ RemoveSock(t) \/ Close(t) \/ Inner(t)
<1>1. CASE MainThread
  BY <1>1 DEF MainThread
<1>2. ASSUME NEW t \in Threads, ClientThread(t)
      PROVE  Start(t) \/ RemoveSock(t) \/ Close(t) \/ Inner(t)
  <2>p. pc = [pc EXCEPT ![t] = pc[t]]
    BY DEF Types
  <2>1. CASE ReadQuery(t)
    BY <2>1 DEF ReadQuery, Inner, Within
  <2>2. CASE ReadEnd(t)
    BY <2>2 DEF ReadEnd, AfterEnd, Inner, Within
  <2>3. CASE Begin(t)
    BY <2>3 DEF Begin, Inner, Within, Others
  <2>4. CASE Alloc(t)
    BY <2>4 DEF Alloc, Inner, Within
  <2>5. CASE Fill(t)
    BY <2>5 DEF Fill, Inner, Within
  <2>6. CASE Find(t)
    BY <2>6, <2>p DEF Find, Inner, Within
  <2>7. CASE FindNowhere(t)
    BY <2>7, <2>p DEF FindNowhere, Inner, Within, threadVars
  <2>8. CASE End(t)
    BY <2>8 DEF End, Inner, Within
  <2>9. CASE Sort(t)
    BY <2>9 DEF Sort, Inner, Within
  <2>10. CASE Send(t)
    BY <2>10 DEF Send, AfterAnswer, Inner, Within
  <2> QED
    BY <1>2, <2>1, <2>2, <2>3, <2>4, <2>5, <2>6, <2>7, <2>8, <2>9, <2>10 DEF ClientThread
<1>3. ASSUME NEW c \in Clients, ClientProgram(c) \/ User(c) PROVE Outer
  BY <1>3 DEF ClientProgram, User, Clear, ReadAnswer, Type, Quit, Outer, Others, threadVars
<1>4. CASE UNCHANGED vars
  BY <1>4 DEF vars, Outer, threadVars
<1> QED
  BY <1>1, <1>2, <1>3, <1>4 DEF Next, ProgramStep

\* The descriptor that accept() returns is one that is free.
LEMMA AcceptIs ==
  ASSUME Types, Roomy, Accept
  PROVE  /\ clnt_sock' \in Fds /\ conn[clnt_sock'] = Nobody
         /\ Head(backlog) \in Clients /\ Len(backlog') = Len(backlog) - 1
         /\ backlog' \in Seq(Clients) /\ Len(backlog) \in Nat /\ Len(backlog) >= 1
<1>1. backlog \in Seq(Clients) /\ backlog # << >> /\ backlog' = Tail(backlog)
  BY DEF Accept, Types
<1>2. /\ Head(backlog) \in Clients /\ Len(backlog') = Len(backlog) - 1
      /\ backlog' \in Seq(Clients) /\ Len(backlog) \in Nat /\ Len(backlog) >= 1
  BY <1>1
<1> DEFINE F == {f \in Fds : conn[f] # Nobody}
<1>3. F # Fds
  <2>1. Cardinality(F) + Len(backlog) <= N
    BY DEF Roomy
  <2>2. Cardinality(F) \in Nat
    BY NIs, FS_Subset, FS_CardinalityType
  <2>3. Cardinality(F) < N
    BY <1>2, <2>1, <2>2, NIs
  <2> HIDE DEF F
  <2> QED
    BY <2>2, <2>3, NIs
<1>4. {f \in Fds : conn[f] = Nobody} \in SUBSET Nat /\ {f \in Fds : conn[f] = Nobody} # {}
  BY <1>3, NIs
<1>5. clnt_sock' \in {f \in Fds : conn[f] = Nobody}
  BY <1>4, MinIs DEF Accept
<1> QED
  BY <1>2, <1>5

\* The table has an entry for each client that is accepted, at most.
LEMMA CountBound ==
  ASSUME Types, Counted
  PROVE  /\ Registered \in SUBSET Threads /\ IsFiniteSet(Registered)
         /\ Cardinality(Registered) \in Nat
         /\ clnt_cnt \in Nat /\ clnt_cnt <= N
         /\ main = "register" => clnt_cnt < N
         /\ main = "create" => clnt_cnt >= 1
         /\ Registered # {} => clnt_cnt >= 1
<1>1. Registered \subseteq Threads /\ Registered \subseteq 1 .. created
  BY NIs DEF Registered, Types
<1>2. created \in Nat /\ Len(backlog) \in Nat /\ N \in Nat
  BY NIs DEF Types
<1>3. IsFiniteSet(1 .. created) /\ Cardinality(1 .. created) = created
  BY <1>2, FS_Interval
<1>4. /\ IsFiniteSet(Registered) /\ Cardinality(Registered) \in Nat
      /\ Cardinality(Registered) <= created
  BY <1>1, <1>3, FS_Subset, FS_CardinalityType
<1>5. PICK k \in Nat : k = Cardinality(Registered) /\ k <= created
  BY <1>4
<1>6. Registered # {} => k # 0
  BY <1>4, <1>5, FS_EmptySet
<1>7. clnt_cnt = k + (IF main = "create" THEN 1 ELSE 0)
  BY <1>5 DEF Counted
<1>8. created + Pending <= N
  <2>1. created + Len(backlog) + Pending = N
    BY DEF Types
  <2>2. Pending \in Nat
    BY DEF Pending
  <2> QED
    BY <1>2, <2>1, <2>2
<1>9. main \in {"register", "create"} => created < N
  BY <1>2, <1>8 DEF Pending
<1>10. /\ clnt_cnt \in Nat /\ clnt_cnt <= N
       /\ main = "register" => clnt_cnt < N
       /\ main = "create" => clnt_cnt >= 1
       /\ Registered # {} => clnt_cnt >= 1
  <2>1. CASE main = "create"
    BY <2>1, <1>2, <1>5, <1>7, <1>9
  <2>2. CASE main # "create"
    <3>1. clnt_cnt = k
      BY <2>2, <1>5, <1>7
    <3>2. created <= N
      BY DEF Types
    <3> QED
      BY <2>2, <3>1, <3>2, <1>2, <1>5, <1>6, <1>9
  <2> QED
    BY <2>1, <2>2
<1> QED
  BY <1>1, <1>4, <1>10

LEMMA TypesNext ==
  ASSUME Types, Roomy, Counted, [Next]_vars
  PROVE  Types'
<1>n. N \in Nat /\ Threads = 1 .. N /\ serv_sock = 3 /\ serv_sock \notin Fds /\ created \in Nat
  BY NIs DEF serv_sock, Types
<1>1. CASE Accept
  <2>1. created' = created /\ Pending = 0 /\ Pending' = 1 /\ main' = "register"
    BY <1>1 DEF Accept, Pending
  <2>2. created' + Len(backlog') + Pending' = N
    <3>1. created + Len(backlog) + 0 = N
      BY <2>1 DEF Types
    <3> QED
      BY <1>1, <1>n, <2>1, <3>1, AcceptIs
  <2>3. conn' \in [Fds -> Clients \cup {Nobody}]
    BY <1>1, AcceptIs DEF Accept, Types
  <2> QED
    BY <1>1, <2>1, <2>2, <2>3, AcceptIs DEF Accept, Types, tableVars, threadVars
<1>2. CASE Register
  <2>1. clnt_socks' \in [0 .. N -> Int]
    <3>1. clnt_sock \in Int
      <4>1. clnt_sock \in Fds
        BY <1>2, <1>n DEF Register, Types, Pending
      <4> QED
        BY <4>1, NIs
    <3> QED
      BY <1>2, <3>1 DEF Register, Types
  <2>2. Pending' = Pending
    BY <1>2 DEF Register, Pending
  <2> QED
    BY <1>2, <2>1, <2>2 DEF Register, Types, threadVars
<1>3. CASE Create
  <2>1. created' = created + 1 /\ Pending = 1 /\ Pending' = 0 /\ main' = "accept"
        /\ backlog' = backlog /\ clnt_sock' = clnt_sock /\ clnt_sock \in Fds
    BY <1>3, <1>n DEF Create, Pending, Types
  <2>2. Len(backlog) \in Nat /\ created + Len(backlog) + 1 = N
    <3>1. created + Len(backlog) + 1 = N
      BY <2>1 DEF Types
    <3> QED
      BY <3>1 DEF Types
  <2>3. created' + Len(backlog') + Pending' = N /\ created' \in 0 .. N /\ created' \in Threads
    BY <1>n, <2>1, <2>2
  <2>4. pc' = [pc EXCEPT ![created'] = "born"] /\ sock' = sock
    BY <1>3 DEF Create
  <2>5. pc' \in [Threads -> Counters]
    BY <2>4 DEF Types, Counters
  <2>6. pc[created'] = "unborn"
    BY <1>n, <2>1, <2>3 DEF Types
  <2>7. \A t \in Threads : pc'[t] = "unborn" <=> t > created'
    BY <1>n, <2>1, <2>3, <2>4 DEF Types
  <2>8. \A t \in Threads : pc'[t] \in {"unborn", "born", "end"} <=> sock'[t] = serv_sock
    BY <2>3, <2>4, <2>6 DEF Types
  <2> QED
    BY <1>3, <2>1, <2>3, <2>4, <2>5, <2>7, <2>8 DEF Create, Types, tableVars
<1>4. ASSUME NEW t \in Threads, Start(t) PROVE Types'
  <2>1. clnt_sock \in Fds
    <3>1. t <= created
      BY <1>4, <1>n DEF Start, Types
    <3>2. Pending \in {0, 1}
      BY DEF Pending
    <3>3. created + Pending > 0
      BY <1>n, <3>1, <3>2
    <3> QED
      BY <3>3 DEF Types
  <2>2. UNCHANGED <<main, created, backlog, clnt_sock, conn, clnt_socks>> /\ Pending' = Pending
    BY <1>4 DEF Start, mainVars, tableVars, Pending
  <2>3. pc' \in [Threads -> Counters] /\ sock' \in [Threads -> Fds \cup {serv_sock}]
    BY <1>4, <2>1 DEF Start, Types, Counters
  <2>4. \A u \in Threads : pc'[u] = "unborn" <=> u > created
    BY <1>4 DEF Start, Types
  <2>5. \A u \in Threads : pc'[u] \in {"unborn", "born", "end"} <=> sock'[u] = serv_sock
    BY <1>4, <1>n, <2>1 DEF Start, Types
  <2> QED
    BY <2>2, <2>3, <2>4, <2>5 DEF Types
<1>5. ASSUME NEW t \in Threads, RemoveSock(t) PROVE Types'
  <2>1. UNCHANGED <<main, created, backlog, clnt_sock, conn, sock>> /\ Pending' = Pending
    BY <1>5 DEF RemoveSock, mainVars, Pending
  <2>2. pc' \in [Threads -> Counters] /\ \A u \in Threads : pc'[u] = "unborn" <=> u > created
    BY <1>5 DEF RemoveSock, Types, Counters
  <2>3. \A u \in Threads : pc'[u] \in {"unborn", "born", "end"} <=> sock[u] = serv_sock
    BY <1>5 DEF RemoveSock, Types
  <2>4. clnt_socks' \in [0 .. N -> Int]
    <3>1. clnt_cnt <= N /\ clnt_cnt \in Nat
      BY CountBound
    <3>2. \A i \in 0 .. N : i \in Min(Found(t)) + 1 .. clnt_cnt - 1 => i + 1 \in 0 .. N
      BY <1>n, <3>1
    <3>3. DOMAIN clnt_socks = 0 .. N /\ \A i \in 0 .. N : clnt_socks[i] \in Int
      BY DEF Types
    <3> QED
      BY <1>5, <3>2, <3>3 DEF RemoveSock
  <2> QED
    BY <2>1, <2>2, <2>3, <2>4 DEF Types
<1>6. ASSUME NEW t \in Threads, Close(t) PROVE Types'
  <2>1. UNCHANGED <<main, created, backlog, clnt_sock, clnt_socks>> /\ Pending' = Pending
    BY <1>6 DEF Close, tableVars, Pending
  <2>2. pc' \in [Threads -> Counters] /\ \A u \in Threads : pc'[u] = "unborn" <=> u > created
    BY <1>6 DEF Close, Types, Counters
  <2>3. sock' \in [Threads -> Fds \cup {serv_sock}]
        /\ \A u \in Threads : pc'[u] \in {"unborn", "born", "end"} <=> sock'[u] = serv_sock
    BY <1>6 DEF Close, Types
  <2>4. conn' \in [Fds -> Clients \cup {Nobody}]
    BY <1>6 DEF Close, Types
  <2> QED
    BY <2>1, <2>2, <2>3, <2>4 DEF Types
<1>7. ASSUME NEW t \in Threads, Inner(t) PROVE Types'
  <2>1. UNCHANGED <<main, created, backlog, clnt_sock, conn, clnt_socks, sock>> /\ Pending' = Pending
    BY <1>7 DEF Inner, mainVars, tableVars, Pending
  <2>2. PICK x \in Within : pc' = [pc EXCEPT ![t] = x]
    BY <1>7 DEF Inner
  <2>3. pc' \in [Threads -> Counters] /\ \A u \in Threads : pc'[u] = "unborn" <=> u > created
    BY <1>7, <2>2 DEF Inner, Within, Types, Counters
  <2>4. \A u \in Threads : pc'[u] \in {"unborn", "born", "end"} <=> sock[u] = serv_sock
    BY <1>7, <2>2 DEF Inner, Within, Types
  <2> QED
    BY <2>1, <2>3, <2>4 DEF Types
<1>8. CASE Outer
  BY <1>8 DEF Outer, mainVars, tableVars, Types, Pending
<1> QED
  BY <1>1, <1>2, <1>3, <1>4, <1>5, <1>6, <1>7, <1>8, Kinds

\* Reading, writing, leaving: what is at the clients' ends stays what it is.
LEMMA EndsNext ==
  ASSUME Ends, [Next]_vars
  PROVE  Ends'
<1>1. CASE MainThread
  BY <1>1 DEF MainThread, Accept, Register, Create, clientVars, netVars, Ends
<1>2. ASSUME NEW t \in Threads, ClientThread(t) PROVE Ends'
  <2>1. CASE ReadQuery(t)
    BY <2>1 DEF ReadQuery, clientVars, Ends
  <2>2. CASE ReadEnd(t)
    BY <2>2 DEF ReadEnd, clientVars, Ends
  <2>3. CASE Send(t)
    BY <2>3 DEF Send, clientVars, Ends
  <2>4. CASE Start(t) \/ RemoveSock(t) \/ Close(t)
    BY <2>4 DEF Start, RemoveSock, Close, clientVars, netVars, Ends
  <2>5. CASE Begin(t) \/ Alloc(t) \/ Fill(t) \/ End(t)
    BY <2>5 DEF Begin, Alloc, Fill, End, clientVars, netVars, Ends
  <2>6. CASE Find(t) \/ FindNowhere(t) \/ Sort(t)
    BY <2>6 DEF Find, FindNowhere, Sort, clientVars, netVars, Ends
  <2> QED
    BY <1>2, <2>1, <2>2, <2>3, <2>4, <2>5, <2>6 DEF ClientThread
<1>3. ASSUME NEW c \in Clients, ClientProgram(c) PROVE Ends'
  BY <1>3 DEF ClientProgram, Clear, ReadAnswer, netVars, Ends
<1>4. ASSUME NEW c \in Clients, Type(c) PROVE Ends'
  BY <1>4 DEF Type, Ends
<1>5. ASSUME NEW c \in Clients, Quit(c) PROVE Ends'
  BY <1>5 DEF Quit, Ends
<1>6. CASE UNCHANGED vars
  BY <1>6 DEF vars, clientVars, netVars, Ends
<1> QED
  BY <1>1, <1>2, <1>3, <1>4, <1>5, <1>6 DEF Next, ProgramStep, User

\* A descriptor is free for each client: one more is in use when one fewer waits.
LEMMA RoomyNext ==
  ASSUME Types, Roomy, [Next]_vars
  PROVE  Roomy'
<1> DEFINE F == {f \in Fds : conn[f] # Nobody}
<1>1. Len(backlog) \in Nat /\ N \in Nat
  BY NIs DEF Types
<1>2. IsFiniteSet(F) /\ Cardinality(F) \in Nat
  BY NIs, FS_Subset, FS_CardinalityType
<1>3. Cardinality(F) + Len(backlog) <= N
  BY DEF Roomy
<1>4. CASE Accept
  <2>1. clnt_sock' \in Fds /\ Head(backlog) # Nobody /\ Len(backlog') = Len(backlog) - 1
    BY <1>4, AcceptIs, SearchServerAssumption
  <2>2. F' = F \cup {clnt_sock'}
    BY <1>4, <2>1 DEF Accept, Types
  <2>3. clnt_sock' \notin F
    BY <1>4, AcceptIs
  <2> HIDE DEF F
  <2>4. Cardinality(F') = Cardinality(F) + 1
    BY <1>2, <2>2, <2>3, FS_AddElement
  <2>5. Cardinality(F') + Len(backlog') <= N
    BY <1>1, <1>2, <1>3, <2>1, <2>4
  <2> QED
    BY <2>5 DEF F, Roomy
<1>5. ASSUME NEW t \in Threads, Close(t) PROVE Roomy'
  <2>1. F' \subseteq F /\ backlog' = backlog
    BY <1>5 DEF Close, Types
  <2> HIDE DEF F
  <2>2. Cardinality(F') \in Nat /\ Cardinality(F') <= Cardinality(F)
    BY <1>2, <2>1, FS_Subset, FS_CardinalityType
  <2>3. Cardinality(F') + Len(backlog') <= N
    BY <1>1, <1>2, <1>3, <2>1, <2>2
  <2> QED
    BY <2>3 DEF F, Roomy
<1>6. ASSUME UNCHANGED <<conn, backlog>> PROVE Roomy'
  BY <1>6 DEF Roomy
<1>7. Register \/ Create \/ Outer \/ (\E t \in Threads : Start(t) \/ RemoveSock(t) \/ Inner(t))
        => UNCHANGED <<conn, backlog>>
  BY DEF Register, Create, Outer, Start, RemoveSock, Inner, mainVars
<1> QED
  BY <1>4, <1>5, <1>6, <1>7, Kinds

\* The counter follows the clients that are registered: also where the table does not.
LEMMA CountedNext ==
  ASSUME Types, Roomy, Counted, [Next]_vars
  PROVE  Counted'
<1> DEFINE C == Cardinality(Registered)
<1>1. IsFiniteSet(Registered) /\ C \in Nat
  BY CountBound
<1>2. clnt_cnt = C + (IF main = "create" THEN 1 ELSE 0)
  BY DEF Counted
<1>3. ASSUME Registered' = Registered, clnt_cnt' = clnt_cnt,
             main' = "create" <=> main = "create"
      PROVE  Counted'
  BY <1>2, <1>3 DEF Counted
<1>4. CASE Accept
  BY <1>3, <1>4 DEF Accept, tableVars, threadVars, Registered
<1>5. CASE Register
  <2>1. Registered' = Registered /\ clnt_cnt = C /\ main' = "create" /\ clnt_cnt' = clnt_cnt + 1
    BY <1>1, <1>2, <1>5 DEF Register, threadVars, Registered
  <2> QED
    BY <2>1 DEF Counted
<1>6. CASE Create
  <2>1. created' \in Threads /\ pc[created'] = "unborn"
    <3>1. created' = created + 1 /\ created \in Nat /\ created + Len(backlog) + 1 = N
      BY <1>6 DEF Create, Types, Pending
    <3>2. Len(backlog) \in Nat /\ N \in Nat /\ Threads = 1 .. N
      BY NIs DEF Types
    <3>3. created' \in Threads /\ created' > created
      BY <3>1, <3>2
    <3> QED
      BY <3>3 DEF Types
  <2>2. Registered' = Registered \cup {created'} /\ created' \notin Registered
    BY <1>6, <2>1 DEF Create, Registered, Types
  <2>3. Cardinality(Registered') = C + 1
    BY <1>1, <2>2, FS_AddElement
  <2>4. clnt_cnt' = C + 1 /\ main' = "accept"
    BY <1>2, <1>6 DEF Create, tableVars
  <2> QED
    BY <2>3, <2>4 DEF Counted
<1>7. ASSUME NEW t \in Threads, RemoveSock(t) PROVE Counted'
  <2>1. Registered' = Registered \ {t} /\ t \in Registered
    BY <1>7 DEF RemoveSock, Registered, Types
  <2>2. Cardinality(Registered') = C - 1
    BY <1>1, <2>1, FS_RemoveElement
  <2>3. clnt_cnt' = clnt_cnt - 1 /\ main' = main
    BY <1>7 DEF RemoveSock, CountAfter, mainVars
  <2>4. C - 1 + (IF main = "create" THEN 1 ELSE 0) = clnt_cnt - 1
    BY <1>1, <1>2
  <2> QED
    BY <2>2, <2>3, <2>4 DEF Counted
<1>8. ASSUME NEW t \in Threads, Start(t) \/ Close(t) \/ Inner(t) PROVE Counted'
  <2>1. Registered' = Registered
    <3>1. CASE Start(t)
      BY <3>1 DEF Start, Registered, Types
    <3>2. CASE Close(t)
      BY <3>2 DEF Close, Registered, Types
    <3>3. CASE Inner(t)
      BY <3>3 DEF Inner, Within, Registered, Types
    <3> QED
      BY <1>8, <3>1, <3>2, <3>3
  <2>2. UNCHANGED <<main, clnt_cnt>>
    BY <1>8 DEF Start, Close, Inner, mainVars, tableVars
  <2> QED
    BY <1>3, <2>1, <2>2
<1>9. CASE Outer
  BY <1>3, <1>9 DEF Outer, mainVars, tableVars, Registered
<1> QED
  BY <1>4, <1>5, <1>6, <1>7, <1>8, <1>9, Kinds

\* clnt_sock has been set when there is a thread or a client to be given one.
LEMMA SocketSet ==
  ASSUME Types
  PROVE  main # "accept" \/ (\E t \in Threads : pc[t] # "unborn") => clnt_sock \in Fds
<1>1. created \in Nat /\ Threads = 1 .. N /\ N \in Nat
  BY NIs DEF Types
<1>2. main # "accept" => created + Pending > 0
  BY <1>1 DEF Pending
<1>3. ASSUME NEW t \in Threads, pc[t] # "unborn" PROVE created + Pending > 0
  <2>1. t <= created
    BY <1>1, <1>3 DEF Types
  <2>2. Pending \in Nat
    BY DEF Pending
  <2> QED
    BY <1>1, <2>1, <2>2
<1> QED
  BY <1>2, <1>3 DEF Types

LEMMA PromptNext ==
  ASSUME Types, Roomy, Prompt, [Next]_vars
  PROVE  Prompt'
<1>n. serv_sock \notin Fds
  BY NIs DEF serv_sock
<1>0. SUFFICES ASSUME "late" \notin mishaps' PROVE Prompt'
  BY DEF Prompt
\* Steps after which the same thread, if any, is born and has not started.
<1>s. ASSUME UNCHANGED <<clnt_sock, conn, sock>>, main' # "accept" <=> main # "accept",
             \A u \in Threads : pc'[u] = "born" <=> pc[u] = "born",
             "late" \notin mishaps, "reused" \notin mishaps' \/ "reused" \in mishaps
      PROVE  Prompt'
  BY <1>s DEF Prompt, Waiting
<1>1. CASE Accept
  <2>1. "late" \notin mishaps /\ \A t \in Threads : pc[t] # "born"
    BY <1>0, <1>1 DEF Accept
  <2>2. clnt_sock' \in Fds /\ conn[clnt_sock'] = Nobody /\ Head(backlog) # Nobody
    BY <1>1, AcceptIs, SearchServerAssumption
  <2>3. \A t \in Threads : sock[t] # clnt_sock'
    BY <2>1, <2>2 DEF Prompt
  <2>4. "reused" \notin mishaps'
    BY <1>1, <2>1, <2>3 DEF Accept, Prompt
  <2>5. conn'[clnt_sock'] # Nobody /\ \A f \in Fds : conn[f] # Nobody => conn'[f] # Nobody
    BY <1>1, <2>2 DEF Accept, Types
  <2>6. pc' = pc /\ sock' = sock
    BY <1>1 DEF Accept, threadVars
  <2> QED
    BY <2>1, <2>3, <2>4, <2>5, <2>6 DEF Prompt
<1>2. CASE Register
  <2>1. UNCHANGED <<clnt_sock, conn, sock, pc, mishaps>>
        /\ main = "register" /\ main' = "create"
    BY <1>2 DEF Register, threadVars
  <2> QED
    BY <1>0, <1>s, <2>1
<1>3. CASE Create
  <2>1. UNCHANGED <<clnt_sock, conn, sock, mishaps>> /\ main = "create" /\ main' = "accept"
        /\ pc' = [pc EXCEPT ![created'] = "born"]
    BY <1>3 DEF Create
  <2>2. \A t \in Threads : pc[t] # "born"
    BY <1>0, <2>1 DEF Prompt
  <2>3. \A t \in Threads : pc'[t] = "born" => t = created'
    BY <2>1, <2>2 DEF Types
  <2>4. Waiting
    BY <2>1 DEF Waiting
  <2> QED
    BY <1>0, <2>1, <2>3, <2>4 DEF Prompt
<1>4. ASSUME NEW t \in Threads, Start(t) PROVE Prompt'
  <2>1. UNCHANGED <<main, clnt_sock, conn, mishaps>> /\ pc[t] = "born"
        /\ pc' = [pc EXCEPT ![t] = "read"] /\ sock' = [sock EXCEPT ![t] = clnt_sock]
    BY <1>4 DEF Start, mainVars
  <2>2. main = "accept" /\ Waiting /\ \A u \in Threads : pc[u] = "born" => u = t
    BY <1>0, <2>1 DEF Prompt, Waiting
  <2>3. \A u \in Threads : pc'[u] # "born"
    BY <2>1, <2>2 DEF Types
  <2>4. ~ Waiting'
    BY <2>1, <2>2, <2>3 DEF Waiting
  <2>5. sock'[t] = clnt_sock /\ \A u \in Threads \ {t} : sock'[u] = sock[u]
    BY <2>1 DEF Types
  <2>6. \A u \in Threads : sock'[u] \in Fds => conn[sock'[u]] # Nobody
    BY <1>0, <2>1, <2>2, <2>5 DEF Prompt
  <2>7. \A u, v \in Threads : sock'[u] \in Fds /\ sock'[u] = sock'[v] => u = v
    BY <1>0, <2>1, <2>2, <2>5 DEF Prompt
  <2>8. "reused" \notin mishaps
    BY <1>0, <2>1 DEF Prompt
  <2> QED
    BY <2>1, <2>3, <2>4, <2>6, <2>7, <2>8 DEF Prompt
<1>5. ASSUME NEW t \in Threads, RemoveSock(t) PROVE Prompt'
  <2>1. UNCHANGED <<main, clnt_sock, conn, sock>>
    BY <1>5 DEF RemoveSock, mainVars
  <2>2. \A u \in Threads : pc'[u] = "born" <=> pc[u] = "born"
    BY <1>5 DEF RemoveSock, Types
  <2>3. "late" \notin mishaps /\ ("reused" \notin mishaps' \/ "reused" \in mishaps)
    BY <1>0, <1>5 DEF RemoveSock
  <2> QED
    BY <1>s, <2>1, <2>2, <2>3
<1>6. ASSUME NEW t \in Threads, Close(t) PROVE Prompt'
  <2>1. UNCHANGED <<main, clnt_sock, mishaps>> /\ pc[t] = "close"
        /\ pc' = [pc EXCEPT ![t] = "end"] /\ sock' = [sock EXCEPT ![t] = serv_sock]
    BY <1>6 DEF Close
  <2>2. sock[t] \in Fds
    BY <2>1 DEF Types
  <2>3. \A f \in Fds \ {sock[t]} : conn'[f] = conn[f]
    BY <1>6 DEF Close, Types
  <2>4. \A u \in Threads : pc'[u] = "born" <=> pc[u] = "born"
    BY <2>1 DEF Types
  <2>5. sock'[t] = serv_sock /\ \A u \in Threads \ {t} : sock'[u] = sock[u]
    BY <2>1 DEF Types
  <2>6. \A u \in Threads : sock'[u] \in Fds => conn'[sock'[u]] # Nobody
    BY <1>0, <1>n, <2>1, <2>2, <2>3, <2>5 DEF Prompt
  <2>7. \A u, v \in Threads : sock'[u] \in Fds /\ sock'[u] = sock'[v] => u = v
    BY <1>0, <1>n, <2>1, <2>5 DEF Prompt
  <2>8. ASSUME Waiting' PROVE conn'[clnt_sock] # Nobody /\ \A u \in Threads : sock'[u] # clnt_sock
    <3>1. Waiting
      BY <2>1, <2>4, <2>8 DEF Waiting
    <3>2. clnt_sock \in Fds
      BY <3>1, SocketSet DEF Waiting
    <3>3. conn[clnt_sock] # Nobody /\ \A u \in Threads : sock[u] # clnt_sock
      BY <1>0, <2>1, <3>1 DEF Prompt
    <3> QED
      BY <1>n, <2>2, <2>3, <2>5, <3>2, <3>3
  <2>9. "reused" \notin mishaps /\ (main # "accept" => \A u \in Threads : pc[u] # "born")
        /\ \A u, v \in Threads : pc[u] = "born" /\ pc[v] = "born" => u = v
    BY <1>0, <2>1 DEF Prompt
  <2> QED
    BY <2>1, <2>4, <2>6, <2>7, <2>8, <2>9 DEF Prompt
<1>7. ASSUME NEW t \in Threads, Inner(t) PROVE Prompt'
  <2>1. UNCHANGED <<main, clnt_sock, conn, sock>>
    BY <1>7 DEF Inner, mainVars
  <2>2. \A u \in Threads : pc'[u] = "born" <=> pc[u] = "born"
    BY <1>7 DEF Inner, Within, Types
  <2>3. "late" \notin mishaps /\ ("reused" \notin mishaps' \/ "reused" \in mishaps)
    BY <1>0, <1>7 DEF Inner, Others
  <2> QED
    BY <1>s, <2>1, <2>2, <2>3
<1>8. CASE Outer
  BY <1>0, <1>8, <1>s DEF Outer, Others, mainVars
<1> QED
  BY <1>1, <1>2, <1>3, <1>4, <1>5, <1>6, <1>7, <1>8, Kinds

\* Mishaps are not taken back.
LEMMA MishapsGrow ==
  ASSUME Types, [Next]_vars
  PROVE  mishaps \subseteq mishaps'
<1>1. Accept \/ Register \/ Create \/ Outer => mishaps \subseteq mishaps'
  BY DEF Accept, Register, Create, Outer
<1>2. \A t \in Threads : Start(t) \/ RemoveSock(t) \/ Close(t) \/ Inner(t) => mishaps \subseteq mishaps'
  BY DEF Start, RemoveSock, Close, Inner
<1> QED
  BY <1>1, <1>2, Kinds

LEMMA PeerIs ==
  ASSUME Types, NEW t \in Threads
  PROVE  Peer(t) \in Clients \cup {Nobody}
BY DEF Types, Peer

LEMMA SurvivingNext ==
  ASSUME Types, Roomy, Ends, Surviving, [Next]_vars
  PROVE  Surviving'
<1>m. mishaps \subseteq mishaps'
  BY MishapsGrow
\* Steps after which no more threads have an answer to give, nor another client to
\* give it to.
<1>s. ASSUME UNCHANGED <<hung, up, client>>,
             \A u \in Threads : Answering(u)' => Answering(u) /\ Peer(u)' \in {Peer(u), Nobody},
             \A u \in Threads : Busy(u)' => Busy(u)
      PROVE  Surviving'
  BY <1>m, <1>s DEF Surviving
<1>1. CASE Accept
  <2>1. UNCHANGED <<hung, up, client, pc, sock>>
    BY <1>1 DEF Accept, threadVars, clientVars, netVars
  <2>2. \A u \in Threads : (Answering(u)' <=> Answering(u)) /\ (Busy(u)' <=> Busy(u))
    BY <2>1 DEF Answering, Busy, Searching
  <2>3. CASE "reused" \notin mishaps'
    <3>1. \A u \in Threads : sock[u] # clnt_sock'
      BY <1>1, <2>3 DEF Accept
    <3>2. \A u \in Threads : Peer(u)' = Peer(u)
      BY <1>1, <2>1, <3>1 DEF Accept, Types, Peer
    <3> QED
      BY <1>s, <2>1, <2>2, <3>2
  <2>4. CASE "reused" \in mishaps'
    BY <1>m, <2>2, <2>4 DEF Surviving
  <2> QED
    BY <2>3, <2>4
<1>2. CASE Register
  BY <1>2, <1>s DEF Register, threadVars, clientVars, netVars, Answering, Busy, Searching, Peer
<1>3. CASE Create
  <2>1. UNCHANGED <<hung, up, client, conn, sock>> /\ pc' = [pc EXCEPT ![created'] = "born"]
    BY <1>3 DEF Create, clientVars, netVars
  <2>2. \A u \in Threads : pc'[u] \in {pc[u], "born"}
    BY <2>1 DEF Types
  <2>3. \A u \in Threads : (Answering(u)' => Answering(u)) /\ (Busy(u)' => Busy(u))
    BY <2>2 DEF Answering, Busy, Searching
  <2>4. \A u \in Threads : Peer(u)' = Peer(u)
    BY <2>1 DEF Peer
  <2> QED
    BY <1>s, <2>1, <2>3, <2>4
\* Steps of a thread that answers nothing when it is done.
<1>4. ASSUME NEW t \in Threads, UNCHANGED <<hung, up, client>>,
             NEW x \in {"read", "close", "end", "remove"}, pc' = [pc EXCEPT ![t] = x],
             \A u \in Threads \ {t} : Peer(u)' \in {Peer(u), Nobody}
      PROVE  Surviving'
  <2>1. pc'[t] = x /\ \A u \in Threads \ {t} : pc'[u] = pc[u]
    BY <1>4 DEF Types
  <2>2. ~ Answering(t)' /\ ~ Busy(t)'
    BY <1>4, <2>1 DEF Answering, Busy, Searching
  <2>3. \A u \in Threads \ {t} : (Answering(u)' => Answering(u)) /\ (Busy(u)' => Busy(u))
    BY <2>1 DEF Answering, Busy, Searching
  <2> QED
    BY <1>4, <1>s, <2>2, <2>3
<1>5. ASSUME NEW t \in Threads, Start(t) PROVE Surviving'
  <2>1. UNCHANGED <<hung, up, client, conn>> /\ pc' = [pc EXCEPT ![t] = "read"]
        /\ sock' = [sock EXCEPT ![t] = clnt_sock]
    BY <1>5 DEF Start, mainVars, clientVars, netVars
  <2>2. \A u \in Threads \ {t} : Peer(u)' = Peer(u)
    BY <2>1 DEF Types, Peer
  <2> QED
    BY <1>4, <2>1, <2>2
<1>6. ASSUME NEW t \in Threads, RemoveSock(t) PROVE Surviving'
  <2>1. UNCHANGED <<hung, up, client, conn, sock>> /\ pc' = [pc EXCEPT ![t] = "close"]
    BY <1>6 DEF RemoveSock, mainVars, clientVars, netVars
  <2>2. \A u \in Threads \ {t} : Peer(u)' = Peer(u)
    BY <2>1 DEF Peer
  <2> QED
    BY <1>4, <2>1, <2>2
<1>7. ASSUME NEW t \in Threads, Close(t) PROVE Surviving'
  <2>1. UNCHANGED <<hung, up, client>> /\ pc' = [pc EXCEPT ![t] = "end"]
        /\ sock' = [sock EXCEPT ![t] = serv_sock]
    BY <1>7 DEF Close, clientVars, netVars
  <2>2. \A u \in Threads \ {t} : sock'[u] = sock[u]
    BY <2>1 DEF Types
  <2>3. \A f \in Fds : conn'[f] \in {conn[f], Nobody}
    BY <1>7 DEF Close, Types
  <2>4. \A u \in Threads \ {t} : Peer(u)' \in {Peer(u), Nobody}
    BY <2>2, <2>3 DEF Peer
  <2> QED
    BY <1>4, <2>1, <2>4
<1>8. ASSUME NEW t \in Threads, ReadQuery(t) PROVE Surviving'
  <2> DEFINE c == Peer(t)
  <2>1. c \in Clients /\ up[c] # << >> /\ (\A d \in Clients \ {c} : up'[d] = up[d])
        /\ UNCHANGED <<hung, client, conn, sock, mishaps>>
    BY <1>8, PeerIs DEF ReadQuery, mainVars, clientVars, Ends
  <2>2. pc' = [pc EXCEPT ![t] = "begin"]
    BY <1>8 DEF ReadQuery
  <2>3. pc'[t] = "begin" /\ \A u \in Threads \ {t} : pc'[u] = pc[u]
    BY <2>2 DEF Types
  <2>4. \A u \in Threads : Peer(u)' = Peer(u)
    BY <2>1 DEF Peer
  <2>5. \A u \in Threads : (u # t /\ Answering(u)' => Answering(u)) /\ (Busy(u)' => Busy(u))
    BY <2>3 DEF Answering, Busy, Searching
  <2>6. mishaps \cap {"rude", "reused"} = {} => hung[c] = "open"
    BY <2>1 DEF Surviving
  <2> HIDE DEF c
  <2>7. Peer(t)' = c
    BY <2>4 DEF c
  <2> QED
    BY <2>1, <2>4, <2>5, <2>6, <2>7 DEF Surviving
<1>9. ASSUME NEW t \in Threads, ReadEnd(t) PROVE Surviving'
  <2> DEFINE c == Peer(t)
  <2>1. UNCHANGED <<up, client, conn, sock, mishaps>>
    BY <1>9 DEF ReadEnd, mainVars, clientVars
  <2>2. \A u \in Threads : Peer(u)' = Peer(u)
    BY <2>1 DEF Peer
  <2>3. CASE c # Nobody /\ hung[c] = "fin" /\ pc' = [pc EXCEPT ![t] = "remove"] /\ UNCHANGED hung
    BY <1>4, <2>1, <2>2, <2>3
  <2>4. CASE pc' = [pc EXCEPT ![t] = "begin"]
    <3>1. pc'[t] = "begin" /\ \A u \in Threads \ {t} : pc'[u] = pc[u]
      BY <2>4 DEF Types
    <3>2. \A u \in Threads : (u # t /\ Answering(u)' => Answering(u)) /\ (Busy(u)' => Busy(u))
      BY <3>1 DEF Answering, Busy, Searching
    <3>3. CASE c = Nobody /\ UNCHANGED hung
      BY <2>1, <2>2, <3>2, <3>3 DEF Surviving
    <3>4. CASE c # Nobody /\ hung[c] = "rst"
      <4>1. c \in Clients
        BY <3>4, PeerIs
      <4>2. mishaps \cap {"rude", "reused"} # {}
        BY <3>4, <4>1 DEF Surviving
      <4> QED
        BY <2>1, <3>2, <4>2 DEF Surviving
    <3> QED
      BY <1>9, <2>4, <3>3, <3>4 DEF ReadEnd, AfterEnd, Types
  <2> QED
    BY <1>9, <2>3, <2>4 DEF ReadEnd, AfterEnd
<1>10. ASSUME NEW t \in Threads, Send(t) PROVE Surviving'
  <2>1. UNCHANGED <<hung, up, client, conn, sock>> /\ pc' = [pc EXCEPT ![t] = "read"]
    BY <1>10 DEF Send, AfterAnswer, mainVars, clientVars
  <2>2. \A u \in Threads \ {t} : Peer(u)' = Peer(u)
    BY <2>1 DEF Peer
  <2> QED
    BY <1>4, <2>1, <2>2
<1>11. ASSUME NEW t \in Threads, Begin(t) PROVE Surviving'
  <2>1. UNCHANGED <<hung, up, client, conn, sock>> /\ pc[t] = "begin"
        /\ pc' = [pc EXCEPT ![t] = "alloc"]
        /\ mishaps' = mishaps \cup (IF \E u \in Threads : Busy(u) THEN {"overlap"} ELSE {})
    BY <1>11 DEF Begin, mainVars, clientVars, netVars
  <2>2. \A u \in Threads : Peer(u)' = Peer(u)
    BY <2>1 DEF Peer
  <2>3. \A u \in Threads \ {t} : pc'[u] = pc[u]
    BY <2>1 DEF Types
  <2>4. \A u \in Threads \ {t} : (Answering(u)' => Answering(u)) /\ (Busy(u)' => Busy(u))
    BY <2>3 DEF Answering, Busy, Searching
  <2>5. Answering(t)
    BY <2>1 DEF Answering
  <2> QED
    BY <2>1, <2>2, <2>4, <2>5 DEF Surviving
<1>12. ASSUME NEW t \in Threads,
              Alloc(t) \/ Fill(t) \/ Find(t) \/ FindNowhere(t) \/ End(t) \/ Sort(t)
       PROVE  Surviving'
  <2>1. /\ UNCHANGED <<hung, up, client, conn, sock>>
        /\ Busy(t)
        /\ pc' = pc \/ \E x \in Counters : pc' = [pc EXCEPT ![t] = x]
    <3>1. CASE Alloc(t) \/ Fill(t) \/ End(t) \/ Sort(t)
      BY <3>1 DEF Alloc, Fill, End, Sort, mainVars, clientVars, netVars, Busy, Searching, Counters
    <3>2. CASE Find(t) \/ FindNowhere(t)
      BY <3>2 DEF Find, FindNowhere, mainVars, threadVars, clientVars, netVars, Busy, Searching
    <3> QED
      BY <1>12, <3>1, <3>2
  <2>2. \A u \in Threads : Peer(u)' = Peer(u)
    BY <2>1 DEF Peer
  <2>3. \A u \in Threads \ {t} : pc'[u] = pc[u]
    BY <2>1 DEF Types
  <2>4. \A u \in Threads \ {t} : (Answering(u)' => Answering(u)) /\ (Busy(u)' => Busy(u))
    BY <2>3 DEF Answering, Busy, Searching
  <2>5. Answering(t)
    BY <2>1 DEF Answering
  <2> QED
    BY <1>s, <2>1, <2>2, <2>4, <2>5
\* Steps of a client: the threads stay where they are.
<1>13. ASSUME UNCHANGED <<pc, conn, sock>>
       PROVE  \A u \in Threads : /\ Answering(u)' <=> Answering(u)
                                 /\ Busy(u)' <=> Busy(u)
                                 /\ Peer(u)' = Peer(u)
  BY <1>13 DEF Answering, Busy, Searching, Peer
<1>14. ASSUME NEW c \in Clients, Type(c) \/ Clear(c) PROVE Surviving'
  <2>1. UNCHANGED <<hung, pc, conn, sock>>
    BY <1>14 DEF Type, Clear, mainVars, threadVars, netVars
  <2>2. client[c] # "gone" /\ \A d \in Clients \ {c} : up'[d] = up[d] /\ client'[d] = client[d]
    BY <1>14 DEF Type, Clear, netVars, Ends
  <2> QED
    BY <1>m, <1>13, <2>1, <2>2 DEF Surviving
<1>15. ASSUME NEW c \in Clients, ReadAnswer(c) PROVE Surviving'
  <2>1. UNCHANGED <<hung, up, client, pc, conn, sock>>
    BY <1>15 DEF ReadAnswer, mainVars, threadVars, netVars
  <2> QED
    BY <1>s, <1>13, <2>1
<1>16. ASSUME NEW c \in Clients, Quit(c) PROVE Surviving'
  <2>1. UNCHANGED <<pc, conn, sock>>
    BY <1>16 DEF Quit, mainVars, threadVars
  <2>2. CASE "rude" \in mishaps'
    BY <1>m, <1>13, <2>1, <2>2 DEF Surviving
  <2>3. CASE "rude" \notin mishaps'
    <3>1. up[c] = << >> /\ down[c] = << >> /\ \A t \in Threads : Peer(t) = c => ~ Answering(t)
      BY <1>16, <2>3 DEF Quit, Quiet, Answering
    <3>2. up' = up /\ hung' = [hung EXCEPT ![c] = "fin"] /\ client' = [client EXCEPT ![c] = "gone"]
      BY <1>16, <3>1 DEF Quit
    <3>3. \A d \in Clients \ {c} : hung'[d] = hung[d] /\ client'[d] = client[d]
      BY <3>2 DEF Ends
    <3>4. client'[c] = "gone" /\ hung'[c] = "fin"
      BY <3>2 DEF Ends
    <3>5. \A t \in Threads : Peer(t) \in Clients \cup {Nobody}
      BY PeerIs
    <3> QED
      BY <1>m, <1>13, <2>1, <3>1, <3>2, <3>3, <3>4, <3>5 DEF Surviving
  <2> QED
    BY <2>2, <2>3
<1>17. CASE UNCHANGED vars
  BY <1>s, <1>13, <1>17 DEF vars, mainVars, threadVars, clientVars, netVars
<1> QED
  BY <1>1, <1>2, <1>3, <1>5, <1>6, <1>7, <1>8, <1>9, <1>10, <1>11, <1>12, <1>14, <1>15, <1>16, <1>17
  DEF Next, ProgramStep, MainThread, ClientThread, ClientProgram, User

LEMMA ServerSurvivesNext ==
  ASSUME Types, Surviving, ServerSurvives, [Next]_vars
  PROVE  ServerSurvives'
<1>1. mishaps \subseteq mishaps'
  BY MishapsGrow
<1>2. CASE killed' = killed
  BY <1>1, <1>2 DEF ServerSurvives
<1>3. ASSUME NEW t \in Threads, FindNowhere(t) PROVE ServerSurvives'
  <2>1. PICK u \in Threads \ {t} : pc[t] = "find" /\ pc[u] = "fill"
    BY <1>3 DEF FindNowhere
  <2>2. Busy(t) /\ Busy(u) /\ t # u
    BY <2>1 DEF Busy, Searching
  <2>3. "overlap" \in mishaps
    BY <2>2 DEF Surviving
  <2> QED
    BY <1>1, <2>3 DEF ServerSurvives
<1>4. ASSUME NEW t \in Threads, Send(t) PROVE ServerSurvives'
  <2>1. CASE killed' = killed
    BY <1>2, <2>1
  <2>2. CASE Peer(t) # Nobody /\ hung[Peer(t)] # "open"
    <3>1. Answering(t)
      BY <1>4 DEF Send, Answering, Busy
    <3>2. mishaps \cap {"rude", "reused"} # {}
      BY <2>2, <3>1 DEF Surviving
    <3> QED
      BY <1>1, <3>2 DEF ServerSurvives
  <2> QED
    BY <1>4, <2>1, <2>2 DEF Send
<1>5. ASSUME NEW t \in Threads, ClientThread(t) PROVE ServerSurvives'
  <2>1. CASE Start(t) \/ ReadQuery(t) \/ ReadEnd(t) \/ Begin(t) \/ Alloc(t) \/ Fill(t)
    BY <1>2, <2>1 DEF Start, ReadQuery, ReadEnd, Begin, Alloc, Fill
  <2>2. CASE Find(t) \/ End(t) \/ Sort(t) \/ RemoveSock(t) \/ Close(t)
    BY <1>2, <2>2 DEF Find, End, Sort, RemoveSock, Close
  <2> QED
    BY <1>3, <1>4, <1>5, <2>1, <2>2 DEF ClientThread
<1>6. MainThread \/ (\E c \in Clients : ClientProgram(c) \/ User(c)) \/ UNCHANGED vars
        => killed' = killed
  BY DEF MainThread, Accept, Register, Create, ClientProgram, Clear, ReadAnswer, User, Type, Quit, vars
<1> QED
  BY <1>2, <1>5, <1>6 DEF Next, ProgramStep

LEMMA ListedNext ==
  ASSUME Types, Roomy, Counted, Prompt, Listed, [Next]_vars
  PROVE  Listed'
<1>0. SUFFICES ASSUME mishaps' \cap {"late", "middle"} = {} PROVE Listed'
  BY DEF Listed
<1>m. mishaps \cap {"late", "middle"} = {}
  BY <1>0, MishapsGrow
<1> DEFINE I == 0 .. clnt_cnt - 1
           Table == {clnt_socks[i] : i \in I}
           Served == {sock[t] : t \in Serving}
<1>1. /\ \A i, j \in I : clnt_socks[i] = clnt_socks[j] => i = j
      /\ Table = Served \cup Entry
  BY <1>m DEF Listed
<1>2. clnt_cnt \in Nat /\ clnt_cnt <= N /\ N \in Nat /\ DOMAIN clnt_socks = 0 .. N
  BY CountBound, NIs DEF Types
<1>3. Entry # {} => Entry = {clnt_sock} /\ \A t \in Threads : sock[t] # clnt_sock
  BY <1>m DEF Prompt, Waiting, Entry
<1>4. main = "register" => Entry = {} /\ \A t \in Threads : sock[t] # clnt_sock
  BY <1>m DEF Prompt, Waiting, Entry
<1>s. ASSUME UNCHANGED <<clnt_socks, clnt_cnt>>, Served' \cup Entry' = Served \cup Entry
      PROVE  Listed'
  BY <1>1, <1>s DEF Listed
<1>5. CASE Accept
  <2>1. (\A t \in Threads : pc[t] # "born") /\ main = "accept" /\ main' = "register"
        /\ UNCHANGED <<clnt_socks, clnt_cnt, pc, sock>>
    BY <1>0, <1>5 DEF Accept, tableVars, threadVars
  <2>2. Entry' = {} /\ Entry = {} /\ Serving' = Serving
    BY <2>1 DEF Entry, Serving
  <2> QED
    BY <1>s, <2>1, <2>2
<1>6. CASE Register
  <2>1. UNCHANGED <<clnt_sock, pc, sock>> /\ main = "register" /\ main' = "create"
        /\ clnt_socks' = [clnt_socks EXCEPT ![clnt_cnt] = clnt_sock] /\ clnt_cnt' = clnt_cnt + 1
    BY <1>6 DEF Register, threadVars
  <2>2. Entry' = {clnt_sock} /\ Serving' = Serving
    BY <2>1 DEF Entry, Serving
  <2>3. I' = I \cup {clnt_cnt} /\ clnt_cnt \notin I
    BY <1>2, <2>1
  <2>4. clnt_socks'[clnt_cnt] = clnt_sock /\ \A i \in I : clnt_socks'[i] = clnt_socks[i]
    BY <1>2, <2>1
  <2>5. \A i \in I : clnt_socks[i] # clnt_sock
    <3>1. clnt_sock \notin Served \cup Entry
      BY <1>4, <2>1 DEF Serving
    <3> QED
      BY <1>1, <3>1
  <2>6. \A i, j \in I' : clnt_socks'[i] = clnt_socks'[j] => i = j
    BY <1>1, <2>3, <2>4, <2>5
  <2>7. Table' = Table \cup {clnt_sock}
    BY <2>3, <2>4
  <2>8. Served' = Served /\ Entry = {}
    BY <1>4, <2>1, <2>2
  <2>9. Table' = Served' \cup Entry'
    BY <1>1, <2>2, <2>7, <2>8
  <2> QED
    BY <2>6, <2>9 DEF Listed
<1>7. CASE Create
  <2>1. UNCHANGED <<clnt_sock, clnt_socks, clnt_cnt, sock>> /\ main = "create" /\ main' = "accept"
        /\ pc' = [pc EXCEPT ![created'] = "born"] /\ created' = created + 1
    BY <1>7 DEF Create, tableVars
  <2>2. created' \in Threads /\ pc[created'] = "unborn"
    <3>1. created \in Nat /\ created + Len(backlog) + 1 = N /\ Len(backlog) \in Nat
      BY <2>1 DEF Types, Pending
    <3>2. created' \in Threads /\ created' > created
      BY <1>2, <2>1, <3>1, NIs
    <3> QED
      BY <3>2 DEF Types
  <2>3. pc'[created'] = "born" /\ \A t \in Threads \ {created'} : pc'[t] = pc[t]
    BY <2>1, <2>2 DEF Types
  <2>4. Serving' = Serving
    BY <2>2, <2>3 DEF Serving
  <2>5. Entry' = {clnt_sock} /\ Entry = {clnt_sock}
    BY <2>1, <2>2, <2>3 DEF Entry
  <2> QED
    BY <1>s, <2>1, <2>4, <2>5
<1>8. ASSUME NEW t \in Threads, Start(t) PROVE Listed'
  <2>1. UNCHANGED <<main, clnt_sock, clnt_socks, clnt_cnt>> /\ pc[t] = "born"
        /\ pc' = [pc EXCEPT ![t] = "read"] /\ sock' = [sock EXCEPT ![t] = clnt_sock]
    BY <1>8 DEF Start, mainVars, tableVars
  <2>2. main = "accept" /\ \A u \in Threads : pc[u] = "born" => u = t
    BY <1>m, <2>1 DEF Prompt
  <2>3. pc'[t] = "read" /\ sock'[t] = clnt_sock
        /\ \A u \in Threads \ {t} : pc'[u] = pc[u] /\ sock'[u] = sock[u]
    BY <2>1 DEF Types
  <2>4. Entry = {clnt_sock} /\ Entry' = {}
    BY <2>1, <2>2, <2>3 DEF Entry
  <2>5. Serving' = Serving \cup {t} /\ t \notin Serving
    BY <2>1, <2>3 DEF Serving
  <2>6. Served' = Served \cup {clnt_sock}
    BY <2>3, <2>5 DEF Serving
  <2> QED
    BY <1>s, <2>1, <2>4, <2>6
<1>9. ASSUME NEW t \in Threads, RemoveSock(t) PROVE Listed'
  <2>1. UNCHANGED <<main, clnt_sock, sock>> /\ pc[t] = "remove" /\ pc' = [pc EXCEPT ![t] = "close"]
        /\ clnt_cnt' = clnt_cnt - 1 /\ clnt_cnt - 1 \in Found(t)
    BY <1>0, <1>9 DEF RemoveSock, CountAfter, mainVars
  <2>2. clnt_cnt >= 1 /\ clnt_cnt - 1 \in I /\ clnt_socks[clnt_cnt - 1] = sock[t]
    BY <1>2, <2>1 DEF Found
  <2>3. Found(t) = {clnt_cnt - 1}
    BY <1>1, <2>1, <2>2 DEF Found
  <2>4. Min(Found(t)) = clnt_cnt - 1
    <3>1. Found(t) \in SUBSET Nat /\ Found(t) # {}
      BY <1>2, <2>2, <2>3
    <3> QED
      BY <2>3, <3>1, MinIs
  <2>5. I' = I \ {clnt_cnt - 1}
    BY <1>2, <2>1, <2>2
  <2>6. \A i \in I : clnt_socks'[i] = clnt_socks[i]
    <3>1. \A i \in I : i \in 0 .. N /\ i \notin Min(Found(t)) + 1 .. clnt_cnt - 1
      BY <1>2, <2>2, <2>4
    <3> QED
      BY <1>2, <1>9, <3>1 DEF RemoveSock
  <2>7. \A i, j \in I' : clnt_socks'[i] = clnt_socks'[j] => i = j
    BY <1>1, <2>5, <2>6
  <2>8. Table' = Table \ {sock[t]}
    BY <1>1, <2>2, <2>5, <2>6
  <2>9. pc'[t] = "close" /\ \A u \in Threads \ {t} : pc'[u] = pc[u]
    BY <2>1 DEF Types
  <2>10. Serving' = Serving \ {t} /\ t \in Serving
    BY <2>1, <2>9 DEF Serving
  <2>11. sock[t] \in Fds
    BY <2>1 DEF Types
  <2>12. Served' = Served \ {sock[t]}
    <3>1. \A u \in Serving : sock[u] = sock[t] => u = t
      BY <1>m, <2>11 DEF Prompt, Serving
    <3> QED
      BY <2>1, <2>10, <3>1
  <2>13. Entry' = Entry
    BY <2>1, <2>9 DEF Entry
  <2>14. sock[t] \notin Entry
    BY <1>3
  <2>15. Table' = Served' \cup Entry'
    BY <1>1, <2>8, <2>12, <2>13, <2>14
  <2> QED
    BY <2>7, <2>15 DEF Listed
<1>10. ASSUME NEW t \in Threads, Close(t) PROVE Listed'
  <2>1. UNCHANGED <<main, clnt_sock, clnt_socks, clnt_cnt>> /\ pc[t] = "close"
        /\ pc' = [pc EXCEPT ![t] = "end"] /\ sock' = [sock EXCEPT ![t] = serv_sock]
    BY <1>10 DEF Close, tableVars
  <2>2. pc'[t] = "end" /\ \A u \in Threads \ {t} : pc'[u] = pc[u] /\ sock'[u] = sock[u]
    BY <2>1 DEF Types
  <2>3. Serving' = Serving /\ t \notin Serving
    BY <2>1, <2>2 DEF Serving
  <2>4. Served' = Served
    BY <2>2, <2>3 DEF Serving
  <2>5. Entry' = Entry
    BY <2>1, <2>2 DEF Entry
  <2> QED
    BY <1>s, <2>1, <2>4, <2>5
<1>11. ASSUME NEW t \in Threads, Inner(t) PROVE Listed'
  <2>1. UNCHANGED <<main, clnt_sock, clnt_socks, clnt_cnt, sock>>
    BY <1>11 DEF Inner, mainVars, tableVars
  <2>2. PICK x \in Within : pc[t] \in Within /\ pc' = [pc EXCEPT ![t] = x]
    BY <1>11 DEF Inner
  <2>3. Serving' = Serving /\ Entry' = Entry
    BY <2>1, <2>2 DEF Within, Serving, Entry, Types
  <2> QED
    BY <1>s, <2>1, <2>3
<1>12. CASE Outer
  BY <1>s, <1>12 DEF Outer, mainVars, tableVars, Serving, Entry
<1> QED
  BY <1>5, <1>6, <1>7, <1>8, <1>9, <1>10, <1>11, <1>12, Kinds

-------------------------------------------------------------------------------
(* The theorems. *)

LEMMA InvInit ==
  ASSUME Init
  PROVE  Inv
<1>1. N \in Nat /\ Threads = 1 .. N /\ serv_sock \in Int /\ serv_sock \notin Fds
  BY NIs DEF serv_sock
<1>2. backlog \in Seq(Clients) /\ Len(backlog) = N
  BY BacklogIs DEF Init
<1>3. \A t \in Threads : pc[t] = "unborn" /\ sock[t] = serv_sock
  BY DEF Init
<1>4. Types
  <2>1. created = 0 /\ main = "accept" /\ Pending = 0
    BY DEF Init, Pending
  <2>2. created + Len(backlog) + Pending = N /\ created \in 0 .. N
    BY <1>1, <1>2, <2>1
  <2>3. ~ (created + Pending > 0)
    BY <2>1
  <2>4. conn \in [Fds -> Clients \cup {Nobody}] /\ clnt_socks \in [0 .. N -> Int]
    BY DEF Init, N
  <2>5. pc \in [Threads -> Counters] /\ sock \in [Threads -> Fds \cup {serv_sock}]
    BY DEF Init, Counters
  <2>6. \A t \in Threads : t > created
    BY <1>1, <2>1
  <2> QED
    BY <1>2, <1>3, <2>1, <2>2, <2>3, <2>4, <2>5, <2>6 DEF Types
<1>5. Ends
  BY DEF Init, Ends
<1>6. Surviving
  <2>1. \A t \in Threads : ~ Answering(t) /\ ~ Busy(t)
    BY <1>3 DEF Answering, Busy, Searching
  <2>2. \A c \in Clients : hung[c] = "open"
    BY DEF Init
  <2> QED
    BY <2>1, <2>2 DEF Surviving
<1>7. Roomy
  <2>1. {f \in Fds : conn[f] # Nobody} = {}
    BY DEF Init
  <2>2. Cardinality({}) = 0
    BY FS_EmptySet
  <2>3. Cardinality({f \in Fds : conn[f] # Nobody}) = 0
    BY <2>1, <2>2, Zenon
  <2>4. 0 + N <= N
    BY <1>1
  <2> QED
    BY <1>2, <2>3, <2>4 DEF Roomy
<1>8. Counted
  <2>1. Registered = {} /\ clnt_cnt = 0 /\ main = "accept"
    BY <1>3 DEF Registered, Init
  <2> QED
    BY <2>1, FS_EmptySet DEF Counted
<1>9. Prompt
  <2>1. main = "accept" /\ mishaps = {}
    BY DEF Init
  <2> QED
    BY <1>1, <1>3, <2>1 DEF Prompt, Waiting
<1>10. Listed
  <2>1. clnt_cnt = 0 /\ main = "accept"
    BY DEF Init
  <2>2. Serving = {} /\ Entry = {}
    BY <1>3, <2>1 DEF Serving, Entry
  <2>3. 0 .. clnt_cnt - 1 = {}
    BY <2>1
  <2> QED
    BY <2>2, <2>3 DEF Listed
<1>11. ServerSurvives
  BY DEF Init, ServerSurvives
<1> QED
  BY <1>4, <1>5, <1>6, <1>7, <1>8, <1>9, <1>10, <1>11 DEF Inv

LEMMA InvNext ==
  ASSUME Inv, [Next]_vars
  PROVE  Inv'
BY TypesNext, EndsNext, SurvivingNext, RoomyNext, CountedNext, PromptNext, ListedNext,
   ServerSurvivesNext DEF Inv

\* What is known of the server at any time, for any number of clients that connect,
\* type and leave as they like (server.c's main, handle_clnt and send_msg).
THEOREM InvCorrect == Spec => []Inv
<1>1. Init => Inv
  BY InvInit
<1>2. Inv /\ [Next]_vars => Inv'
  BY InvNext
<1> QED
  BY <1>1, <1>2, PTL DEF Spec

\* The server (send_msg's write(), traverseAndFindChar's store) is only killed after a
\* client has left without waiting for its answer, two searches have overlapped, or a
\* client has been accepted on a descriptor that a thread still had.
THEOREM ServerSurvivesCorrect == Spec => []ServerSurvives
<1>1. Inv => ServerSurvives
  BY DEF Inv
<1> QED
  BY <1>1, InvCorrect, PTL

\* server.c's clnt_cnt is the number of clients to serve whatever happens; its clnt_socks
\* are their sockets unless a thread has started late or a client has left that was not
\* in the last entry.
THEOREM TableIsRightCorrect == Spec => []TableIsRight
<1>1. ASSUME Inv PROVE TableIsRight
  <2>1. clnt_cnt = Cardinality(Registered) + (IF main = "create" THEN 1 ELSE 0)
    BY <1>1 DEF Inv, Counted
  <2>2. ASSUME main = "accept", mishaps \cap {"late", "middle"} = {}, \A t \in Threads : pc[t] # "born"
        PROVE  {clnt_socks[i] : i \in 0 .. clnt_cnt - 1} = {sock[t] : t \in Registered}
    <3>1. Entry = {} /\ Serving = Registered
      BY <2>2 DEF Entry, Serving, Registered
    <3>2. Listed
      BY <1>1 DEF Inv
    <3>3. {clnt_socks[i] : i \in 0 .. clnt_cnt - 1} = {sock[t] : t \in Serving} \cup Entry
      BY <2>2, <3>2, Zenon DEF Listed
    <3> QED
      BY <3>1, <3>3
  <2> QED
    BY <2>1, <2>2 DEF TableIsRight
<1> QED
  BY <1>1, InvCorrect, PTL

\* accept() only returns a descriptor that a thread still has once a thread has copied
\* main()'s clnt_sock too late (server.c's handle_clnt has its address, not its value).
THEOREM ReusedOnlyWhenLate == Spec => []("reused" \in mishaps => "late" \in mishaps)
<1>1. Inv => ("reused" \in mishaps => "late" \in mishaps)
  BY DEF Inv, Prompt
<1> QED
  BY <1>1, InvCorrect, PTL

-------------------------------------------------------------------------------
(* Loops: functions that are defined by recursion on 0 .. n. *)

\* Induction up to n, for the numbers that are in S.
LEMMA UpTo ==
  ASSUME NEW n \in Nat, NEW S, 0 \in S, \A k \in 1 .. n : k - 1 \in S => k \in S
  PROVE  \A k \in 0 .. n : k \in S
<1> DEFINE B == {k \in 0 .. n : k \notin S}
<1>1. B \in SUBSET Nat
  OBVIOUS
<1>2. ASSUME B # {} PROVE FALSE
  <2> DEFINE m == Min(B)
  <2>1. m \in B /\ \A y \in B : m <= y
    <3> HIDE DEF B
    <3> QED
      BY <1>1, <1>2, MinIs
  <2> HIDE DEF m
  <2>2. m \in 1 .. n /\ m - 1 \in 0 .. n /\ ~ (m <= m - 1)
    BY <2>1
  <2> QED
    BY <2>1, <2>2
<1> QED
  BY <1>2

\* The bodies of a loop of n turns over D.
Bodies(n, D) == [1 .. n -> [D -> D]]

\* f has the values of the loop from its beginning with b on.
IsLoop(f, n, D, b, G) ==
  f \in [0 .. n -> D] /\ f[0] = b /\ \A k \in 1 .. n : f[k] = G[k][f[k - 1]]

LEMMA LoopExists ==
  ASSUME NEW n \in Nat, NEW D, NEW b \in D, NEW G \in Bodies(n, D)
  PROVE  \E f : IsLoop(f, n, D, b, G)
<1> USE DEF Bodies, IsLoop
<1> DEFINE Upto(m) == \E f \in [0 .. n -> D] : f[0] = b /\ \A k \in 1 .. m : f[k] = G[k][f[k - 1]]
           S == {m \in 0 .. n : Upto(m)}
<1>1. 0 \in S
  <2>1. PICK f \in [0 .. n -> D] : f = [k \in 0 .. n |-> b]
    OBVIOUS
  <2>2. Upto(0)
    BY <2>1
  <2> QED
    BY <2>2
<1>2. ASSUME NEW m \in 1 .. n, m - 1 \in S PROVE m \in S
  <2>1. PICK f \in [0 .. n -> D] : f[0] = b /\ \A k \in 1 .. m - 1 : f[k] = G[k][f[k - 1]]
    BY <1>2
  <2> DEFINE g == [f EXCEPT ![m] = G[m][f[m - 1]]]
  <2>2. G[m][f[m - 1]] \in D
    OBVIOUS
  <2>3. g \in [0 .. n -> D] /\ g[0] = b /\ g[m] = G[m][f[m - 1]]
        /\ \A k \in 0 .. n : k # m => g[k] = f[k]
    BY <2>1, <2>2
  <2> HIDE DEF g
  <2>4. \A k \in 1 .. m : g[k] = G[k][g[k - 1]]
    BY <2>1, <2>3
  <2> QED
    BY <2>3, <2>4
<1>3. n \in S
  <2> HIDE DEF S
  <2>1. \A k \in 0 .. n : k \in S
    BY <1>1, <1>2, UpTo, Zenon
  <2> QED
    BY <2>1
<1> QED
  BY <1>3

-------------------------------------------------------------------------------
(* bubbleSort *)

LEMMA ElementIs ==
  ASSUME NEW S, NEW s \in Seq(S), NEW k \in 1 .. Len(s)
  PROVE  s[k] \in S
OBVIOUS

\* The arrays of n elements of S.
ArraysOf(S, n) == {a \in Seq(S) : Len(a) = n}

LEMMA ComparedIs ==
  ASSUME NEW S, NEW n \in Nat, NEW j \in 1 .. n - 1, NEW a \in ArraysOf(S, n)
  PROVE  /\ Compared(S, j)[a] \in ArraysOf(S, n)
         /\ OutOfOrder(a[j], a[j + 1]) =>
              /\ Compared(S, j)[a][j] = a[j + 1] /\ Compared(S, j)[a][j + 1] = a[j]
              /\ \A k \in 1 .. n : k \notin {j, j + 1} => Compared(S, j)[a][k] = a[k]
         /\ ~ OutOfOrder(a[j], a[j + 1]) => Compared(S, j)[a] = a
<1>1. a \in Seq(S) /\ Len(a) = n /\ j \in 1 .. n /\ j + 1 \in 1 .. n
  BY DEF ArraysOf
<1>2. Compared(S, j)[a] =
        IF OutOfOrder(a[j], a[j + 1]) THEN [a EXCEPT ![j] = a[j + 1], ![j + 1] = a[j]] ELSE a
  BY <1>1 DEF Compared
<1> DEFINE b == [a EXCEPT ![j] = a[j + 1], ![j + 1] = a[j]]
<1>3. b \in Seq(S) /\ Len(b) = n /\ b[j] = a[j + 1] /\ b[j + 1] = a[j]
      /\ \A k \in 1 .. n : k \notin {j, j + 1} => b[k] = a[k]
  BY <1>1
<1> QED
  BY <1>2, <1>3 DEF ArraysOf

\* f has the arrays of the inner loop.
IsTurn(f, S, n, p, a) ==
  /\ f \in [0 .. p -> ArraysOf(S, n)]
  /\ f[0] = a /\ \A j \in 1 .. p : f[j] = Compared(S, j)[f[j - 1]]
  /\ BubbleTurn(S, p)[a] = f[p]

LEMMA TurnIs ==
  ASSUME NEW S, NEW n \in Nat, NEW p \in 0 .. n - 1, NEW a \in ArraysOf(S, n)
  PROVE  \E f : IsTurn(f, S, n, p, a)
<1> DEFINE D == ArraysOf(S, n)
           T(f) == [j \in 0 .. p |-> IF j = 0 THEN a ELSE Compared(S, j)[f[j - 1]]]
           c == CHOOSE f : f = T(f)
<1>1. BubbleTurn(S, p)[a] = c[p]
  <2>1. a \in Seq(S)
    BY DEF ArraysOf
  <2> QED
    BY <2>1, Zenon DEF BubbleTurn
<1>2. \A j \in 1 .. p : \A d \in D : Compared(S, j)[d] \in D
  <2>1. \A j \in 1 .. p : j \in 1 .. n - 1
    OBVIOUS
  <2> QED
    BY <2>1, ComparedIs
<1>3. \E f : f = T(f)
  <2> DEFINE G == [j \in 1 .. p |-> [d \in D |-> Compared(S, j)[d]]]
  <2> HIDE DEF D
  <2>1. G \in [1 .. p -> [D -> D]]
    BY <1>2
  <2>2. a \in D /\ p \in Nat
    BY DEF D
  <2>3. PICK f \in [0 .. p -> D] : f[0] = a /\ \A j \in 1 .. p : f[j] = G[j][f[j - 1]]
    <3> HIDE DEF G
    <3>1. G \in Bodies(p, D)
      BY <2>1 DEF Bodies
    <3>2. \E f : IsLoop(f, p, D, a, G)
      BY <2>2, <3>1, LoopExists
    <3> QED
      BY <3>2 DEF IsLoop
  <2>4. \A j \in 1 .. p : f[j] = Compared(S, j)[f[j - 1]]
    <3>1. \A j \in 1 .. p : f[j - 1] \in D
      BY <2>3
    <3> QED
      BY <2>3, <3>1
  <2>5. f = T(f)
    BY <2>3, <2>4
  <2> QED
    BY <2>5
<1>4. c = T(c)
  BY <1>3
<1> HIDE DEF c
<1>5. c[0] = a /\ \A j \in 1 .. p : c[j] = Compared(S, j)[c[j - 1]]
  BY <1>4
<1>6. \A j \in 0 .. p : j \in {k \in 0 .. p : c[k] \in D}
  <2> DEFINE I == {k \in 0 .. p : c[k] \in D}
  <2>1. 0 \in I
    BY <1>5
  <2>2. \A j \in 1 .. p : j - 1 \in I => j \in I
    BY <1>2, <1>5
  <2>3. p \in Nat
    OBVIOUS
  <2> HIDE DEF I
  <2>4. \A j \in 0 .. p : j \in I
    BY <2>1, <2>2, <2>3, UpTo, Zenon
  <2> QED
    BY <2>4 DEF I
<1>7. c \in [0 .. p -> D]
  BY <1>4, <1>6
<1> QED
  BY <1>1, <1>5, <1>7 DEF IsTurn

\* The arrays of the outer loop, when all of arr is sorted.
LEMMA SortIs ==
  ASSUME NEW R, NEW arr \in Seq(R)
  PROVE  /\ arr \in ArraysOf(ToSet(arr), Len(arr))
         /\ \E f \in [0 .. Len(arr) -> ArraysOf(ToSet(arr), Len(arr))] :
              /\ f[0] = arr
              /\ \A i \in 1 .. Len(arr) : f[i] = BubbleTurn(ToSet(arr), Len(arr) - i)[f[i - 1]]
              /\ BubbleSort(arr, Len(arr)) = f[Len(arr)]
<1> DEFINE n == Len(arr)
           S == ToSet(arr)
           D == ArraysOf(S, n)
           T(f) == [i \in 0 .. n |-> IF i = 0 THEN arr
                                     ELSE BubbleTurn(S, Pairs(n, i - 1))[f[i - 1]]]
           c == CHOOSE f : f = T(f)
<1>0. n \in Nat /\ arr \in D
  BY DEF ArraysOf, ToSet
<1>1. BubbleSort(arr, n) = c[n]
  BY Zenon DEF BubbleSort
<1>2. \A i \in 1 .. n : Pairs(n, i - 1) = n - i /\ n - i \in 0 .. n - 1
  BY <1>0 DEF Pairs
<1> HIDE DEF n, S
<1>3. \A i \in 1 .. n : \A d \in D : BubbleTurn(S, n - i)[d] \in D
  <2> SUFFICES ASSUME NEW i \in 1 .. n, NEW d \in D PROVE BubbleTurn(S, n - i)[d] \in D
    OBVIOUS
  <2>1. PICK p \in 0 .. n - 1 : p = n - i
    BY <1>2
  <2>2. d \in ArraysOf(S, n)
    OBVIOUS
  <2>3. PICK f : IsTurn(f, S, n, p, d)
    BY <1>0, <2>2, TurnIs
  <2>4. f \in [0 .. p -> ArraysOf(S, n)] /\ BubbleTurn(S, p)[d] = f[p]
    BY <2>3 DEF IsTurn
  <2>5. p \in 0 .. p
    OBVIOUS
  <2> QED
    BY <2>1, <2>4, <2>5
<1>4. \E f : f = T(f)
  <2> DEFINE G == [i \in 1 .. n |-> [d \in D |-> BubbleTurn(S, n - i)[d]]]
  <2> HIDE DEF D
  <2>1. G \in Bodies(n, D)
    BY <1>3 DEF Bodies
  <2>2. PICK f : IsLoop(f, n, D, arr, G)
    <3> HIDE DEF G
    <3> QED
      BY <1>0, <2>1, LoopExists
  <2>3. f \in [0 .. n -> D] /\ f[0] = arr /\ \A i \in 1 .. n : f[i] = G[i][f[i - 1]]
    BY <2>2 DEF IsLoop
  <2>4. \A i \in 1 .. n : f[i] = BubbleTurn(S, n - i)[f[i - 1]]
    <3>1. \A i \in 1 .. n : f[i - 1] \in D
      BY <1>0, <2>3
    <3> QED
      BY <2>3, <3>1
  <2>5. f = T(f)
    BY <1>0, <1>2, <2>3, <2>4
  <2> QED
    BY <2>5
<1>5. c = T(c)
  BY <1>4
<1> HIDE DEF c
<1>6. c[0] = arr /\ \A i \in 1 .. n : c[i] = BubbleTurn(S, n - i)[c[i - 1]]
  <2>1. 0 \in 0 .. n /\ \A i \in 1 .. n : i \in 0 .. n /\ i # 0
    BY <1>0
  <2>2. c[0] = arr
    BY <1>5, <2>1
  <2>3. \A i \in 1 .. n : c[i] = BubbleTurn(S, Pairs(n, i - 1))[c[i - 1]]
    BY <1>5, <2>1
  <2> QED
    BY <1>2, <2>2, <2>3
<1>7. \A i \in 0 .. n : c[i] \in D
  <2> DEFINE I == {k \in 0 .. n : c[k] \in D}
  <2>1. 0 \in I
    BY <1>0, <1>6
  <2>2. \A i \in 1 .. n : i - 1 \in I => i \in I
    <3> HIDE DEF D
    <3> QED
      BY <1>0, <1>3, <1>6
  <2> HIDE DEF I
  <2>3. \A i \in 0 .. n : i \in I
    BY <1>0, <2>1, <2>2, UpTo, Zenon
  <2> QED
    BY <2>3 DEF I
<1>8. c \in [0 .. n -> D]
  BY <1>5, <1>7
<1>9. \E f \in [0 .. n -> D] :
        /\ f[0] = arr /\ \A i \in 1 .. n : f[i] = BubbleTurn(S, n - i)[f[i - 1]]
        /\ BubbleSort(arr, n) = f[n]
  BY <1>1, <1>6, <1>8
<1> QED
  BY <1>0, <1>9 DEF n, S

-------------------------------------------------------------------------------
(* What the loops do to the array. *)

\* pi says where in s the entries of b come from: each from another place, and
\* those of equal count in the order they have in s.
Arranges(pi, b, s) ==
  /\ pi \in [1 .. Len(s) -> 1 .. Len(s)]
  /\ Len(b) = Len(s)
  /\ \A k \in 1 .. Len(s) : b[k] = s[pi[k]]
  /\ \A k, l \in 1 .. Len(s) : k < l =>
       pi[k] # pi[l] /\ (b[k].cnt = b[l].cnt => pi[k] < pi[l])

Arranged(b, s) == \E pi : Arranges(pi, b, s)

LEMMA ComparedArranged ==
  ASSUME NEW R, \A r \in R : r.cnt \in Int, NEW n \in Nat, NEW s \in ArraysOf(R, n),
         NEW b \in ArraysOf(R, n), Arranged(b, s), NEW j \in 1 .. n - 1
  PROVE  Arranged(Compared(R, j)[b], s)
<1> DEFINE c == Compared(R, j)[b]
<1>1. PICK pi : Arranges(pi, b, s)
  BY DEF Arranged
<1>2. Len(s) = n /\ Len(b) = n /\ j \in 1 .. n /\ j + 1 \in 1 .. n
      /\ \A k \in 1 .. n : b[k] \in R
  BY ElementIs DEF ArraysOf
<1>3. CASE ~ OutOfOrder(b[j], b[j + 1])
  <2>1. c = b
    BY <1>3, ComparedIs
  <2> QED
    BY <2>1
<1>4. CASE OutOfOrder(b[j], b[j + 1])
  <2> DEFINE rho == [pi EXCEPT ![j] = pi[j + 1], ![j + 1] = pi[j]]
  <2>1. /\ c \in ArraysOf(R, n) /\ c[j] = b[j + 1] /\ c[j + 1] = b[j]
        /\ \A k \in 1 .. n : k \notin {j, j + 1} => c[k] = b[k]
    BY <1>4, ComparedIs
  <2> HIDE DEF c
  <2>2. pi \in [1 .. n -> 1 .. n] /\ \A k \in 1 .. n : b[k] = s[pi[k]]
    BY <1>1, <1>2 DEF Arranges
  <2>3. /\ rho \in [1 .. n -> 1 .. n] /\ rho[j] = pi[j + 1] /\ rho[j + 1] = pi[j]
        /\ \A k \in 1 .. n : k \notin {j, j + 1} => rho[k] = pi[k]
    BY <1>2, <2>2
  <2> HIDE DEF rho
  <2>4. \A k \in 1 .. n : c[k] = s[rho[k]]
    BY <1>2, <2>1, <2>2, <2>3
  <2>5. b[j].cnt \in Int /\ b[j + 1].cnt \in Int /\ b[j].cnt # b[j + 1].cnt
    BY <1>2, <1>4 DEF OutOfOrder
  <2>6. \A k, l \in 1 .. n : k < l =>
          pi[k] # pi[l] /\ (b[k].cnt = b[l].cnt => pi[k] < pi[l])
    BY <1>1, <1>2 DEF Arranges
  <2>7. ASSUME NEW k \in 1 .. n, NEW l \in 1 .. n, k < l
        PROVE  rho[k] # rho[l] /\ (c[k].cnt = c[l].cnt => rho[k] < rho[l])
    <3>1. CASE k = j /\ l = j + 1
      <4>1. j < j + 1 /\ j \in 1 .. n /\ j + 1 \in 1 .. n
        BY <1>2
      <4>2. pi[j] # pi[j + 1]
        BY <2>6, <4>1
      <4>3. rho[k] = pi[j + 1] /\ rho[l] = pi[j] /\ c[k] = b[j + 1] /\ c[l] = b[j]
        BY <2>1, <2>3, <3>1
      <4>4. c[k].cnt = b[j + 1].cnt /\ c[l].cnt = b[j].cnt
        BY <4>3
      <4> QED
        BY <2>5, <4>2, <4>3, <4>4
    <3>2. CASE k = j /\ l # j + 1
      <4>1. l \notin {j, j + 1} /\ j + 1 < l
        BY <2>7, <3>2
      <4> QED
        BY <1>2, <2>1, <2>3, <2>6, <3>2, <4>1
    <3>3. CASE k = j + 1
      <4>1. l \notin {j, j + 1} /\ j < l
        BY <2>7, <3>3
      <4> QED
        BY <1>2, <2>1, <2>3, <2>6, <3>3, <4>1
    <3>4. CASE k \notin {j, j + 1} /\ l = j
      <4>1. k < j + 1
        BY <2>7, <3>4
      <4>2. pi[k] # pi[j + 1] /\ (b[k].cnt = b[j + 1].cnt => pi[k] < pi[j + 1])
        BY <1>2, <2>6, <4>1
      <4>3. rho[k] = pi[k] /\ c[k] = b[k] /\ rho[l] = pi[j + 1] /\ c[l] = b[j + 1]
        BY <2>1, <2>3, <3>4
      <4> QED
        BY <4>2, <4>3
    <3>5. CASE k \notin {j, j + 1} /\ l = j + 1
      <4>1. k < j
        BY <2>7, <3>5
      <4>2. pi[k] # pi[j] /\ (b[k].cnt = b[j].cnt => pi[k] < pi[j])
        BY <1>2, <2>6, <4>1
      <4>3. rho[k] = pi[k] /\ c[k] = b[k] /\ rho[l] = pi[j] /\ c[l] = b[j]
        BY <2>1, <2>3, <3>5
      <4> QED
        BY <4>2, <4>3
    <3>6. CASE k \notin {j, j + 1} /\ l \notin {j, j + 1}
      BY <2>1, <2>3, <2>6, <2>7, <3>6
    <3> QED
      BY <3>1, <3>2, <3>3, <3>4, <3>5, <3>6
  <2>8. Arranges(rho, c, s)
    BY <1>2, <2>1, <2>3, <2>4, <2>7 DEF Arranges, ArraysOf
  <2> QED
    BY <2>8 DEF Arranged, c
<1> QED
  BY <1>3, <1>4

\* The last i entries of b are where they belong.
Settled(b, n, i) ==
  \A k, l \in 1 .. n : k < l /\ n - i < l => b[k].cnt >= b[l].cnt

\* Entry j + 1 is the least so far.
Carried(b, j) == \A k \in 1 .. j : b[k].cnt >= b[j + 1].cnt

LEMMA ComparedCarries ==
  ASSUME NEW R, \A r \in R : r.cnt \in Int, NEW n \in Nat, NEW i \in 1 .. n,
         NEW b \in ArraysOf(R, n), Settled(b, n, i - 1),
         NEW j \in 1 .. n - i, Carried(b, j - 1)
  PROVE  Settled(Compared(R, j)[b], n, i - 1) /\ Carried(Compared(R, j)[b], j)
<1> DEFINE c == Compared(R, j)[b]
<1>1. Len(b) = n /\ j \in 1 .. n - 1 /\ j \in 1 .. n /\ j + 1 \in 1 .. n
      /\ \A k \in 1 .. n : b[k] \in R /\ b[k].cnt \in Int
  BY ElementIs DEF ArraysOf
<1>2. \A k \in 1 .. j - 1 : b[k].cnt >= b[j].cnt
  BY DEF Carried
<1>3. CASE ~ OutOfOrder(b[j], b[j + 1])
  <2>1. c = b
    BY <1>1, <1>3, ComparedIs
  <2>2. b[j].cnt >= b[j + 1].cnt
    BY <1>1, <1>3 DEF OutOfOrder
  <2>3. ASSUME NEW k \in 1 .. j PROVE b[k].cnt >= b[j + 1].cnt
    <3>1. k \in 1 .. n /\ (k = j \/ k \in 1 .. j - 1)
      BY <1>1
    <3>2. CASE k = j
      BY <2>2, <3>2
    <3>3. CASE k \in 1 .. j - 1
      <4>1. b[k].cnt >= b[j].cnt
        BY <1>2, <3>3
      <4>2. b[k].cnt \in Int /\ b[j].cnt \in Int /\ b[j + 1].cnt \in Int
        BY <1>1, <3>1
      <4> QED
        BY <2>2, <4>1, <4>2
    <3> QED
      BY <3>1, <3>2, <3>3
  <2> QED
    BY <2>1, <2>3 DEF Carried
<1>4. CASE OutOfOrder(b[j], b[j + 1])
  <2>1. /\ c[j] = b[j + 1] /\ c[j + 1] = b[j]
        /\ \A k \in 1 .. n : k \notin {j, j + 1} => c[k] = b[k]
    <3>1. n \in Nat /\ j \in 1 .. n - 1 /\ b \in ArraysOf(R, n)
      BY <1>1
    <3> QED
      BY <1>4, <3>1, ComparedIs
  <2> HIDE DEF c
  <2>2. b[j].cnt < b[j + 1].cnt
    BY <1>4 DEF OutOfOrder
  <2>3. ASSUME NEW k \in 1 .. j PROVE c[k].cnt >= c[j + 1].cnt
    <3>1. CASE k = j
      BY <1>1, <2>1, <2>2, <3>1
    <3>2. CASE k # j
      <4>1. k \in 1 .. n /\ k \in 1 .. j - 1 /\ k # j + 1
        BY <1>1, <3>2
      <4> QED
        BY <1>1, <1>2, <2>1, <2>2, <3>2, <4>1
    <3> QED
      BY <3>1, <3>2
  <2>4. ASSUME NEW k \in 1 .. n, NEW l \in 1 .. n, k < l, n - (i - 1) < l
        PROVE  c[k].cnt >= c[l].cnt
    <3>1. j + 1 < l /\ l \notin {j, j + 1}
      BY <2>4
    <3>2. \A m \in 1 .. n : m < l => b[m].cnt >= b[l].cnt
      BY <2>4 DEF Settled
    <3>3. b[j].cnt >= b[l].cnt /\ b[j + 1].cnt >= b[l].cnt /\ b[k].cnt >= b[l].cnt
      BY <1>1, <2>4, <3>1, <3>2
    <3>4. c[l] = b[l] /\ c[k] \in {b[k], b[j], b[j + 1]}
      BY <2>1, <3>1
    <3> QED
      BY <3>3, <3>4
  <2> QED
    BY <2>3, <2>4 DEF Carried, Settled, c
<1> QED
  BY <1>3, <1>4

\* One turn of the outer loop settles one more entry.
LEMMA TurnSettles ==
  ASSUME NEW R, \A r \in R : r.cnt \in Int, NEW n \in Nat, NEW i \in 1 .. n,
         NEW s \in ArraysOf(R, n), NEW b \in ArraysOf(R, n), Arranged(b, s), Settled(b, n, i - 1)
  PROVE  /\ BubbleTurn(R, n - i)[b] \in ArraysOf(R, n)
         /\ Arranged(BubbleTurn(R, n - i)[b], s) /\ Settled(BubbleTurn(R, n - i)[b], n, i)
<1>1. PICK p \in 0 .. n - 1 : p = n - i
  OBVIOUS
<1>2. PICK f : IsTurn(f, R, n, p, b)
  BY TurnIs
<1>3. /\ f \in [0 .. p -> ArraysOf(R, n)] /\ f[0] = b
      /\ \A j \in 1 .. p : f[j] = Compared(R, j)[f[j - 1]] /\ f[j] \in ArraysOf(R, n)
      /\ BubbleTurn(R, n - i)[b] = f[p]
  BY <1>1, <1>2 DEF IsTurn
<1> DEFINE Q(j) == Arranged(f[j], s) /\ Settled(f[j], n, i - 1) /\ Carried(f[j], j)
           I == {j \in 0 .. p : Q(j)}
<1>4. 0 \in I
  BY <1>3 DEF Carried
<1>5. ASSUME NEW j \in 1 .. p, j - 1 \in I PROVE j \in I
  <2>1. /\ f[j - 1] \in ArraysOf(R, n) /\ Arranged(f[j - 1], s)
        /\ Settled(f[j - 1], n, i - 1) /\ Carried(f[j - 1], j - 1)
    BY <1>3, <1>5
  <2>2. j \in 1 .. n - i /\ j \in 1 .. n - 1
    BY <1>1
  <2>3. Arranged(f[j], s)
    BY <1>3, <2>1, <2>2, ComparedArranged
  <2>4. Settled(f[j], n, i - 1) /\ Carried(f[j], j)
    BY <1>3, <2>1, <2>2, ComparedCarries
  <2> QED
    BY <2>3, <2>4
<1>6. Q(p)
  <2> HIDE DEF I
  <2>1. \A j \in 0 .. p : j \in I
    BY <1>4, <1>5, UpTo
  <2>2. p \in 0 .. p
    OBVIOUS
  <2> QED
    BY <2>1, <2>2 DEF I
<1>7. Settled(f[p], n, i)
  <2>1. ASSUME NEW k \in 1 .. n, NEW l \in 1 .. n, k < l, n - i < l
        PROVE  f[p][k].cnt >= f[p][l].cnt
    <3>1. CASE n - (i - 1) < l
      BY <1>6, <2>1, <3>1 DEF Settled
    <3>2. CASE l = p + 1
      <4>1. k \in 1 .. p
        BY <2>1, <3>2
      <4> QED
        BY <1>6, <3>2, <4>1 DEF Carried
    <3> QED
      BY <1>1, <2>1, <3>1, <3>2
  <2> QED
    BY <2>1 DEF Settled
<1> QED
  BY <1>3, <1>6, <1>7

\* bubbleSort sorts: what it leaves has the entries of the array, the greatest
\* counts first, and those of equal count in the order they came in.
THEOREM BubbleSortCorrect ==
  ASSUME NEW R, \A r \in R : r.cnt \in Int, NEW arr \in Seq(R)
  PROVE  /\ Arranged(BubbleSort(arr, Len(arr)), arr)
         /\ BubbleSort(arr, Len(arr)) \in Seq(R)
         /\ \A k, l \in 1 .. Len(arr) : k < l =>
              BubbleSort(arr, Len(arr))[k].cnt >= BubbleSort(arr, Len(arr))[l].cnt
<1> DEFINE n == Len(arr)
           S == ToSet(arr)
           D == ArraysOf(S, n)
<1>1. PICK f \in [0 .. n -> D] :
        /\ f[0] = arr /\ \A i \in 1 .. n : f[i] = BubbleTurn(S, n - i)[f[i - 1]]
        /\ BubbleSort(arr, n) = f[n]
  BY SortIs
<1>2. arr \in D
  BY SortIs
<1>3. n \in Nat /\ S \subseteq R
  BY DEF ToSet
<1>4. \A r \in S : r.cnt \in Int
  BY <1>3
<1> HIDE DEF n, S
<1> DEFINE I == {i \in 0 .. n : Arranged(f[i], arr) /\ Settled(f[i], n, i)}
<1>5. 0 \in I
  <2>1. Len(arr) = n
    BY DEF n
  <2>2. Arranges([k \in 1 .. n |-> k], arr, arr)
    BY <1>3, <2>1 DEF Arranges
  <2>3. Settled(arr, n, 0)
    BY <1>3 DEF Settled
  <2> QED
    BY <1>1, <1>3, <2>2, <2>3 DEF Arranged
<1>6. ASSUME NEW i \in 1 .. n, i - 1 \in I PROVE i \in I
  <2>1. f[i - 1] \in D /\ Arranged(f[i - 1], arr) /\ Settled(f[i - 1], n, i - 1)
    BY <1>1, <1>6
  <2>2. Arranged(BubbleTurn(S, n - i)[f[i - 1]], arr) /\ Settled(BubbleTurn(S, n - i)[f[i - 1]], n, i)
    BY <1>2, <1>3, <1>4, <2>1, TurnSettles
  <2> QED
    BY <1>1, <2>2
<1>7. Arranged(f[n], arr) /\ Settled(f[n], n, n) /\ f[n] \in D
  <2> HIDE DEF I
  <2>1. \A i \in 0 .. n : i \in I
    BY <1>3, <1>5, <1>6, UpTo
  <2>2. n \in 0 .. n
    BY <1>3
  <2> QED
    BY <1>1, <2>1, <2>2 DEF I
<1>8. \A k, l \in 1 .. n : k < l => f[n][k].cnt >= f[n][l].cnt
  BY <1>3, <1>7 DEF Settled
<1>9. f[n] \in Seq(R)
  BY <1>3, <1>7 DEF ArraysOf
<1> QED
  BY <1>1, <1>7, <1>8, <1>9 DEF n

-------------------------------------------------------------------------------
(* Answers. *)

Results == [word : Seq(Int), cnt : Int]

LEMMA DictIs ==
  /\ Len(Dict) \in Nat /\ DOMAIN Dict = 1 .. Len(Dict)
  /\ \A k \in DOMAIN Dict : Dict[k] \in Results /\ Dict[k].cnt \in Int
  /\ \A m : Matching(m) \subseteq 1 .. Len(Dict)
<1>1. Dict \in Seq(Results)
  BY SearchServerAssumption DEF Results
<1>2. Len(Dict) \in Nat /\ DOMAIN Dict = 1 .. Len(Dict)
  BY <1>1
<1>3. ASSUME NEW k \in DOMAIN Dict PROVE Dict[k] \in Results /\ Dict[k].cnt \in Int
  <2>1. Dict[k] \in Results
    BY <1>1, <1>2, ElementIs
  <2> QED
    BY <2>1 DEF Results
<1> QED
  BY <1>2, <1>3 DEF Matching

\* arr has the words of the dictionary up to place last that match m, in the
\* dictionary's order, and h has their places.
Lists(h, arr, m, last) ==
  /\ arr \in Seq(Results)
  /\ h \in [1 .. Len(arr) -> Matching(m)]
  /\ \A i \in 1 .. Len(arr) : arr[i] = Dict[h[i]] /\ h[i] <= last
  /\ \A i, j \in 1 .. Len(arr) : i < j => h[i] < h[j]
  /\ \A k \in Matching(m) : k <= last => \E i \in 1 .. Len(arr) : h[i] = k

Listing(arr, m, last) == \E h : Lists(h, arr, m, last)

\* r has places of the matching words, in the order of an answer.
Ranks(r, m) ==
  /\ r \in [1 .. Cardinality(Matching(m)) -> Matching(m)]
  /\ \A i, j \in DOMAIN r : i < j => Better(r[i], r[j])

\* The place of an entry is its rank.
LEMMA RankIs ==
  ASSUME NEW m, NEW r, Ranks(r, m), NEW k \in 1 .. Cardinality(Matching(m))
  PROVE  \A j \in Matching(m) : Rank(m, j) = k <=> j = r[k]
<1> DEFINE M == Matching(m)
           n == Cardinality(M)
<1>1. IsFiniteSet(M) /\ n \in Nat /\ M \subseteq 1 .. Len(Dict)
  <2>1. M \subseteq 1 .. Len(Dict) /\ Len(Dict) \in Nat
    BY DictIs
  <2>2. IsFiniteSet(1 .. Len(Dict))
    BY <2>1, FS_Interval
  <2> HIDE DEF M
  <2> QED
    BY <2>1, <2>2, FS_Subset, FS_CardinalityType
<1> HIDE DEF n
<1>2. r \in [1 .. n -> M] /\ \A i, j \in 1 .. n : i < j => Better(r[i], r[j])
  BY DEF Ranks, n
<1>3. \A i, j \in M : Better(i, j) => i # j /\ ~ Better(j, i)
  <2>1. \A i \in M : i \in Int /\ Dict[i].cnt \in Int
    BY <1>1, DictIs
  <2> HIDE DEF M
  <2> QED
    BY <2>1 DEF Better
<1> HIDE DEF M
<1>4. ASSUME NEW i \in 1 .. n, NEW j \in 1 .. n
      PROVE  (Better(r[i], r[j]) <=> i < j) /\ (r[i] = r[j] => i = j)
  <2>1. r[i] \in M /\ r[j] \in M /\ i \in Int /\ j \in Int
    BY <1>2
  <2>2. CASE i < j
    <3>1. Better(r[i], r[j])
      BY <1>2, <2>2
    <3> QED
      BY <1>3, <2>1, <2>2, <3>1
  <2>3. CASE j < i
    <3>1. Better(r[j], r[i]) /\ ~ (i < j)
      BY <1>2, <2>1, <2>3
    <3> QED
      BY <1>3, <2>1, <3>1
  <2>4. CASE i = j
    <3>1. ~ Better(r[i], r[j]) /\ ~ (i < j)
      BY <1>3, <2>1, <2>4
    <3> QED
      BY <2>4, <3>1
  <2>5. i < j \/ j < i \/ i = j
    BY <2>1
  <2> QED
    BY <2>2, <2>3, <2>4, <2>5
<1>5. \A i, j \in 1 .. n : r[i] = r[j] => i = j
  BY <1>4
<1>6. \A j \in M : \E i \in 1 .. n : r[i] = j
  <2>1. r \in Injection(1 .. n, M)
    BY <1>2, <1>5 DEF Injection, IsInjective
  <2>2. Cardinality(1 .. n) = n
    BY <1>1, FS_Interval
  <2>3. r \in Surjection(1 .. n, M)
    BY <1>1, <2>1, <2>2, FS_Injection DEF n
  <2> QED
    BY <2>3 DEF Surjection
<1>7. ASSUME NEW i \in 1 .. n PROVE Rank(m, r[i]) = i
  <2> DEFINE B == {j \in M : Better(j, r[i])}
             g == [l \in 1 .. i - 1 |-> r[l]]
  <2>1. \A l \in 1 .. i - 1 : l \in 1 .. n /\ l < i
    BY <1>1
  <2>2. g \in [1 .. i - 1 -> B]
    BY <1>2, <2>1
  <2>3. \A a, b \in 1 .. i - 1 : g[a] = g[b] => a = b
    BY <1>5, <2>1
  <2>4. \A j \in B : \E l \in 1 .. i - 1 : g[l] = j
    <3> SUFFICES ASSUME NEW j \in B PROVE \E l \in 1 .. i - 1 : g[l] = j
      OBVIOUS
    <3>1. PICK l \in 1 .. n : r[l] = j
      BY <1>6
    <3>2. l < i
      BY <1>4, <3>1
    <3>3. l \in 1 .. i - 1
      BY <1>1, <3>2
    <3> QED
      BY <3>1, <3>3
  <2> HIDE DEF g, B
  <2>5. g \in Bijection(1 .. i - 1, B)
    BY <2>2, <2>3, <2>4 DEF Bijection, Injection, Surjection, IsInjective
  <2>6. IsFiniteSet(1 .. i - 1) /\ Cardinality(1 .. i - 1) = i - 1
    BY <1>1, FS_Interval
  <2>7. Cardinality(B) = i - 1
    BY <2>5, <2>6, FS_Bijection DEF ExistsBijection
  <2> QED
    BY <2>7 DEF Rank, B, M
<1>8. k \in 1 .. n
  BY DEF n, M
<1> QED
  BY <1>5, <1>6, <1>7, <1>8 DEF M

\* An array that is ranked is the answer, as far as that goes.
LEMMA RankedIsRight ==
  ASSUME NEW m, NEW r, Ranks(r, m), NEW n, n = Cardinality(Matching(m)),
         NEW b \in Seq(Results), Len(b) = n, \A k \in 1 .. n : b[k] = Dict[r[k]]
  PROVE  TopList(b, n) = RightAnswer(m)
<1>1. n \in Nat /\ MaxLines \in Nat
  BY MaxLinesAssumption
<1> DEFINE q == IF n > MaxLines THEN MaxLines ELSE n
<1>2. q = Min({MaxLines, n})
  <2>1. q \in {MaxLines, n} /\ \A y \in {MaxLines, n} : q <= y
    BY <1>1
  <2>2. {MaxLines, n} \in SUBSET Nat
    BY <1>1
  <2>3. Min({MaxLines, n}) \in {MaxLines, n} /\ \A y \in {MaxLines, n} : Min({MaxLines, n}) <= y
    BY <2>2, MinIs
  <2> QED
    BY <1>1, <2>1, <2>3
<1>3. q \in Nat /\ q <= n
  BY <1>1
<1>4. ASSUME NEW k \in 1 .. q PROVE Dict[CHOOSE j \in Matching(m) : Rank(m, j) = k] = b[k]
  <2>1. k \in 1 .. n
    BY <1>3
  <2>2. \A j \in Matching(m) : Rank(m, j) = k <=> j = r[k]
    BY <2>1, RankIs
  <2>3. r[k] \in Matching(m)
    BY <2>1 DEF Ranks
  <2>4. (CHOOSE j \in Matching(m) : Rank(m, j) = k) = r[k]
    BY <2>2, <2>3
  <2> QED
    BY <2>1, <2>4
<1>5. TopList(b, n) = [k \in 1 .. q |-> b[k]]
  <2>1. TopList(b, n) = SubSeq(b, 1, q)
    BY DEF TopList
  <2> HIDE DEF q
  <2> QED
    BY <1>3, <2>1
<1>6. RightAnswer(m) = [k \in 1 .. q |-> Dict[CHOOSE j \in Matching(m) : Rank(m, j) = k]]
  BY <1>2 DEF RightAnswer
<1> HIDE DEF q
<1> QED
  BY <1>4, <1>5, <1>6

LEMMA ListingStart ==
  ASSUME NEW m
  PROVE  Listing(<< >>, m, 0)
<1>1. \A k \in Matching(m) : ~ (k <= 0)
  BY DictIs
<1> DEFINE h == [i \in 1 .. Len(<< >>) |-> CHOOSE k \in Matching(m) : TRUE]
<1>2. Lists(h, << >>, m, 0)
  BY <1>1 DEF Lists
<1> QED
  BY <1>2 DEF Listing

LEMMA ListingGrows ==
  ASSUME NEW m, NEW arr, NEW last \in Int, Listing(arr, m, last),
         NEW k \in Matching(m), last < k, \A j \in Matching(m) : last < j => k <= j
  PROVE  Listing(Append(arr, Dict[k]), m, k)
<1>1. PICK h : Lists(h, arr, m, last)
  BY DEF Listing
<1> DEFINE n == Len(arr)
           g == [i \in 1 .. n + 1 |-> IF i = n + 1 THEN k ELSE h[i]]
           b == Append(arr, Dict[k])
<1>2. /\ arr \in Seq(Results) /\ n \in Nat /\ h \in [1 .. n -> Matching(m)]
      /\ \A i \in 1 .. n : arr[i] = Dict[h[i]] /\ h[i] <= last
      /\ \A i, j \in 1 .. n : i < j => h[i] < h[j]
      /\ \A j \in Matching(m) : j <= last => \E i \in 1 .. n : h[i] = j
  BY <1>1 DEF Lists
<1>3. Dict[k] \in Results /\ \A j \in Matching(m) : j \in Int
  BY DictIs
<1>4. b \in Seq(Results) /\ Len(b) = n + 1 /\ b[n + 1] = Dict[k] /\ \A i \in 1 .. n : b[i] = arr[i]
  BY <1>2, <1>3
<1> HIDE DEF b, n
<1>5. g \in [1 .. n + 1 -> Matching(m)] /\ g[n + 1] = k /\ \A i \in 1 .. n : g[i] = h[i]
  BY <1>2
<1> HIDE DEF g
<1>6. \A i \in 1 .. n + 1 : i = n + 1 \/ i \in 1 .. n
  BY <1>2
<1>7. \A i \in 1 .. n + 1 : b[i] = Dict[g[i]] /\ g[i] <= k
  BY <1>2, <1>3, <1>4, <1>5, <1>6
<1>8. ASSUME NEW i \in 1 .. n + 1, NEW j \in 1 .. n + 1, i < j PROVE g[i] < g[j]
  <2>1. i \in 1 .. n
    BY <1>2, <1>8
  <2>2. CASE j = n + 1
    BY <1>2, <1>3, <1>5, <2>1, <2>2
  <2>3. CASE j \in 1 .. n
    BY <1>2, <1>5, <1>8, <2>1, <2>3
  <2> QED
    BY <1>6, <2>2, <2>3
<1>9. ASSUME NEW j \in Matching(m), j <= k PROVE \E i \in 1 .. n + 1 : g[i] = j
  <2>1. CASE j <= last
    <3>1. PICK i \in 1 .. n : h[i] = j
      BY <1>2, <2>1
    <3>2. i \in 1 .. n + 1
      BY <1>2
    <3> QED
      BY <1>5, <3>1, <3>2
  <2>2. CASE ~ (j <= last)
    <3>1. j = k
      BY <1>3, <1>9, <2>2
    <3>2. n + 1 \in 1 .. n + 1
      BY <1>2
    <3> QED
      BY <1>5, <3>1, <3>2
  <2> QED
    BY <2>1, <2>2
<1>10. Lists(g, b, m, k)
  BY <1>4, <1>5, <1>7, <1>8, <1>9 DEF Lists
<1> QED
  BY <1>10 DEF Listing, b

LEMMA ListingEnds ==
  ASSUME NEW m, NEW arr, NEW last \in Int, Listing(arr, m, last),
         \A j \in Matching(m) : ~ (last < j)
  PROVE  Listing(arr, m, Len(Dict))
<1>1. PICK h : Lists(h, arr, m, last)
  BY DEF Listing
<1>2. \A j \in Matching(m) : j \in Int /\ j <= Len(Dict) /\ j <= last
  BY DictIs
<1>3. Lists(h, arr, m, Len(Dict))
  BY <1>1, <1>2 DEF Lists
<1> QED
  BY <1>3 DEF Listing

\* An array that can be sent as an answer to m.
Ranked(b, m) ==
  /\ b \in Seq(Results) /\ Len(b) = Cardinality(Matching(m))
  /\ \E r : Ranks(r, m) /\ \A k \in 1 .. Len(b) : b[k] = Dict[r[k]]

\* All that matches is as much as has been listed.
LEMMA ListingCounts ==
  ASSUME NEW m, NEW arr, Listing(arr, m, Len(Dict))
  PROVE  Cardinality(Matching(m)) = Len(arr) /\ Len(arr) \in Nat /\ arr \in Seq(Results)
<1>1. PICK h : Lists(h, arr, m, Len(Dict))
  BY DEF Listing
<1>2. arr \in Seq(Results) /\ Len(arr) \in Nat
  BY <1>1 DEF Lists
<1> DEFINE n == Len(arr)
<1> HIDE DEF n
<1>3. /\ h \in [1 .. n -> Matching(m)] /\ n \in Nat
      /\ \A i, j \in 1 .. n : i < j => h[i] < h[j]
      /\ \A k \in Matching(m) : k <= Len(Dict) => \E i \in 1 .. n : h[i] = k
  BY <1>1, <1>2 DEF Lists, n
<1>4. \A k \in Matching(m) : k \in Int /\ k <= Len(Dict)
  BY DictIs
<1>5. \A i, j \in 1 .. n : h[i] = h[j] => i = j
  <2> SUFFICES ASSUME NEW i \in 1 .. n, NEW j \in 1 .. n, h[i] = h[j], i # j PROVE FALSE
    OBVIOUS
  <2>1. i < j \/ j < i
    OBVIOUS
  <2>2. h[i] \in Int /\ h[j] \in Int
    BY <1>3, <1>4
  <2> QED
    BY <1>3, <2>1, <2>2
<1>6. h \in Bijection(1 .. n, Matching(m))
  BY <1>3, <1>4, <1>5 DEF Bijection, Injection, Surjection, IsInjective
<1>7. Cardinality(1 .. n) = n /\ IsFiniteSet(1 .. n)
  BY <1>3, FS_Interval
<1>8. Cardinality(Matching(m)) = n
  BY <1>6, <1>7, FS_Bijection DEF ExistsBijection
<1> QED
  BY <1>2, <1>8 DEF n

\* Sorting what has been found in the dictionary's order gives the answer's order.
LEMMA SortedIsRanked ==
  ASSUME NEW m, NEW arr, Listing(arr, m, Len(Dict))
  PROVE  Ranked(BubbleSort(arr, Len(arr)), m)
<1> DEFINE b == BubbleSort(arr, Len(arr))
           n == Len(arr)
<1>1. n = Cardinality(Matching(m)) /\ n \in Nat /\ arr \in Seq(Results)
  BY ListingCounts
<1>2. PICK h : Lists(h, arr, m, Len(Dict))
  BY DEF Listing
<1>3. \A r \in Results : r.cnt \in Int
  BY DEF Results
<1>4. b \in Seq(Results) /\ Arranged(b, arr)
      /\ \A k, l \in 1 .. n : k < l => b[k].cnt >= b[l].cnt
  BY <1>1, <1>3, BubbleSortCorrect
<1> HIDE DEF b, n
<1>5. PICK pi : Arranges(pi, b, arr)
  BY <1>4 DEF Arranged
<1>6. /\ pi \in [1 .. n -> 1 .. n] /\ Len(b) = n
      /\ \A k \in 1 .. n : b[k] = arr[pi[k]]
      /\ \A k, l \in 1 .. n : k < l =>
           pi[k] # pi[l] /\ (b[k].cnt = b[l].cnt => pi[k] < pi[l])
  BY <1>5 DEF Arranges, n
<1>7. /\ h \in [1 .. n -> Matching(m)]
      /\ \A i \in 1 .. n : arr[i] = Dict[h[i]]
      /\ \A i, j \in 1 .. n : i < j => h[i] < h[j]
  BY <1>2 DEF Lists, n
<1> DEFINE r == [k \in 1 .. n |-> h[pi[k]]]
<1>8. r \in [1 .. n -> Matching(m)] /\ \A k \in 1 .. n : r[k] = h[pi[k]] /\ b[k] = Dict[r[k]]
  BY <1>6, <1>7
<1> HIDE DEF r
<1>9. ASSUME NEW i \in 1 .. n, NEW j \in 1 .. n, i < j PROVE Better(r[i], r[j])
  <2>1. r[i] \in Matching(m) /\ r[j] \in Matching(m)
    BY <1>8
  <2>2. Dict[r[i]].cnt \in Int /\ Dict[r[j]].cnt \in Int
    BY <2>1, DictIs
  <2>3. Dict[r[i]].cnt >= Dict[r[j]].cnt
    <3>1. b[i].cnt >= b[j].cnt
      BY <1>4, <1>9
    <3>2. b[i] = Dict[r[i]] /\ b[j] = Dict[r[j]]
      BY <1>8
    <3>3. b[i].cnt = Dict[r[i]].cnt /\ b[j].cnt = Dict[r[j]].cnt
      BY <3>2
    <3> QED
      BY <3>1, <3>3
  <2>4. ASSUME Dict[r[i]].cnt = Dict[r[j]].cnt PROVE r[i] < r[j]
    <3>1. b[i] = Dict[r[i]] /\ b[j] = Dict[r[j]]
      BY <1>8
    <3>2. b[i].cnt = b[j].cnt
      BY <2>4, <3>1
    <3>3. pi[i] < pi[j] /\ pi[i] \in 1 .. n /\ pi[j] \in 1 .. n
      BY <1>6, <1>9, <3>2
    <3>4. h[pi[i]] < h[pi[j]]
      BY <1>7, <3>3
    <3> QED
      BY <1>8, <3>4
  <2> QED
    BY <2>2, <2>3, <2>4 DEF Better
<1>10. Ranks(r, m)
  BY <1>1, <1>8, <1>9 DEF Ranks
<1> QED
  BY <1>1, <1>4, <1>6, <1>8, <1>10 DEF Ranked, b

LEMMA RankedIsAnswer ==
  ASSUME NEW m, NEW b, Ranked(b, m)
  PROVE  TopList(b, Len(b)) = RightAnswer(m)
BY RankedIsRight DEF Ranked

\* An array whose entries are all stored.
LEMMA EntriesAre ==
  ASSUME NEW R, NEW arr \in Seq(R)
  PROVE  /\ Max({Len(arr), Len(arr)}) = Len(arr) /\ Entries(arr, Len(arr)) = arr
         /\ Max({Len(arr), Len(arr) + 1}) = Len(arr) + 1
         /\ \A x \in R : [Entries(arr, Len(arr) + 1) EXCEPT ![Len(arr) + 1] = x] = Append(arr, x)
<1> DEFINE n == Len(arr)
<1>1. n \in Nat
  OBVIOUS
<1>2. \A k \in Nat : Max({k, k}) = k /\ Max({k, k + 1}) = k + 1
  BY DEF Max
<1>3. Entries(arr, n) = arr
  BY DEF Entries
<1>4. ASSUME NEW x \in R PROVE [Entries(arr, n + 1) EXCEPT ![n + 1] = x] = Append(arr, x)
  <2> DEFINE e == [Entries(arr, n + 1) EXCEPT ![n + 1] = x]
  <2>1. DOMAIN e = 1 .. n + 1 /\ e[n + 1] = x /\ \A k \in 1 .. n : e[k] = arr[k]
    BY <1>1 DEF Entries
  <2>2. e \in Seq(R) /\ Len(e) = n + 1
    <3>1. e \in [1 .. n + 1 -> R]
      BY <1>1, <2>1 DEF Entries
    <3> HIDE DEF e
    <3> QED
      BY <1>1, <3>1
  <2> HIDE DEF e
  <2>3. e = Append(arr, x)
    BY <2>1, <2>2
  <2> QED
    BY <2>3 DEF e
<1> QED
  BY <1>1, <1>2, <1>3, <1>4

\* An array after the n + 1-st entry has been stored, as Find does.
Store(arr, n, x) == [Entries(arr, Max({Len(arr), n + 1})) EXCEPT ![n + 1] = x]

\* The next entry is stored behind the others.
LEMMA Stored ==
  ASSUME NEW R, NEW arr \in Seq(R), NEW n, n = Len(arr), NEW x \in R
  PROVE  Store(arr, n, x) = Append(arr, x)
<1>1. n + 1 = Len(arr) + 1 /\ Max({Len(arr), n + 1}) = n + 1
  BY EntriesAre
<1>2. PICK e : e = Entries(arr, n + 1)
  OBVIOUS
<1>3. e = Entries(arr, Len(arr) + 1) /\ e = Entries(arr, Max({Len(arr), n + 1}))
  BY <1>1, <1>2
<1>4. [e EXCEPT ![Len(arr) + 1] = x] = Append(arr, x)
  BY <1>3, EntriesAre
<1>5. [e EXCEPT ![n + 1] = x] = Append(arr, x)
  BY <1>1, <1>4
<1> QED
  BY <1>3, <1>5 DEF Store

-------------------------------------------------------------------------------
(* Answers that are right. *)

\* The shared list and the threads' own, and the answers on their way.
Memory ==
  /\ DOMAIN msg = Threads /\ at \in [Threads -> Nat] /\ clean \in [Threads -> BOOLEAN]
  /\ res \in [Threads -> Arrays \cup {None}] /\ result \in Arrays \cup {None}
  /\ DOMAIN heap = Arrays
  /\ DOMAIN down = Clients /\ \A c \in Clients : \E A : down[c] \in Seq(A)
  /\ \A t \in Threads :
       /\ pc[t] # "find" => at[t] = 0
       /\ pc[t] \in {"fill", "find"} => result \in Arrays
       /\ pc[t] \in {"sort", "send"} => res[t] \in Arrays

\* The array of a thread that is busy.
Own(t) == IF Searching(t) THEN result ELSE res[t]

\* No other thread is in a search, nor has another the array.
Alone(t) ==
  \A u \in Threads \ {t} : ~ Searching(u) /\ (pc[t] # "alloc" => res[u] # Own(t))

\* How far the answer of thread t is, and that all of it is right.
Right(t) ==
  /\ Searching(t) => str0 = t
  /\ pc[t] \in {"alloc", "fill"} => result_cnt = 0
  /\ pc[t] = "fill" => heap[result] = << >>
  /\ pc[t] = "find" => Listing(heap[result], msg[t], at[t]) /\ result_cnt = Len(heap[result])
  /\ pc[t] = "sort" => Listing(heap[res[t]], msg[t], Len(Dict)) /\ rslt_cnt = Len(heap[res[t]])
  /\ pc[t] = "send" => Ranked(heap[res[t]], msg[t]) /\ rslt_cnt = Len(heap[res[t]])

\* A search that no other has got into.
Undisturbed == \A t \in Threads : clean[t] /\ Busy(t) => Alone(t) /\ Right(t)

\* There is an array for malloc() to return.
LEMMA AllocIs ==
  ASSUME Types, Memory, NEW t \in Threads, Alloc(t)
  PROVE  result' \in Arrays /\ \A u \in Threads : res[u] # result'
<1> DEFINE R == {res[u] : u \in Threads}
<1>1. N \in Nat /\ Threads = 1 .. N /\ Arrays = 1 .. N + 1 /\ Arrays \subseteq Nat
  BY NIs DEF Arrays, N
<1>2. Arrays \ R # {}
  <2> SUFFICES ASSUME \A a \in Arrays : \E u \in Threads : res[u] = a PROVE FALSE
    OBVIOUS
  <2> DEFINE g == [a \in Arrays |-> CHOOSE u \in Threads : res[u] = a]
  <2>1. \A a \in Arrays : g[a] \in Threads /\ res[g[a]] = a
    OBVIOUS
  <2> HIDE DEF g
  <2>2. \A a, b \in Arrays : g[a] = g[b] => a = b
    BY <2>1
  <2>3. g \in [Arrays -> Threads]
    BY <2>1 DEF g
  <2>4. g \in Injection(Arrays, Threads)
    BY <2>2, <2>3 DEF Injection, IsInjective
  <2>5. IsFiniteSet(Threads)
    BY NIs
  <2>6. Cardinality(Arrays) <= Cardinality(Threads)
    BY <2>4, <2>5, FS_Injection
  <2>7. PICK k \in Int : k = N + 1
    BY <1>1
  <2>8. Cardinality(1 .. k) = k
    BY <1>1, <2>7, FS_Interval
  <2>9. Cardinality(1 .. N) = N
    BY <1>1, FS_Interval
  <2>10. k <= N
    BY <1>1, <2>6, <2>7, <2>8, <2>9
  <2> QED
    BY <1>1, <2>7, <2>10
<1>3. Arrays \ R \in SUBSET Nat
  BY <1>1
<1>4. result' = Min(Arrays \ R)
  BY DEF Alloc
<1>5. result' \in Arrays \ R
  BY <1>2, <1>3, <1>4, MinIs
<1> QED
  BY <1>5

LEMMA MemoryNext ==
  ASSUME Types, Memory, [Next]_vars
  PROVE  Memory'
<1>1. ASSUME UNCHANGED <<at, res, result, heap, clean, down>>, DOMAIN msg' = Threads,
             \A u \in Threads : pc'[u] = pc[u] \/ (pc'[u] \notin {"fill", "find", "sort", "send"}
                                                   /\ pc[u] # "find")
      PROVE  Memory'
  BY <1>1 DEF Memory
<1>2. CASE MainThread
  <2>1. UNCHANGED <<msg, at, res, result, heap, clean, down>>
    BY <1>2 DEF MainThread, Accept, Register, Create, threadVars, sharedVars, netVars
  <2>2. \A u \in Threads : pc'[u] = pc[u] \/ (pc'[u] \notin {"fill", "find", "sort", "send"}
                                                   /\ pc[u] # "find")
    <3>1. CASE Accept \/ Register
      BY <3>1 DEF Accept, Register, threadVars
    <3>2. CASE Create
      <4>1. main = "create" /\ created' = created + 1 /\ pc' = [pc EXCEPT ![created'] = "born"]
        BY <3>2 DEF Create
      <4>2. created \in Nat /\ created' > created
        BY <4>1, NIs DEF Types
      <4>3. created' \in Threads => pc[created'] = "unborn"
        BY <4>2 DEF Types
      <4>4. \A u \in Threads : pc'[u] = pc[u] \/ (u = created' /\ pc'[u] = "born")
        BY <4>1 DEF Types
      <4> QED
        BY <4>3, <4>4
    <3> QED
      BY <1>2, <3>1, <3>2 DEF MainThread
  <2> QED
    BY <1>1, <2>1, <2>2 DEF Memory
<1>3. ASSUME NEW t \in Threads, ClientThread(t) PROVE Memory'
  <2>1. CASE Start(t) \/ ReadQuery(t) \/ ReadEnd(t) \/ RemoveSock(t) \/ Close(t)
    <3>1. UNCHANGED <<at, res, result, heap, clean, down>> /\ DOMAIN msg' = Threads
      BY <2>1 DEF Start, ReadQuery, ReadEnd, RemoveSock, Close, sharedVars, netVars, Memory
    <3>2. \A u \in Threads : pc'[u] = pc[u] \/ (pc'[u] \notin {"fill", "find", "sort", "send"}
                                                   /\ pc[u] # "find")
      BY <2>1 DEF Start, ReadQuery, ReadEnd, RemoveSock, Close, Types, AfterEnd
    <3> QED
      BY <1>1, <3>1, <3>2
  <2>2. CASE Begin(t)
    <3>1. UNCHANGED <<msg, at, res, result, heap, down>> /\ pc' = [pc EXCEPT ![t] = "alloc"]
          /\ pc[t] = "begin"
      BY <2>2 DEF Begin, netVars
    <3>2. clean' \in [Threads -> BOOLEAN]
      BY <2>2 DEF Begin, Memory
    <3> QED
      BY <3>1, <3>2 DEF Memory, Types
  <2>3. CASE Alloc(t)
    <3>1. UNCHANGED <<msg, at, res, clean, down>> /\ pc' = [pc EXCEPT ![t] = "fill"]
          /\ pc[t] = "alloc" /\ heap' = [heap EXCEPT ![result'] = << >>]
      BY <2>3 DEF Alloc, netVars
    <3>2. result' \in Arrays
      BY <2>3, AllocIs
    <3> QED
      BY <3>1, <3>2 DEF Memory, Types
  <2>4. CASE Fill(t)
    <3>1. UNCHANGED <<msg, at, res, result, heap, clean, down>> /\ pc' = [pc EXCEPT ![t] = "find"]
          /\ pc[t] = "fill"
      BY <2>4 DEF Fill, sharedVars, netVars
    <3> QED
      BY <3>1 DEF Memory, Types
  <2>5. CASE Find(t)
    <3>1. UNCHANGED <<pc, msg, res, result, clean, down>> /\ pc[t] = "find" /\ DOMAIN heap' = DOMAIN heap
      BY <2>5 DEF Find, netVars
    <3>2. PICK k \in at[t] + 1 .. Len(Dict) : at' = [at EXCEPT ![t] = k]
      BY <2>5 DEF Find
    <3>3. k \in Nat
      BY <3>2, DictIs DEF Memory
    <3>4. at' \in [Threads -> Nat] /\ \A u \in Threads \ {t} : at'[u] = at[u]
      BY <3>2, <3>3 DEF Memory
    <3> QED
      BY <3>1, <3>4 DEF Memory
  <2>6. CASE FindNowhere(t)
    <3>1. UNCHANGED <<pc, msg, at, res, result, heap, clean, down>>
      BY <2>6 DEF FindNowhere, threadVars, sharedVars, netVars
    <3> QED
      BY <1>1, <3>1 DEF Memory
  <2>7. CASE End(t)
    <3>1. UNCHANGED <<msg, result, heap, clean, down>> /\ pc[t] = "find"
          /\ pc' = [pc EXCEPT ![t] = "sort"] /\ res' = [res EXCEPT ![t] = result]
          /\ at' = [at EXCEPT ![t] = 0]
      BY <2>7 DEF End, netVars
    <3> QED
      BY <3>1 DEF Memory, Types
  <2>8. CASE Sort(t)
    <3>1. UNCHANGED <<msg, at, res, result, clean, down>> /\ DOMAIN heap' = DOMAIN heap
          /\ pc[t] = "sort" /\ pc' = [pc EXCEPT ![t] = "send"]
      BY <2>8 DEF Sort, netVars
    <3> QED
      BY <3>1 DEF Memory, Types
  <2>9. CASE Send(t)
    <3>1. UNCHANGED <<msg, at, result, heap>> /\ pc[t] = "send" /\ pc' = [pc EXCEPT ![t] = "read"]
          /\ res' = [res EXCEPT ![t] = None] /\ clean' = [clean EXCEPT ![t] = TRUE]
      BY <2>9 DEF Send, AfterAnswer, sharedVars
    <3>2. DOMAIN down' = Clients /\ \A c \in Clients : \E A : down'[c] \in Seq(A)
      <4>1. CASE down' = down
        BY <4>1 DEF Memory
      <4>2. ASSUME NEW x, down' = [down EXCEPT ![Peer(t)] = Append(@, x)]
            PROVE  DOMAIN down' = Clients /\ \A c \in Clients : \E A : down'[c] \in Seq(A)
        <5>1. ASSUME NEW c \in Clients PROVE \E A : down'[c] \in Seq(A)
          <6>1. PICK A : down[c] \in Seq(A)
            BY DEF Memory
          <6>2. down[c] \in Seq(A \cup {x}) /\ Append(down[c], x) \in Seq(A \cup {x})
            BY <6>1
          <6> QED
            BY <4>2, <6>2 DEF Memory
        <5> QED
          BY <4>2, <5>1 DEF Memory
      <4> QED
        BY <2>9, <4>1, <4>2 DEF Send
    <3>3. None \notin Arrays /\ res' \in [Threads -> Arrays \cup {None}]
          /\ clean' \in [Threads -> BOOLEAN]
      BY <3>1 DEF Memory, None, Arrays
    <3> QED
      BY <3>1, <3>2, <3>3 DEF Memory, Types
  <2> QED
    BY <1>3, <2>1, <2>2, <2>3, <2>4, <2>5, <2>6, <2>7, <2>8, <2>9 DEF ClientThread
<1>4. ASSUME NEW c \in Clients, ClientProgram(c) \/ User(c) PROVE Memory'
  <2>1. UNCHANGED <<pc, msg, at, res, result, heap, clean>>
    BY <1>4 DEF ClientProgram, User, Clear, ReadAnswer, Type, Quit, threadVars, sharedVars
  <2>2. DOMAIN down' = Clients /\ \A d \in Clients : \E A : down'[d] \in Seq(A)
    <3>1. CASE Clear(c) \/ Type(c)
      BY <3>1 DEF Clear, Type, netVars, Memory
    <3>2. CASE ReadAnswer(c)
      <4>1. down' = [down EXCEPT ![c] = Tail(@)] /\ down[c] # << >>
        BY <3>2 DEF ReadAnswer
      <4>2. ASSUME NEW d \in Clients PROVE \E A : down'[d] \in Seq(A)
        <5>1. PICK A : down[d] \in Seq(A)
          BY DEF Memory
        <5>2. d = c => Tail(down[d]) \in Seq(A)
          BY <4>1, <5>1
        <5> QED
          BY <4>1, <5>1, <5>2 DEF Memory
      <4> QED
        BY <4>1, <4>2 DEF Memory
    <3>3. CASE Quit(c)
      <4>1. down' = [down EXCEPT ![c] = << >>]
        BY <3>3 DEF Quit
      <4>2. << >> \in Seq({})
        OBVIOUS
      <4>3. \A d \in Clients : down'[d] = down[d] \/ down'[d] = << >>
        BY <4>1 DEF Memory
      <4> QED
        BY <4>1, <4>2, <4>3 DEF Memory
    <3> QED
      BY <1>4, <3>1, <3>2, <3>3 DEF ClientProgram, User
  <2> QED
    BY <2>1, <2>2 DEF Memory
<1>5. CASE UNCHANGED vars
  BY <1>1, <1>5 DEF vars, threadVars, sharedVars, netVars, Memory
<1> QED
  BY <1>2, <1>3, <1>4, <1>5 DEF Next, ProgramStep

\* A step that leaves a thread's search and its memory alone.
LEMMA Undisturbing ==
  ASSUME Memory, NEW t \in Threads, Alone(t) /\ Right(t),
         UNCHANGED <<pc[t], msg[t], at[t], res[t], str0, result, result_cnt, rslt_cnt>>,
         \A u \in Threads \ {t} : (Searching(u)' => Searching(u)) /\ res'[u] \in {res[u], None},
         pc[t] # "alloc" => heap'[Own(t)] = heap[Own(t)], Busy(t)
  PROVE  (Alone(t) /\ Right(t))'
<1>1. Searching(t)' <=> Searching(t)
  BY DEF Searching
<1>2. Own(t)' = Own(t)
  BY <1>1 DEF Own
<1>3. pc[t] # "alloc" => Own(t) # None
  BY DEF Busy, Searching, Own, Memory, None, Arrays
<1>4. Alone(t)'
  BY <1>2, <1>3 DEF Alone
<1>5. Right(t)'
  BY <1>1 DEF Right, Own, Searching
<1> QED
  BY <1>4, <1>5

\* The same for a step of another thread, or of none.
LEMMA OthersUndisturbed ==
  ASSUME Memory, Undisturbed, NEW t \in Threads, clean'[t] => clean[t], Busy(t)' => Busy(t),
         UNCHANGED <<pc[t], msg[t], at[t], res[t], str0, result, result_cnt, rslt_cnt>>,
         \A u \in Threads \ {t} : (Searching(u)' => Searching(u)) /\ res'[u] \in {res[u], None},
         Alone(t) /\ Busy(t) /\ pc[t] # "alloc" => heap'[Own(t)] = heap[Own(t)]
  PROVE  (clean[t] /\ Busy(t))' => (Alone(t) /\ Right(t))'
BY Undisturbing DEF Undisturbed

LEMMA UndisturbedNext ==
  ASSUME Types, Memory, Undisturbed, [Next]_vars
  PROVE  Undisturbed'
<1> DEFINE Ok(u) == (clean[u] /\ Busy(u))' => (Alone(u) /\ Right(u))'
<1>s. SUFFICES \A u \in Threads : Ok(u)
  BY DEF Undisturbed
\* Steps that have nothing to do with searches.
<1>1. ASSUME UNCHANGED <<at, res, sharedVars, clean>>,
             \A u \in Threads : Busy(u)' => pc'[u] = pc[u] /\ msg'[u] = msg[u]
      PROVE  \A u \in Threads : Ok(u)
  <2> SUFFICES ASSUME NEW u \in Threads, clean'[u], Busy(u)' PROVE (Alone(u) /\ Right(u))'
    OBVIOUS
  <2>1. pc'[u] = pc[u] /\ msg'[u] = msg[u] /\ Busy(u)
    BY <1>1 DEF Busy, Searching
  <2>2. \A v \in Threads : Searching(v)' => Searching(v)
    BY <1>1 DEF Busy, Searching
  <2>3. UNCHANGED <<str0, result, result_cnt, rslt_cnt, heap>> /\ clean[u]
    BY <1>1 DEF sharedVars
  <2> QED
    BY <1>1, <2>1, <2>2, <2>3, OthersUndisturbed
<1>2. CASE MainThread
  <2>1. UNCHANGED <<msg, at, res, sharedVars, clean>>
    BY <1>2 DEF MainThread, Accept, Register, Create, threadVars
  <2>2. \A u \in Threads : pc'[u] \in {pc[u], "born"}
    BY <1>2 DEF MainThread, Accept, Register, Create, threadVars, Types
  <2>3. \A u \in Threads : Busy(u)' => pc'[u] = pc[u]
    BY <2>2 DEF Busy, Searching
  <2> QED
    BY <1>1, <2>1, <2>3
<1>3. ASSUME NEW c \in Clients, ClientProgram(c) \/ User(c) PROVE \A u \in Threads : Ok(u)
  <2>1. UNCHANGED <<pc, msg, at, res, sharedVars, clean>>
    BY <1>3 DEF ClientProgram, User, Clear, ReadAnswer, Type, Quit, threadVars
  <2> QED
    BY <1>1, <2>1
<1>4. CASE UNCHANGED vars
  <2>1. UNCHANGED <<pc, msg, at, res, sharedVars, clean>>
    BY <1>4 DEF vars, threadVars
  <2> QED
    BY <1>1, <2>1
\* In a search no other thread is undisturbed.
<1>5. ASSUME NEW t \in Threads, Searching(t), NEW u \in Threads \ {t}, clean'[u], Busy(u)',
             clean' = clean, pc'[u] = pc[u]
      PROVE  FALSE
  <2>1. clean[u] /\ Busy(u)
    BY <1>5 DEF Busy, Searching
  <2> QED
    BY <1>5, <2>1 DEF Undisturbed, Alone
<1>6. ASSUME NEW t \in Threads, ClientThread(t) PROVE \A u \in Threads : Ok(u)
  <2>1. CASE Start(t) \/ ReadQuery(t) \/ ReadEnd(t) \/ RemoveSock(t) \/ Close(t)
    <3>1. UNCHANGED <<at, res, sharedVars, clean>>
      BY <2>1 DEF Start, ReadQuery, ReadEnd, RemoveSock, Close
    <3>2. \A u \in Threads \ {t} : pc'[u] = pc[u] /\ msg'[u] = msg[u]
      BY <2>1 DEF Start, ReadQuery, ReadEnd, RemoveSock, Close, Types, Memory
    <3>3. ~ Busy(t)'
      BY <2>1 DEF Start, ReadQuery, ReadEnd, RemoveSock, Close, Types, AfterEnd, Busy, Searching
    <3> QED
      BY <1>1, <3>1, <3>2, <3>3
  <2>2. CASE Begin(t)
    <3>1. /\ UNCHANGED <<msg, at, res, result, rslt_cnt, heap>> /\ pc' = [pc EXCEPT ![t] = "alloc"]
          /\ result_cnt' = 0 /\ str0' = t /\ pc[t] = "begin"
          /\ clean' = [u \in Threads |-> IF u = t THEN ~ \E v \in Threads : Searching(v)
                                         ELSE clean[u] /\ ~ Busy(u)]
      BY <2>2 DEF Begin
    <3>2. pc'[t] = "alloc" /\ \A u \in Threads \ {t} : pc'[u] = pc[u]
      BY <3>1 DEF Types
    <3>3. ASSUME NEW u \in Threads \ {t}, clean'[u], Busy(u)' PROVE FALSE
      BY <3>1, <3>2, <3>3 DEF Busy, Searching
    <3>4. ASSUME clean'[t] PROVE (Alone(t) /\ Right(t))'
      <4>1. \A v \in Threads : ~ Searching(v)
        BY <3>1, <3>4
      <4>2. Alone(t)'
        BY <3>2, <4>1 DEF Alone, Searching
      <4>3. Right(t)'
        BY <3>1, <3>2 DEF Right
      <4> QED
        BY <4>2, <4>3
    <3> QED
      BY <3>3, <3>4
  <2>3. CASE Alloc(t)
    <3>1. /\ UNCHANGED <<msg, at, res, result_cnt, str0, rslt_cnt, clean>>
          /\ pc' = [pc EXCEPT ![t] = "fill"] /\ pc[t] = "alloc"
          /\ heap' = [heap EXCEPT ![result'] = << >>]
      BY <2>3 DEF Alloc
    <3>2. pc'[t] = "fill" /\ \A u \in Threads \ {t} : pc'[u] = pc[u]
      BY <3>1 DEF Types
    <3>3. Searching(t) /\ Busy(t) /\ Searching(t)'
      BY <3>1, <3>2 DEF Busy, Searching
    <3>4. result' \in Arrays /\ heap'[result'] = << >> /\ \A u \in Threads : res[u] # result'
      BY <2>3, <3>1, AllocIs DEF Memory
    <3>5. ASSUME clean[t] PROVE (Alone(t) /\ Right(t))'
      <4>1. Alone(t) /\ Right(t)
        BY <3>3, <3>5 DEF Undisturbed
      <4>2. Alone(t)'
        BY <3>1, <3>2, <3>3, <3>4, <4>1 DEF Alone, Searching, Own
      <4>3. Right(t)'
        BY <3>1, <3>2, <3>3, <3>4, <4>1 DEF Right
      <4> QED
        BY <4>2, <4>3
    <3> QED
      BY <1>5, <3>1, <3>2, <3>3, <3>5
  <2>4. CASE Fill(t)
    <3>1. /\ UNCHANGED <<msg, at, res, sharedVars, clean>>
          /\ pc' = [pc EXCEPT ![t] = "find"] /\ pc[t] = "fill"
      BY <2>4 DEF Fill
    <3>2. pc'[t] = "find" /\ \A u \in Threads \ {t} : pc'[u] = pc[u]
      BY <3>1 DEF Types
    <3>3. Searching(t) /\ Busy(t) /\ Searching(t)'
      BY <3>1, <3>2 DEF Busy, Searching
    <3>4. ASSUME clean[t] PROVE (Alone(t) /\ Right(t))'
      <4>1. Alone(t) /\ Right(t)
        BY <3>3, <3>4 DEF Undisturbed
      <4>2. Alone(t)'
        BY <3>1, <3>2, <3>3, <4>1 DEF Alone, Searching, Own, sharedVars
      <4>3. at[t] = 0 /\ heap[result] = << >> /\ result_cnt = 0 /\ str0 = t
        BY <3>1, <3>3, <4>1 DEF Memory, Right
      <4>4. Listing(<< >>, msg[t], 0) /\ Len(<< >>) = 0
        BY ListingStart
      <4>5. Listing(heap[result], msg[t], at[t]) /\ result_cnt = Len(heap[result])
        BY <4>3, <4>4
      <4>6. Right(t)'
        BY <3>1, <3>2, <4>3, <4>5 DEF Right, sharedVars
      <4> QED
        BY <4>2, <4>6
    <3> QED
      BY <1>5, <3>1, <3>2, <3>3, <3>4
  <2>5. CASE Find(t)
    <3>1. /\ UNCHANGED <<pc, msg, res, result, str0, rslt_cnt, clean>>
          /\ result_cnt' = result_cnt + 1 /\ pc[t] = "find"
      BY <2>5 DEF Find
    <3>2. PICK k \in at[t] + 1 .. Len(Dict) :
            /\ str0 = t => Hits(t) # {} /\ k = Min(Hits(t))
            /\ heap' = [heap EXCEPT ![result] =
                          [Entries(@, Max({Len(@), result_cnt + 1})) EXCEPT ![result_cnt + 1] = Dict[k]]]
            /\ at' = [at EXCEPT ![t] = k]
      BY <2>5 DEF Find
    <3>3. Searching(t) /\ Busy(t) /\ Searching(t)' /\ Busy(t)'
      BY <3>1 DEF Busy, Searching
    <3>4. ASSUME clean[t] PROVE (Alone(t) /\ Right(t))'
      <4> DEFINE m == msg[t]
                 arr == heap[result]
      <4>1. Alone(t) /\ Right(t)
        BY <3>3, <3>4 DEF Undisturbed
      <4>2. Alone(t)'
        BY <3>1, <3>3, <4>1 DEF Alone, Searching, Own
      <4>3. str0 = t /\ Listing(arr, m, at[t]) /\ result_cnt = Len(arr)
        BY <3>1, <3>3, <4>1 DEF Right
      <4>4. at[t] \in Nat /\ result \in Arrays /\ DOMAIN heap = Arrays /\ DOMAIN at = Threads
        BY <3>1 DEF Memory
      <4>5. Hits(t) \in SUBSET Nat
        BY <4>4, DictIs DEF Hits
      <4>6. k \in Hits(t) /\ \A j \in Hits(t) : k <= j
        BY <3>2, <4>3, <4>5, MinIs
      <4>7. k \in Matching(m) /\ at[t] < k
        BY <4>4, <4>6, DictIs DEF Hits, Matching
      <4>8. \A j \in Matching(m) : at[t] < j => k <= j
        BY <4>4, <4>6, DictIs DEF Hits, Matching
      <4>9. Listing(Append(arr, Dict[k]), m, k)
        BY <4>3, <4>4, <4>7, <4>8, ListingGrows
      <4>10. arr \in Seq(Results) /\ Dict[k] \in Results
        BY <4>3, <4>7, DictIs DEF Listing, Lists
      <4>11. heap'[result] = Store(arr, result_cnt, Dict[k])
        BY <3>2, <4>4 DEF Store
      <4>12. heap'[result] = Append(arr, Dict[k])
        <5>1. result_cnt = Len(arr) /\ arr \in Seq(Results) /\ Dict[k] \in Results
          BY <4>3, <4>10
        <5> HIDE DEF arr
        <5>2. Store(arr, result_cnt, Dict[k]) = Append(arr, Dict[k])
          BY <5>1, Stored
        <5> QED
          BY <4>11, <5>2, Zenon
      <4>13. at'[t] = k
        BY <3>2, <4>4
      <4>14. result_cnt' = Len(heap'[result])
        <5>1. Len(Append(arr, Dict[k])) = Len(arr) + 1
          BY <4>10
        <5> QED
          BY <3>1, <4>3, <4>12, <5>1
      <4>15. Right(t)'
        BY <3>1, <4>3, <4>9, <4>12, <4>13, <4>14 DEF Right
      <4> QED
        BY <4>2, <4>15
    <3> QED
      BY <1>5, <3>1, <3>3, <3>4
  <2>6. CASE FindNowhere(t)
    <3>1. UNCHANGED <<pc, msg, at, res, sharedVars, clean>>
      BY <2>6 DEF FindNowhere, threadVars
    <3> QED
      BY <1>1, <3>1
  <2>7. CASE End(t)
    <3>1. /\ UNCHANGED <<msg, result, result_cnt, str0, heap, clean>> /\ pc[t] = "find"
          /\ pc' = [pc EXCEPT ![t] = "sort"] /\ res' = [res EXCEPT ![t] = result]
          /\ rslt_cnt' = result_cnt /\ (str0 = t => Hits(t) = {})
      BY <2>7 DEF End
    <3>2. pc'[t] = "sort" /\ \A u \in Threads \ {t} : pc'[u] = pc[u]
      BY <3>1 DEF Types
    <3>3. Searching(t) /\ Busy(t) /\ ~ Searching(t)'
      BY <3>1, <3>2 DEF Busy, Searching
    <3>4. res'[t] = result /\ \A u \in Threads \ {t} : res'[u] = res[u]
      BY <3>1 DEF Memory
    <3>5. ASSUME clean[t] PROVE (Alone(t) /\ Right(t))'
      <4>1. Alone(t) /\ Right(t)
        BY <3>3, <3>5 DEF Undisturbed
      <4>2. Alone(t)'
        BY <3>1, <3>2, <3>3, <3>4, <4>1 DEF Alone, Searching, Own
      <4>3. str0 = t /\ Listing(heap[result], msg[t], at[t]) /\ result_cnt = Len(heap[result])
        BY <3>1, <3>3, <4>1 DEF Right
      <4>4. \A j \in Matching(msg[t]) : ~ (at[t] < j)
        BY <3>1, <4>3, DictIs DEF Memory, Hits, Matching
      <4>5. Listing(heap[result], msg[t], Len(Dict))
        BY <4>3, <4>4, ListingEnds DEF Memory
      <4>6. Right(t)'
        BY <3>1, <3>2, <3>3, <3>4, <4>3, <4>5 DEF Right
      <4> QED
        BY <4>2, <4>6
    <3> QED
      BY <1>5, <3>1, <3>2, <3>3, <3>5
  <2>8. CASE Sort(t)
    <3>1. /\ UNCHANGED <<msg, at, res, result, result_cnt, str0, rslt_cnt, clean>>
          /\ pc[t] = "sort" /\ pc' = [pc EXCEPT ![t] = "send"]
          /\ heap' = [heap EXCEPT ![res[t]] =
                        BubbleSort(Entries(@, Max({Len(@), rslt_cnt})), rslt_cnt)]
      BY <2>8 DEF Sort, Sorted
    <3>2. pc'[t] = "send" /\ \A u \in Threads \ {t} : pc'[u] = pc[u]
      BY <3>1 DEF Types
    <3>3. Busy(t) /\ ~ Searching(t) /\ ~ Searching(t)' /\ res[t] \in Arrays
      BY <3>1, <3>2 DEF Busy, Searching, Memory
    <3>4. ASSUME NEW u \in Threads \ {t} PROVE Ok(u)
      <4>1. Alone(u) /\ pc[u] # "alloc" => heap'[Own(u)] = heap[Own(u)]
        BY <3>1 DEF Alone
      <4>2. \A v \in Threads \ {u} : (Searching(v)' => Searching(v)) /\ res'[v] \in {res[v], None}
        BY <3>1, <3>2, <3>3 DEF Searching
      <4>3. Busy(u)' => Busy(u)
        BY <3>2 DEF Busy, Searching
      <4> QED
        BY <3>1, <3>2, <4>1, <4>2, <4>3, OthersUndisturbed
    <3>5. ASSUME clean[t] PROVE (Alone(t) /\ Right(t))'
      <4> DEFINE arr == heap[res[t]]
      <4>1. Alone(t) /\ Right(t)
        BY <3>3, <3>5 DEF Undisturbed
      <4>2. Alone(t)'
        BY <3>1, <3>2, <3>3, <4>1 DEF Alone, Searching, Own
      <4>3. Listing(arr, msg[t], Len(Dict)) /\ rslt_cnt = Len(arr)
        BY <3>1, <4>1 DEF Right
      <4>4. arr \in Seq(Results) /\ Cardinality(Matching(msg[t])) = Len(arr)
        BY <4>3, ListingCounts
      <4>5. heap'[res[t]] = BubbleSort(Entries(arr, Max({Len(arr), Len(arr)})), Len(arr))
        BY <3>1, <3>3, <4>3 DEF Memory
      <4>6. heap'[res[t]] = BubbleSort(arr, Len(arr))
        BY <4>4, <4>5, EntriesAre
      <4>7. Ranked(heap'[res[t]], msg[t])
        BY <4>3, <4>6, SortedIsRanked
      <4>8. rslt_cnt = Len(heap'[res[t]])
        BY <4>3, <4>4, <4>7 DEF Ranked
      <4>9. Right(t)'
        BY <3>1, <3>2, <3>3, <4>7, <4>8 DEF Right
      <4> QED
        BY <4>2, <4>9
    <3> QED
      BY <3>1, <3>4, <3>5
  <2>9. CASE Send(t)
    <3>1. /\ UNCHANGED <<msg, at, sharedVars>> /\ pc[t] = "send" /\ pc' = [pc EXCEPT ![t] = "read"]
          /\ res' = [res EXCEPT ![t] = None] /\ clean' = [clean EXCEPT ![t] = TRUE]
      BY <2>9 DEF Send, AfterAnswer
    <3>2. pc'[t] = "read" /\ \A u \in Threads \ {t} : pc'[u] = pc[u]
      BY <3>1 DEF Types
    <3>3. ~ Busy(t)' /\ ~ Searching(t)'
      BY <3>2 DEF Busy, Searching
    <3>4. res'[t] = None /\ \A u \in Threads \ {t} : res'[u] = res[u] /\ clean'[u] = clean[u]
      BY <3>1 DEF Memory
    <3>5. ASSUME NEW u \in Threads \ {t} PROVE Ok(u)
      <4>1. \A v \in Threads \ {u} : (Searching(v)' => Searching(v)) /\ res'[v] \in {res[v], None}
        BY <3>2, <3>3, <3>4 DEF Searching
      <4>2. Busy(u)' => Busy(u)
        BY <3>2 DEF Busy, Searching
      <4> QED
        BY <3>1, <3>2, <3>4, <4>1, <4>2, OthersUndisturbed DEF sharedVars
    <3> QED
      BY <3>3, <3>5
  <2> QED
    BY <1>6, <2>1, <2>2, <2>3, <2>4, <2>5, <2>6, <2>7, <2>8, <2>9 DEF ClientThread
<1> QED
  BY <1>2, <1>3, <1>4, <1>6 DEF Next, ProgramStep

LEMMA AnswersNext ==
  ASSUME Types, Memory, Undisturbed, AnswersAreRight, [Next]_vars
  PROVE  AnswersAreRight'
<1>1. CASE down' = down
  BY <1>1 DEF AnswersAreRight
\* The answers on their way to client c, but for those that are new.
<1>2. ASSUME NEW c \in Clients,
             \A k \in 1 .. Len(down'[c]) :
               down'[c][k].clean => down'[c][k].list = RightAnswer(down'[c][k].msg),
             \A d \in Clients \ {c} : down'[d] = down[d]
      PROVE  AnswersAreRight'
  BY <1>2 DEF AnswersAreRight
<1>3. ASSUME NEW t \in Threads, Send(t) PROVE AnswersAreRight'
  <2> DEFINE c == Peer(t)
             arr == heap[res[t]]
             list == TopList(Entries(arr, Max({Len(arr), rslt_cnt})), rslt_cnt)
             x == [msg |-> msg[t], list |-> list, clean |-> clean[t]]
  <2>1. CASE c # Nobody /\ down' = [down EXCEPT ![c] = Append(@, x)]
    <3>1. c \in Clients
      BY <2>1, PeerIs
    <3>2. PICK A : down[c] \in Seq(A)
      BY <3>1 DEF Memory
    <3>3. down'[c] = Append(down[c], x) /\ \A d \in Clients \ {c} : down'[d] = down[d]
      BY <2>1, <3>1 DEF Memory
    <3>4. ASSUME clean[t] PROVE list = RightAnswer(msg[t])
      <4>1. Alone(t) /\ Right(t) /\ pc[t] = "send"
        BY <1>3, <3>4 DEF Undisturbed, Send, Busy
      <4>2. Ranked(arr, msg[t]) /\ rslt_cnt = Len(arr)
        BY <4>1 DEF Right
      <4>3. arr \in Seq(Results)
        BY <4>2 DEF Ranked
      <4>4. list = TopList(Entries(arr, Max({Len(arr), Len(arr)})), Len(arr))
        BY <4>2
      <4>5. list = TopList(arr, Len(arr))
        BY <4>3, <4>4, EntriesAre
      <4> QED
        BY <4>2, <4>5, RankedIsAnswer
    <3>5. x.clean => x.list = RightAnswer(x.msg)
      BY <3>4
    <3> HIDE DEF x
    <3>6. ASSUME NEW k \in 1 .. Len(down'[c])
          PROVE  down'[c][k] = x \/ (k \in 1 .. Len(down[c]) /\ down'[c][k] = down[c][k])
      BY <3>2, <3>3
    <3>7. \A k \in 1 .. Len(down'[c]) :
            down'[c][k].clean => down'[c][k].list = RightAnswer(down'[c][k].msg)
      BY <3>1, <3>5, <3>6 DEF AnswersAreRight
    <3> QED
      BY <1>2, <3>1, <3>3, <3>7
  <2> QED
    BY <1>1, <1>3, <2>1 DEF Send
<1>4. ASSUME NEW c \in Clients, ReadAnswer(c) PROVE AnswersAreRight'
  <2>1. PICK A : down[c] \in Seq(A)
    BY DEF Memory
  <2>2. down[c] # << >> /\ down'[c] = Tail(down[c]) /\ \A d \in Clients \ {c} : down'[d] = down[d]
    BY <1>4 DEF ReadAnswer, Memory
  <2>3. \A k \in 1 .. Len(down'[c]) : k + 1 \in 1 .. Len(down[c]) /\ down'[c][k] = down[c][k + 1]
    BY <2>1, <2>2
  <2>4. ASSUME NEW k \in 1 .. Len(down'[c])
        PROVE  down'[c][k].clean => down'[c][k].list = RightAnswer(down'[c][k].msg)
    <3>1. PICK x : x = down'[c][k]
      OBVIOUS
    <3>2. PICK l \in 1 .. Len(down[c]) : down[c][l] = x
      BY <2>3, <3>1
    <3>3. x.clean => x.list = RightAnswer(x.msg)
      BY <3>2 DEF AnswersAreRight
    <3> QED
      BY <3>1, <3>3
  <2> QED
    BY <1>2, <2>2, <2>4
<1>5. ASSUME NEW c \in Clients, Quit(c) PROVE AnswersAreRight'
  <2>1. down'[c] = << >> /\ \A d \in Clients \ {c} : down'[d] = down[d]
    BY <1>5 DEF Quit, Memory
  <2> QED
    BY <1>2, <2>1
<1>6. ASSUME NEW t \in Threads, ClientThread(t) PROVE AnswersAreRight'
  <2>1. CASE Start(t) \/ ReadQuery(t) \/ ReadEnd(t) \/ RemoveSock(t) \/ Close(t)
    BY <1>1, <2>1 DEF Start, ReadQuery, ReadEnd, RemoveSock, Close, netVars
  <2>2. CASE Begin(t) \/ Alloc(t) \/ Fill(t) \/ End(t)
    BY <1>1, <2>2 DEF Begin, Alloc, Fill, End, netVars
  <2>3. CASE Find(t) \/ FindNowhere(t) \/ Sort(t)
    BY <1>1, <2>3 DEF Find, FindNowhere, Sort, netVars
  <2> QED
    BY <1>3, <1>6, <2>1, <2>2, <2>3 DEF ClientThread
<1>7. MainThread \/ UNCHANGED vars \/ (\E c \in Clients : Clear(c) \/ Type(c)) => down' = down
  BY DEF MainThread, Accept, Register, Create, vars, Clear, Type, netVars
<1> QED
  BY <1>1, <1>4, <1>5, <1>6, <1>7 DEF Next, ProgramStep, ClientProgram, User

\* What is known of the answers.
Answers == Memory /\ Undisturbed /\ AnswersAreRight

LEMMA AnswersCorrect == Spec => []Answers
<1>1. Init => Answers
  <2> SUFFICES ASSUME Init PROVE Answers
    OBVIOUS
  <2>1. \A t \in Threads : pc[t] = "unborn" /\ ~ Busy(t)
    BY DEF Init, Busy, Searching
  <2>2. << >> \in Seq({}) /\ Len(<< >>) = 0
    OBVIOUS
  <2>3. \A c \in Clients : down[c] = << >>
    BY DEF Init
  <2>4. Memory
    BY <2>1, <2>2, <2>3 DEF Init, Memory
  <2>5. AnswersAreRight
    BY <2>2, <2>3 DEF AnswersAreRight
  <2> QED
    BY <2>1, <2>4, <2>5 DEF Undisturbed, Answers
<1>2. Inv /\ Answers /\ [Next]_vars => Answers'
  BY MemoryNext, UndisturbedNext, AnswersNext DEF Inv, Answers
<1> QED
  BY <1>1, <1>2, InvCorrect, PTL DEF Spec

\* handle_clnt sends for a message the words that contain it, the greatest counts first
\* and no more than MaxLines of them, whatever the other threads do to the result list,
\* its length and the string to start again from, as long as no other search begins
\* or is going on between the beginning of this one and its answer.
THEOREM AnswersAreRightCorrect == Spec => []AnswersAreRight
<1>1. Answers => AnswersAreRight
  BY DEF Answers
<1> QED
  BY <1>1, AnswersCorrect, PTL

-------------------------------------------------------------------------------
(* What users see. *)

\* Each client has one connection, or none yet.
Distinct ==
  /\ \A f, g \in Fds : conn[f] = conn[g] /\ conn[f] # Nobody => f = g
  /\ \A i, j \in 1 .. Len(backlog) : backlog[i] = backlog[j] => i = j
  /\ \A f \in Fds : \A i \in 1 .. Len(backlog) : conn[f] # backlog[i]

\* The clients' ends.
Users ==
  /\ client \in [Clients -> {"on", "typed", "gone"}]
  /\ DOMAIN word = Clients /\ DOMAIN shown = Clients
  /\ \A c \in Clients : client[c] # "gone" => hung[c] = "open"
  /\ "overlap" \notin mishaps => \A t \in Threads : clean[t]

\* Thread t has a message of client c to answer.
Serves(t, c) == Peer(t) = c /\ Answering(t)

\* What is typed is on its way to the server, or it is being answered, or the answer
\* is on its way back.
Asked(c)    == up[c] = <<word[c]>> /\ down[c] = << >> /\ \A t \in Threads : ~ Serves(t, c)
InHand(c)   == up[c] = << >> /\ down[c] = << >> /\ \E t \in Threads : Serves(t, c) /\ msg[t] = word[c]
Answered(c) ==
  /\ up[c] = << >> /\ \A t \in Threads : ~ Serves(t, c)
  /\ \E x : down[c] = <<x>> /\ x.msg = word[c] /\ x.clean

Owed(c) == /\ Asked(c) \/ InHand(c) \/ Answered(c)
           /\ client[c] = "on" => shown[c] = << >>

\* All that is typed is answered.
AtRest(c) == Quiet(c) /\ (word[c] # << >> => client[c] = "on" /\ shown[c] = RightAnswer(word[c]))

\* None of the mishaps that are bad for what users see.
Orderly == mishaps \cap {"late", "hurried", "overlap", "wiped"} = {} /\ ~ killed

\* Each user who has not left is owed the answer to what is typed, or sees it.
Current == Orderly => \A c \in Clients : client[c] # "gone" => Owed(c) \/ AtRest(c)

\* A message that comes alone is read as it is.
LEMMA FlattenOne ==
  ASSUME NEW w
  PROVE  FlattenSeq(<<w>>) = w
<1> DEFINE T(f) == [i \in 1 .. Len(<<w>>) |-> IF i = 1 THEN <<w>>[i] ELSE f[i - 1] \o <<w>>[i]]
           c == CHOOSE f : f = T(f)
<1>1. Len(<<w>>) = 1 /\ <<w>>[1] = w
  OBVIOUS
<1>2. FlattenSeq(<<w>>) = c[Len(<<w>>)]
  <2>1. Len(<<w>>) # 0
    BY <1>1
  <2> QED
    BY <2>1, Zenon DEF FlattenSeq
<1>3. \E f : f = T(f)
  <2>1. [i \in 1 .. 1 |-> w] = T([i \in 1 .. 1 |-> w])
    BY <1>1
  <2> QED
    BY <2>1
<1>4. c = T(c)
  BY <1>3
<1> HIDE DEF c
<1>5. c[1] = w
  BY <1>1, <1>4
<1> QED
  BY <1>1, <1>2, <1>5

\* An answer printed on a screen that is cleared.
LEMMA AnswerShows ==
  ASSUME NEW m
  PROVE  RightAnswer(m) \o SubSeq(<< >>, Len(RightAnswer(m)) + 1, Len(<< >>)) = RightAnswer(m)
<1> DEFINE q == Min({MaxLines, Cardinality(Matching(m))})
           e == [n \in 1 .. q |-> Dict[CHOOSE k \in Matching(m) : Rank(m, k) = n]]
           A == {e[n] : n \in 1 .. q}
<1>1. q \in Nat
  <2>1. Matching(m) \subseteq 1 .. Len(Dict) /\ Len(Dict) \in Nat
    BY DictIs
  <2>2. IsFiniteSet(1 .. Len(Dict))
    BY <2>1, FS_Interval
  <2>3. Cardinality(Matching(m)) \in Nat
    BY <2>1, <2>2, FS_Subset, FS_CardinalityType
  <2>4. {MaxLines, Cardinality(Matching(m))} \in SUBSET Nat
    BY <2>3, MaxLinesAssumption
  <2> QED
    BY <2>4, MinIs
<1>2. RightAnswer(m) = e
  BY DEF RightAnswer
<1> HIDE DEF q
<1>3. e \in [1 .. q -> A]
  OBVIOUS
<1> HIDE DEF e, A
<1>4. e \in Seq(A) /\ Len(e) = q
  BY <1>1, <1>3
<1>5. SubSeq(<< >>, q + 1, Len(<< >>)) = << >>
  BY <1>1
<1>6. e \o << >> = e
  BY <1>4
<1> QED
  BY <1>2, <1>4, <1>5, <1>6

LEMMA DistinctInit ==
  ASSUME Init
  PROVE  Distinct
<1>1. PICK f : f \in Bijection(1 .. N, Clients)
  BY SearchServerAssumption, FS_CardinalityType DEF N, ExistsBijection
<1>2. f \in [1 .. N -> Clients] /\ IsInjective(f)
  BY <1>1 DEF Bijection, Injection, IsInjective
<1>3. SetToSeq(Clients) \in [1 .. N -> Clients] /\ IsInjective(SetToSeq(Clients))
  BY <1>2 DEF SetToSeq, N
<1>4. PICK g \in [1 .. N -> Clients] : g = SetToSeq(Clients) /\ IsInjective(g)
  BY <1>3
<1>5. Len(g) = N /\ \A i, j \in 1 .. N : g[i] = g[j] => i = j
  BY <1>4, NIs DEF IsInjective
<1>6. backlog = g /\ \A h \in Fds : conn[h] = Nobody
  BY <1>4 DEF Init
<1>7. \A i \in 1 .. N : g[i] # Nobody
  BY SearchServerAssumption
<1> QED
  BY <1>5, <1>6, <1>7 DEF Distinct

LEMMA DistinctNext ==
  ASSUME Types, Roomy, Distinct, [Next]_vars
  PROVE  Distinct'
<1>1. CASE Accept
  <2>1. clnt_sock' \in Fds /\ conn[clnt_sock'] = Nobody
        /\ Head(backlog) \in Clients /\ Len(backlog') = Len(backlog) - 1
        /\ Len(backlog) \in Nat /\ Len(backlog) >= 1
    BY <1>1, AcceptIs
  <2>2. backlog \in Seq(Clients) /\ backlog' = Tail(backlog) /\ Head(backlog) = backlog[1]
    BY <1>1, <2>1 DEF Accept, Types
  <2>3. \A i \in 1 .. Len(backlog') : i + 1 \in 1 .. Len(backlog) /\ backlog'[i] = backlog[i + 1]
    BY <2>1, <2>2
  <2>4. 1 \in 1 .. Len(backlog)
    BY <2>1
  <2>5. conn'[clnt_sock'] = backlog[1] /\ \A f \in Fds \ {clnt_sock'} : conn'[f] = conn[f]
    BY <1>1, <2>1, <2>2 DEF Accept, Types
  <2>6. ASSUME NEW f \in Fds, NEW g \in Fds, conn'[f] = conn'[g], conn'[f] # Nobody PROVE f = g
    BY <2>4, <2>5, <2>6 DEF Distinct
  <2>7. ASSUME NEW i \in 1 .. Len(backlog'), NEW j \in 1 .. Len(backlog'), backlog'[i] = backlog'[j]
        PROVE  i = j
    <3>1. i + 1 = j + 1
      BY <2>3, <2>7 DEF Distinct
    <3> QED
      BY <2>1, <3>1
  <2>8. ASSUME NEW f \in Fds, NEW i \in 1 .. Len(backlog') PROVE conn'[f] # backlog'[i]
    <3>1. CASE f = clnt_sock'
      <4>1. i + 1 # 1 /\ i + 1 \in 1 .. Len(backlog)
        BY <2>1, <2>3
      <4>2. backlog[1] # backlog[i + 1]
        BY <2>4, <4>1 DEF Distinct
      <4> QED
        BY <2>3, <2>5, <3>1, <4>2
    <3>2. CASE f # clnt_sock'
      BY <2>3, <2>5, <3>2 DEF Distinct
    <3> QED
      BY <3>1, <3>2
  <2> QED
    BY <2>6, <2>7, <2>8 DEF Distinct
<1>2. ASSUME NEW t \in Threads, Close(t) PROVE Distinct'
  <2>1. backlog' = backlog /\ \A f \in Fds : conn'[f] \in {conn[f], Nobody}
    BY <1>2 DEF Close, Types
  <2>2. \A i \in 1 .. Len(backlog) : backlog[i] # Nobody
    BY SearchServerAssumption, ElementIs DEF Types
  <2> QED
    BY <2>1, <2>2 DEF Distinct
<1>3. ASSUME UNCHANGED <<conn, backlog>> PROVE Distinct'
  BY <1>3 DEF Distinct
<1>4. Register \/ Create \/ Outer \/ (\E t \in Threads : Start(t) \/ RemoveSock(t) \/ Inner(t))
        => UNCHANGED <<conn, backlog>>
  BY DEF Register, Create, Outer, Start, RemoveSock, Inner, mainVars
<1> QED
  BY <1>1, <1>2, <1>3, <1>4, Kinds

LEMMA UsersNext ==
  ASSUME Types, Ends, Memory, Users, [Next]_vars
  PROVE  Users'
<1>m. mishaps \subseteq mishaps'
  BY MishapsGrow
<1>1. ASSUME UNCHANGED <<client, word, shown, hung, clean>> PROVE Users'
  BY <1>m, <1>1 DEF Users
<1>2. MainThread \/ UNCHANGED vars => UNCHANGED <<client, word, shown, hung, clean>>
  BY DEF MainThread, Accept, Register, Create, vars, clientVars, netVars
<1>3. ASSUME NEW t \in Threads, ClientThread(t) PROVE Users'
  <2>1. CASE Start(t) \/ ReadQuery(t) \/ RemoveSock(t) \/ Close(t)
    BY <1>1, <2>1 DEF Start, ReadQuery, RemoveSock, Close, clientVars, netVars
  <2>2. CASE Alloc(t) \/ Fill(t) \/ Find(t) \/ FindNowhere(t) \/ End(t) \/ Sort(t)
    BY <1>1, <2>2 DEF Alloc, Fill, Find, FindNowhere, End, Sort, clientVars, netVars
  <2>3. CASE ReadEnd(t)
    <3>1. UNCHANGED <<client, word, shown, clean>>
      BY <2>3 DEF ReadEnd, clientVars
    <3>2. hung' = hung \/ (hung[Peer(t)] = "rst" /\ hung' = [hung EXCEPT ![Peer(t)] = "broken"])
      BY <2>3 DEF ReadEnd
    <3>3. \A c \in Clients : client[c] # "gone" => hung'[c] = "open"
      BY <3>2 DEF Users, Ends
    <3> QED
      BY <1>m, <3>1, <3>3 DEF Users
  <2>4. CASE Begin(t)
    <3>1. UNCHANGED <<client, word, shown, hung>>
      BY <2>4 DEF Begin, clientVars, netVars
    <3>2. ASSUME "overlap" \notin mishaps', NEW u \in Threads PROVE clean'[u]
      <4>1. \A v \in Threads : ~ Busy(v) /\ ~ Searching(v)
        BY <2>4, <3>2 DEF Begin, Busy
      <4>2. clean[u]
        BY <1>m, <3>2 DEF Users
      <4> QED
        BY <2>4, <4>1, <4>2 DEF Begin
    <3> QED
      BY <3>1, <3>2 DEF Users
  <2>5. CASE Send(t)
    <3>1. UNCHANGED <<client, word, shown, hung>> /\ clean' = [clean EXCEPT ![t] = TRUE]
      BY <2>5 DEF Send, clientVars
    <3> QED
      BY <1>m, <3>1 DEF Users, Memory
  <2> QED
    BY <1>3, <2>1, <2>2, <2>3, <2>4, <2>5 DEF ClientThread
<1>4. ASSUME NEW c \in Clients, ClientProgram(c) \/ User(c) PROVE Users'
  <2>1. CASE Type(c) \/ Clear(c) \/ ReadAnswer(c)
    <3>1. UNCHANGED <<hung, clean>> /\ client[c] # "gone"
      BY <2>1 DEF Type, Clear, ReadAnswer, netVars
    <3>2. client' = client \/ \E x \in {"on", "typed"} : client' = [client EXCEPT ![c] = x]
      BY <2>1 DEF Type, Clear, ReadAnswer
    <3>3. DOMAIN word' = DOMAIN word /\ DOMAIN shown' = DOMAIN shown
      BY <2>1 DEF Type, Clear, ReadAnswer
    <3> QED
      BY <1>m, <3>1, <3>2, <3>3 DEF Users
  <2>2. CASE Quit(c)
    <3>1. clean' = clean /\ client' = [client EXCEPT ![c] = "gone"]
          /\ DOMAIN word' = DOMAIN word /\ DOMAIN shown' = DOMAIN shown
          /\ \A d \in Clients \ {c} : hung'[d] = hung[d]
      BY <2>2 DEF Quit, Ends
    <3> QED
      BY <1>m, <3>1 DEF Users
  <2> QED
    BY <1>4, <2>1, <2>2 DEF ClientProgram, User
<1> QED
  BY <1>1, <1>2, <1>3, <1>4 DEF Next, ProgramStep

\* Taking the only one leaves nothing.
LEMMA OnlyOne ==
  ASSUME NEW w
  PROVE  SubSeq(<<w>>, 1, 1) = <<w>> /\ SubSeq(<<w>>, 1 + 1, 1) = << >>
<1>1. PICK s \in Seq({w}) : s = <<w>>
  <2>1. <<w>> \in Seq({w})
    <3>1. w \in {w}
      OBVIOUS
    <3> QED
      BY <3>1
  <2> QED
    BY <2>1
<1>2. Len(s) = 1 /\ s[1] = w
  BY <1>1
<1>3. SubSeq(s, 1, 1) \in Seq({w}) /\ Len(SubSeq(s, 1, 1)) = 1 /\ SubSeq(s, 1, 1)[1] = w
  BY <1>2
<1>4. SubSeq(s, 1, 1) = s
  BY <1>2, <1>3
<1>5. SubSeq(s, 2, 1) = << >>
  BY <1>2
<1> QED
  BY <1>1, <1>4, <1>5

LEMMA QuietIs ==
  ASSUME NEW c \in Clients
  PROVE  Quiet(c) <=> up[c] = << >> /\ down[c] = << >> /\ \A t \in Threads : ~ Serves(t, c)
BY DEF Quiet, Serves, Answering

\* A client is served by one thread.
LEMMA OneServes ==
  ASSUME Types, Prompt, Distinct, "late" \notin mishaps,
         NEW t \in Threads, NEW u \in Threads, Peer(t) = Peer(u), Peer(t) # Nobody
  PROVE  t = u
<1>1. sock[t] \in Fds /\ sock[u] \in Fds /\ conn[sock[t]] = conn[sock[u]] /\ conn[sock[t]] # Nobody
  BY DEF Peer
<1>2. sock[t] = sock[u]
  BY <1>1 DEF Distinct
<1> QED
  BY <1>1, <1>2 DEF Prompt

\* A step that client c does not notice.
LEMMA Unnoticed ==
  ASSUME NEW c \in Clients, UNCHANGED <<up[c], down[c], word[c], shown[c], client[c]>>,
         \A t \in Threads : (Serves(t, c)' <=> Serves(t, c)) /\ (Serves(t, c) => msg'[t] = msg[t]),
         Owed(c) \/ AtRest(c)
  PROVE  (Owed(c) \/ AtRest(c))'
<1>1. Quiet(c)' <=> Quiet(c)
  <2>1. Quiet(c)' <=> up'[c] = << >> /\ down'[c] = << >> /\ \A t \in Threads : ~ Serves(t, c)'
    BY DEF Quiet, Serves, Answering
  <2> QED
    BY <2>1, QuietIs
<1>2. AtRest(c) => AtRest(c)'
  BY <1>1 DEF AtRest
<1>3. Asked(c) => Asked(c)'
  BY DEF Asked
<1>4. InHand(c) => InHand(c)'
  BY DEF InHand
<1>5. Answered(c) => Answered(c)'
  BY DEF Answered
<1>6. Owed(c) => Owed(c)'
  BY <1>3, <1>4, <1>5 DEF Owed
<1> QED
  BY <1>2, <1>6

\* The steps that change whom threads serve, or what they have to answer.
LEMMA ServesAsBefore ==
  ASSUME Types, Roomy, Memory, Prompt, "late" \notin mishaps', [Next]_vars,
         \A t \in Threads : ~ ReadQuery(t) /\ ~ ReadEnd(t) /\ ~ Send(t)
  PROVE  \A t \in Threads, c \in Clients :
           (Serves(t, c)' <=> Serves(t, c)) /\ (Serves(t, c) => msg'[t] = msg[t])
<1> DEFINE Ok == \A t \in Threads, c \in Clients :
                   (Serves(t, c)' <=> Serves(t, c)) /\ (Serves(t, c) => msg'[t] = msg[t])
<1>l. "late" \notin mishaps
  BY MishapsGrow
<1>1. ASSUME \A t \in Threads : Answering(t)' <=> Answering(t),
             \A t \in Threads : Answering(t) => msg'[t] = msg[t] /\ Peer(t)' = Peer(t)
      PROVE  Ok
  BY <1>1 DEF Serves
<1>2. CASE Accept
  <2>1. UNCHANGED <<pc, sock, msg>>
    BY <1>2 DEF Accept, threadVars
  <2>2. \A t \in Threads : Answering(t)' <=> Answering(t)
    BY <2>1 DEF Answering, Busy, Searching
  <2>3. clnt_sock' \in Fds /\ conn[clnt_sock'] = Nobody
    BY <1>2, AcceptIs
  <2>4. \A t \in Threads : sock[t] # clnt_sock'
    BY <1>l, <2>3 DEF Prompt
  <2>5. \A t \in Threads : Peer(t)' = Peer(t)
    BY <1>2, <2>1, <2>3, <2>4 DEF Accept, Types, Peer
  <2> QED
    BY <1>1, <2>1, <2>2, <2>5
<1>3. CASE Register
  BY <1>1, <1>3 DEF Register, threadVars, Answering, Busy, Searching, Peer
<1>4. CASE Create
  <2>1. UNCHANGED <<conn, sock, msg>> /\ pc' = [pc EXCEPT ![created'] = "born"]
        /\ created' = created + 1
    BY <1>4 DEF Create
  <2>2. created \in Nat /\ created' > created
    BY <2>1, NIs DEF Types
  <2>3. created' \in Threads => pc[created'] = "unborn"
    BY <2>2 DEF Types
  <2>4. \A t \in Threads : pc'[t] = pc[t] \/ (pc'[t] = "born" /\ pc[t] = "unborn")
    BY <2>1, <2>3 DEF Types
  <2>5. \A t \in Threads : Answering(t)' <=> Answering(t)
    BY <2>4 DEF Answering, Busy, Searching
  <2>6. \A t \in Threads : Peer(t)' = Peer(t)
    BY <2>1 DEF Peer
  <2> QED
    BY <1>1, <2>1, <2>5, <2>6
<1>5. ASSUME NEW t \in Threads, ClientThread(t) PROVE Ok
  <2>1. CASE Start(t) \/ RemoveSock(t)
    <3>1. UNCHANGED <<conn, msg>> /\ ~ Answering(t) /\ \A u \in Threads \ {t} : sock'[u] = sock[u]
      BY <2>1 DEF Start, RemoveSock, mainVars, Types, Answering, Busy, Searching
    <3>2. \A u \in Threads \ {t} : pc'[u] = pc[u]
      BY <2>1 DEF Start, RemoveSock, Types
    <3>3. ~ Answering(t)'
      BY <2>1 DEF Start, RemoveSock, Types, Answering, Busy, Searching
    <3>4. \A u \in Threads \ {t} : (Answering(u)' <=> Answering(u)) /\ Peer(u)' = Peer(u)
      BY <3>1, <3>2 DEF Answering, Busy, Searching, Peer
    <3> QED
      BY <1>1, <3>1, <3>3, <3>4
  <2>2. CASE Close(t)
    <3>1. /\ pc[t] = "close" /\ pc' = [pc EXCEPT ![t] = "end"]
          /\ sock' = [sock EXCEPT ![t] = serv_sock] /\ msg' = [msg EXCEPT ![t] = << >>]
      BY <2>2 DEF Close
    <3>2. ~ Answering(t) /\ ~ Answering(t)' /\ sock[t] \in Fds
      BY <3>1 DEF Types, Answering, Busy, Searching
    <3>3. \A u \in Threads \ {t} : pc'[u] = pc[u] /\ sock'[u] = sock[u] /\ msg'[u] = msg[u]
      BY <3>1 DEF Types, Memory
    <3>4. \A f \in Fds \ {sock[t]} : conn'[f] = conn[f]
      BY <2>2, <3>2 DEF Close, Types
    <3>5. \A u \in Threads \ {t} : sock[u] # sock[t]
      BY <1>l, <3>2 DEF Prompt
    <3>6. \A u \in Threads \ {t} : Peer(u)' = Peer(u)
      BY <3>3, <3>4, <3>5 DEF Peer
    <3>7. \A u \in Threads \ {t} : Answering(u)' <=> Answering(u)
      BY <3>3 DEF Answering, Busy, Searching
    <3> QED
      BY <1>1, <3>2, <3>3, <3>6, <3>7
  <2>3. CASE Begin(t) \/ Alloc(t) \/ Fill(t) \/ Find(t) \/ FindNowhere(t) \/ End(t) \/ Sort(t)
    <3>1. /\ UNCHANGED <<conn, sock, msg>> /\ Answering(t)
      BY <2>3 DEF Begin, Alloc, Fill, Find, FindNowhere, End, Sort, mainVars, threadVars,
                  Answering, Busy, Searching
    <3>2. pc' = pc \/ \E x \in {"alloc", "fill", "find", "sort", "send"} : pc' = [pc EXCEPT ![t] = x]
      BY <2>3 DEF Begin, Alloc, Fill, Find, FindNowhere, End, Sort, threadVars
    <3>3. Answering(t)' /\ \A u \in Threads \ {t} : pc'[u] = pc[u]
      BY <3>1, <3>2 DEF Types, Answering, Busy, Searching
    <3>4. \A u \in Threads : Answering(u)' <=> Answering(u)
      BY <3>1, <3>3 DEF Answering, Busy, Searching
    <3>5. \A u \in Threads : Peer(u)' = Peer(u)
      BY <3>1 DEF Peer
    <3> QED
      BY <1>1, <3>1, <3>4, <3>5
  <2> QED
    BY <1>5, <2>1, <2>2, <2>3 DEF ClientThread
<1>6. ASSUME UNCHANGED <<conn, sock, pc, msg>> PROVE Ok
  BY <1>1, <1>6 DEF Answering, Busy, Searching, Peer
<1>7. UNCHANGED vars \/ (\E c \in Clients : ClientProgram(c) \/ User(c)) => UNCHANGED <<conn, sock, pc, msg>>
  BY DEF vars, ClientProgram, User, Clear, ReadAnswer, Type, Quit, mainVars, threadVars
<1> QED
  BY <1>2, <1>3, <1>4, <1>5, <1>6, <1>7 DEF Next, ProgramStep, MainThread

LEMMA CurrentNext ==
  ASSUME Types, Roomy, Memory, Ends, Prompt, Distinct, Users, AnswersAreRight, Current, [Next]_vars
  PROVE  Current'
<1> DEFINE Good(c) == client[c] # "gone" => Owed(c) \/ AtRest(c)
<1>0. SUFFICES ASSUME Orderly' PROVE \A c \in Clients : Good(c)'
  BY DEF Current
<1>1. "late" \notin mishaps' /\ "hurried" \notin mishaps' /\ "overlap" \notin mishaps'
      /\ "wiped" \notin mishaps' /\ ~ killed'
  BY <1>0 DEF Orderly
<1>2. mishaps \subseteq mishaps'
  BY MishapsGrow
<1>3. ~ killed
  BY <1>1 DEF Next, ProgramStep, MainThread, ClientThread, ClientProgram, User, vars
<1>4. Orderly /\ "late" \notin mishaps
  BY <1>1, <1>2, <1>3 DEF Orderly
<1>5. \A c \in Clients : Good(c)
  BY <1>4 DEF Current
<1> HIDE DEF Good
\* Client c does not notice the step.
<1>6. ASSUME NEW c \in Clients, UNCHANGED <<up[c], down[c], word[c], shown[c], client[c]>>,
             \A t \in Threads : (Serves(t, c)' <=> Serves(t, c)) /\ (Serves(t, c) => msg'[t] = msg[t])
      PROVE  Good(c)'
  BY <1>5, <1>6, Unnoticed DEF Good
<1>7. ASSUME NEW t \in Threads, ReadQuery(t) PROVE \A c \in Clients : Good(c)'
  <2>d. PICK d : d = Peer(t)
    OBVIOUS
  <2>1. /\ UNCHANGED <<conn, sock, down, word, shown, client>>
        /\ pc[t] = "read" /\ pc' = [pc EXCEPT ![t] = "begin"] /\ d \in Clients
    BY <1>7, <2>d, PeerIs DEF ReadQuery, mainVars, clientVars
  <2>2. PICK k \in 1 .. Len(up[d]) :
          /\ msg' = [msg EXCEPT ![t] = FlattenSeq(SubSeq(up[d], 1, k))]
          /\ up' = [up EXCEPT ![d] = SubSeq(@, k + 1, Len(@))]
    BY <1>7, <2>d DEF ReadQuery
  <2>3. pc'[t] = "begin" /\ ~ Answering(t) /\ Answering(t)'
        /\ \A u \in Threads \ {t} : pc'[u] = pc[u] /\ msg'[u] = msg[u]
    BY <2>1, <2>2 DEF Types, Memory, Answering, Busy, Searching
  <2>4. \A u \in Threads : Peer(u)' = Peer(u)
    BY <2>1 DEF Peer
  <2>5. \A u \in Threads \ {t} : Answering(u)' <=> Answering(u)
    BY <2>3 DEF Answering, Busy, Searching
  <2>6. ASSUME NEW c \in Clients, c # d PROVE Good(c)'
    <3>1. up'[c] = up[c]
      BY <2>1, <2>2, <2>6 DEF Ends
    <3>2. ~ Serves(t, c) /\ ~ Serves(t, c)'
      BY <2>d, <2>4, <2>6 DEF Serves
    <3>3. \A u \in Threads \ {t} : Serves(u, c)' <=> Serves(u, c)
      BY <2>4, <2>5 DEF Serves
    <3> QED
      BY <1>6, <2>1, <2>3, <3>1, <3>2, <3>3
  <2>7. Good(d)'
    <3>1. SUFFICES ASSUME client'[d] # "gone" PROVE Owed(d)'
      BY DEF Good
    <3>2. up[d] # << >>
      BY <2>2
    <3>3. Asked(d) /\ (client[d] = "on" => shown[d] = << >>)
      BY <1>5, <2>1, <3>1, <3>2, QuietIs DEF Good, Owed, InHand, Answered, AtRest
    <3>4. up[d] = <<word[d]>> /\ down[d] = << >>
      BY <3>3 DEF Asked
    <3>5. Len(up[d]) = 1 /\ k = 1
      <4>1. Len(<<word[d]>>) = 1
        OBVIOUS
      <4>2. Len(up[d]) = 1
        BY <3>4, <4>1, Zenon
      <4> QED
        BY <4>2
    <3>6. SubSeq(up[d], 1, k) = <<word[d]>> /\ SubSeq(up[d], k + 1, Len(up[d])) = << >>
      <4>1. SubSeq(up[d], 1, 1) = <<word[d]>> /\ SubSeq(up[d], 1 + 1, 1) = << >>
        BY <3>4, OnlyOne
      <4> QED
        BY <3>5, <4>1
    <3>9. FlattenSeq(SubSeq(up[d], 1, k)) = word[d]
      BY <3>6, FlattenOne
    <3>10. msg'[t] = word[d] /\ up'[d] = << >>
      BY <2>1, <2>2, <3>6, <3>9 DEF Memory, Ends
    <3>7. Serves(t, d)'
      BY <2>d, <2>3, <2>4 DEF Serves
    <3>8. InHand(d)'
      BY <2>1, <3>4, <3>10, <3>7 DEF InHand
    <3> QED
      BY <2>1, <3>3, <3>8 DEF Owed
  <2> QED
    BY <2>6, <2>7
<1>8. ASSUME NEW t \in Threads, ReadEnd(t) PROVE \A c \in Clients : Good(c)'
  <2>1. UNCHANGED <<conn, sock, msg, up, down, word, shown, client>> /\ pc[t] = "read"
    BY <1>8 DEF ReadEnd, mainVars, clientVars
  <2>2. \E x \in {"begin", "remove"} : pc' = [pc EXCEPT ![t] = x]
    BY <1>8 DEF ReadEnd, AfterEnd
  <2>3. \A u \in Threads \ {t} : pc'[u] = pc[u]
    BY <2>2 DEF Types
  <2>4. \A u \in Threads : Peer(u)' = Peer(u)
    BY <2>1 DEF Peer
  <2>5. \A u \in Threads \ {t} : Answering(u)' <=> Answering(u)
    BY <2>3 DEF Answering, Busy, Searching
  <2>6. ASSUME NEW c \in Clients PROVE Good(c)'
    <3>1. CASE client[c] = "gone"
      BY <2>1, <3>1 DEF Good
    <3>2. CASE client[c] # "gone"
      <4>1. hung[c] = "open"
        BY <3>2 DEF Users
      <4>2. Peer(t) # c
        BY <1>8, <4>1, SearchServerAssumption DEF ReadEnd
      <4>3. ~ Serves(t, c) /\ ~ Serves(t, c)'
        BY <2>4, <4>2 DEF Serves
      <4>4. \A u \in Threads \ {t} : Serves(u, c)' <=> Serves(u, c)
        BY <2>4, <2>5 DEF Serves
      <4> QED
        BY <1>6, <2>1, <4>3, <4>4
    <3> QED
      BY <3>1, <3>2
  <2> QED
    BY <2>6
<1>9. ASSUME NEW t \in Threads, Send(t) PROVE \A c \in Clients : Good(c)'
  <2>d. PICK d : d = Peer(t)
    OBVIOUS
  <2>1. UNCHANGED <<conn, sock, msg, up, word, shown, client>> /\ pc[t] = "send"
        /\ pc' = [pc EXCEPT ![t] = "read"]
    BY <1>9 DEF Send, AfterAnswer, mainVars, clientVars
  <2>2. Answering(t) /\ ~ Answering(t)' /\ \A u \in Threads \ {t} : pc'[u] = pc[u]
    BY <2>1 DEF Types, Answering, Busy, Searching
  <2>3. \A u \in Threads : Peer(u)' = Peer(u)
    BY <2>1 DEF Peer
  <2>4. \A u \in Threads \ {t} : Answering(u)' <=> Answering(u)
    BY <2>2 DEF Answering, Busy, Searching
  <2>5. ASSUME NEW c \in Clients, c # d PROVE Good(c)'
    <3>1. down'[c] = down[c]
      BY <1>9, <2>d, <2>5 DEF Send, Memory
    <3>2. ~ Serves(t, c) /\ ~ Serves(t, c)'
      BY <2>d, <2>3, <2>5 DEF Serves
    <3>3. \A u \in Threads \ {t} : Serves(u, c)' <=> Serves(u, c)
      BY <2>3, <2>4 DEF Serves
    <3> QED
      BY <1>6, <2>1, <3>1, <3>2, <3>3
  <2>6. ASSUME d \in Clients PROVE Good(d)'
    <3>1. SUFFICES ASSUME client'[d] # "gone" PROVE Owed(d)'
      BY DEF Good
    <3>2. hung[d] = "open" /\ d # Nobody
      BY <2>1, <2>6, <3>1, SearchServerAssumption DEF Users
    <3>3. PICK x : down' = [down EXCEPT ![d] = Append(@, x)] /\ x.msg = msg[t] /\ x.clean = clean[t]
      <4>1. PICK l : down' = [down EXCEPT ![d] = Append(@, [msg |-> msg[t], list |-> l, clean |-> clean[t]])]
        BY <1>9, <2>d, <2>6, <3>2 DEF Send
      <4>2. PICK x : x = [msg |-> msg[t], list |-> l, clean |-> clean[t]]
        OBVIOUS
      <4>3. down' = [down EXCEPT ![d] = Append(@, x)] /\ x.msg = msg[t] /\ x.clean = clean[t]
        BY <4>1, <4>2
      <4> QED
        BY <4>3
    <3>4. Serves(t, d)
      BY <2>d, <2>2 DEF Serves
    <3>5. InHand(d) /\ (client[d] = "on" => shown[d] = << >>)
      BY <1>5, <2>1, <2>6, <3>1, <3>4, QuietIs DEF Good, Owed, Asked, Answered, AtRest
    <3>6. PICK u \in Threads : Serves(u, d) /\ msg[u] = word[d]
      BY <3>5 DEF InHand
    <3>7. \A v \in Threads : Serves(v, d) => v = t
      BY <1>4, <2>d, <3>2, OneServes DEF Serves
    <3>8. msg[t] = word[d] /\ x.clean
      BY <1>1, <1>2, <3>3, <3>6, <3>7 DEF Users
    <3>9. down'[d] = <<x>>
      <4>1. down[d] = << >>
        BY <3>5 DEF InHand
      <4> QED
        BY <2>6, <3>3, <4>1 DEF Memory
    <3>10. \A v \in Threads : ~ Serves(v, d)'
      BY <2>2, <2>3, <2>4, <3>7 DEF Serves
    <3>11. Answered(d)'
      BY <2>1, <3>3, <3>5, <3>8, <3>9, <3>10 DEF Answered, InHand
    <3> QED
      BY <2>1, <3>5, <3>11 DEF Owed
  <2> QED
    BY <2>5, <2>6
<1>10. ASSUME \A t \in Threads : ~ ReadQuery(t) /\ ~ ReadEnd(t) /\ ~ Send(t)
       PROVE  \A t \in Threads, c \in Clients :
                (Serves(t, c)' <=> Serves(t, c)) /\ (Serves(t, c) => msg'[t] = msg[t])
  BY <1>1, <1>10, ServesAsBefore
\* Steps of a client change no thread.
<1>11. ASSUME UNCHANGED <<conn, sock, pc, msg>>
       PROVE  \A t \in Threads, c \in Clients :
                (Serves(t, c)' <=> Serves(t, c)) /\ (Serves(t, c) => msg'[t] = msg[t])
  BY <1>11 DEF Serves, Answering, Busy, Searching, Peer
<1>12. ASSUME NEW d \in Clients, Type(d) PROVE \A c \in Clients : Good(c)'
  <2>1. UNCHANGED <<conn, sock, pc, msg, down, shown>> /\ client' = [client EXCEPT ![d] = "typed"]
        /\ Quiet(d) /\ client[d] = "on"
    BY <1>1, <1>12 DEF Type, mainVars, threadVars
  <2>2. \A t \in Threads, c \in Clients :
                (Serves(t, c)' <=> Serves(t, c)) /\ (Serves(t, c) => msg'[t] = msg[t])
    BY <1>11, <2>1
  <2>3. \A c \in Clients \ {d} : UNCHANGED <<up[c], word[c], client[c]>>
    BY <1>12, <2>1 DEF Type, Users, Ends
  <2>4. up[d] = << >> /\ down[d] = << >> /\ \A t \in Threads : ~ Serves(t, d)
    BY <2>1, QuietIs
  <2>5. client'[d] = "typed"
    BY <2>1 DEF Users
  <2>6. CASE word'[d] = << >>
    <3>1. up'[d] = << >>
      BY <1>12, <2>4, <2>6 DEF Type
    <3>2. Quiet(d)'
      <4>1. Quiet(d)' <=> up'[d] = << >> /\ down'[d] = << >> /\ \A t \in Threads : ~ Serves(t, d)'
        BY DEF Quiet, Serves, Answering
      <4> QED
        BY <2>1, <2>2, <2>4, <3>1, <4>1
    <3>3. Good(d)'
      BY <2>6, <3>2 DEF Good, AtRest
    <3> QED
      BY <1>6, <2>1, <2>2, <2>3, <3>3
  <2>7. CASE word'[d] # << >>
    <3>1. up'[d] = <<word'[d]>>
      BY <1>12, <2>4, <2>7 DEF Type, Ends
    <3>2. Asked(d)'
      BY <2>1, <2>2, <2>4, <3>1 DEF Asked
    <3>3. Good(d)'
      BY <2>5, <3>2 DEF Good, Owed
    <3> QED
      BY <1>6, <2>1, <2>2, <2>3, <3>3
  <2> QED
    BY <2>6, <2>7
<1>13. ASSUME NEW d \in Clients, Clear(d) PROVE \A c \in Clients : Good(c)'
  <2>1. UNCHANGED <<conn, sock, pc, msg, up, down, word>> /\ client' = [client EXCEPT ![d] = "on"]
        /\ client[d] = "typed" /\ shown' = [shown EXCEPT ![d] = << >>]
    BY <1>13 DEF Clear, Blank, mainVars, threadVars, netVars
  <2>2. \A t \in Threads, c \in Clients :
                (Serves(t, c)' <=> Serves(t, c)) /\ (Serves(t, c) => msg'[t] = msg[t])
    BY <1>11, <2>1
  <2>3. \A c \in Clients \ {d} : UNCHANGED <<shown[c], client[c]>>
    BY <2>1 DEF Users
  <2>4. shown'[d] = << >> /\ client'[d] = "on"
    BY <2>1 DEF Users
  <2>5. Owed(d) \/ AtRest(d)
    BY <1>5, <2>1 DEF Good
  <2>6. CASE Owed(d)
    <3>1. Asked(d)' \/ InHand(d)' \/ Answered(d)'
      BY <2>1, <2>2, <2>6 DEF Owed, Asked, InHand, Answered
    <3> QED
      BY <1>6, <2>1, <2>2, <2>3, <2>4, <3>1 DEF Good, Owed
  <2>7. CASE AtRest(d)
    <3>1. word[d] = << >> /\ Quiet(d)
      BY <2>1, <2>7 DEF AtRest
    <3>2. Quiet(d)'
      <4>1. Quiet(d)' <=> up'[d] = << >> /\ down'[d] = << >> /\ \A t \in Threads : ~ Serves(t, d)'
        BY DEF Quiet, Serves, Answering
      <4> QED
        BY <2>1, <2>2, <3>1, <4>1, QuietIs
    <3> QED
      BY <1>6, <2>1, <2>2, <2>3, <3>1, <3>2 DEF Good, AtRest
  <2> QED
    BY <2>5, <2>6, <2>7
<1>14. ASSUME NEW d \in Clients, ReadAnswer(d) PROVE \A c \in Clients : Good(c)'
  <2>1. UNCHANGED <<conn, sock, pc, msg, up, client, word>> /\ client[d] = "on" /\ down[d] # << >>
        /\ down' = [down EXCEPT ![d] = Tail(@)]
        /\ shown' = [shown EXCEPT ![d] = LET list == Head(down[d]).list IN
                                           list \o SubSeq(@, Len(list) + 1, Len(@))]
    BY <1>1, <1>14 DEF ReadAnswer, mainVars, threadVars
  <2>2. \A t \in Threads, c \in Clients :
                (Serves(t, c)' <=> Serves(t, c)) /\ (Serves(t, c) => msg'[t] = msg[t])
    BY <1>11, <2>1
  <2>3. \A c \in Clients \ {d} : UNCHANGED <<shown[c], down[c]>>
    BY <2>1 DEF Users, Memory
  <2>4. Answered(d) /\ shown[d] = << >>
    BY <1>5, <2>1, QuietIs DEF Good, Owed, Asked, InHand, AtRest
  <2>5. PICK x : down[d] = <<x>> /\ x.msg = word[d] /\ x.clean
    BY <2>4 DEF Answered
  <2>6. x.list = RightAnswer(word[d])
    <3>1. 1 \in 1 .. Len(down[d]) /\ down[d][1] = x
      BY <2>5
    <3> QED
      BY <2>5, <3>1 DEF AnswersAreRight
  <2>7. Head(down[d]) = x /\ Tail(down[d]) = << >>
    BY <2>5
  <2>8. down'[d] = << >> /\ shown'[d] = x.list \o SubSeq(shown[d], Len(x.list) + 1, Len(shown[d]))
    BY <2>1, <2>7 DEF Users, Memory
  <2>9. shown'[d] = RightAnswer(word[d])
    BY <2>4, <2>6, <2>8, AnswerShows
  <2>10. up[d] = << >> /\ \A t \in Threads : ~ Serves(t, d)
    BY <2>4 DEF Answered
  <2>11. Quiet(d)'
    <3>1. Quiet(d)' <=> up'[d] = << >> /\ down'[d] = << >> /\ \A t \in Threads : ~ Serves(t, d)'
      BY DEF Quiet, Serves, Answering
    <3> QED
      BY <2>1, <2>2, <2>8, <2>10, <3>1
  <2>12. Good(d)'
    BY <2>1, <2>9, <2>11 DEF Good, AtRest
  <2> QED
    BY <1>6, <2>1, <2>2, <2>3, <2>12
<1>15. ASSUME NEW d \in Clients, Quit(d) PROVE \A c \in Clients : Good(c)'
  <2>1. UNCHANGED <<conn, sock, pc, msg>> /\ client'[d] = "gone"
    BY <1>15 DEF Quit, mainVars, threadVars, Users
  <2>2. \A t \in Threads, c \in Clients :
                (Serves(t, c)' <=> Serves(t, c)) /\ (Serves(t, c) => msg'[t] = msg[t])
    BY <1>11, <2>1
  <2>3. \A c \in Clients \ {d} : UNCHANGED <<up[c], down[c], word[c], shown[c], client[c]>>
    BY <1>15 DEF Quit, Users, Ends, Memory
  <2>4. Good(d)'
    BY <2>1 DEF Good
  <2> QED
    BY <1>6, <2>2, <2>3, <2>4
<1>16. ASSUME UNCHANGED <<up, down, word, shown, client>>,
              \A t \in Threads : ~ ReadQuery(t) /\ ~ ReadEnd(t) /\ ~ Send(t)
       PROVE  \A c \in Clients : Good(c)'
  BY <1>6, <1>10, <1>16
<1>17. MainThread \/ UNCHANGED vars => UNCHANGED <<up, down, word, shown, client>>
  BY DEF MainThread, Accept, Register, Create, vars, clientVars, netVars
<1>18. ASSUME NEW t \in Threads, ClientThread(t), ~ ReadQuery(t), ~ ReadEnd(t), ~ Send(t)
       PROVE  UNCHANGED <<up, down, word, shown, client>>
  <2>1. CASE Start(t) \/ RemoveSock(t) \/ Close(t)
    BY <2>1 DEF Start, RemoveSock, Close, clientVars, netVars
  <2>2. CASE Begin(t) \/ Alloc(t) \/ Fill(t) \/ End(t)
    BY <2>2 DEF Begin, Alloc, Fill, End, clientVars, netVars
  <2>3. CASE Find(t) \/ FindNowhere(t) \/ Sort(t)
    BY <2>3 DEF Find, FindNowhere, Sort, clientVars, netVars
  <2> QED
    BY <1>18, <2>1, <2>2, <2>3 DEF ClientThread
<1> QED
  BY <1>7, <1>8, <1>9, <1>12, <1>13, <1>14, <1>15, <1>16, <1>17, <1>18
  DEF Next, ProgramStep, ClientProgram, User

\* What is known of the clients' screens.
Shows == Distinct /\ Users /\ Current

LEMMA ShowsCorrect == Spec => []Shows
<1>1. Init => Shows
  <2> SUFFICES ASSUME Init PROVE Shows
    OBVIOUS
  <2>1. \A t \in Threads : ~ Answering(t)
    BY DEF Init, Answering, Busy, Searching
  <2>2. \A c \in Clients : /\ client[c] = "on" /\ word[c] = << >> /\ hung[c] = "open"
                           /\ up[c] = << >> /\ down[c] = << >>
    BY DEF Init
  <2>3. Users
    BY DEF Init, Users
  <2>4. \A c \in Clients : AtRest(c)
    BY <2>1, <2>2, QuietIs DEF AtRest, Serves
  <2> QED
    BY <2>3, <2>4, DistinctInit DEF Shows, Current
<1>2. Inv /\ Answers /\ Shows /\ [Next]_vars => Shows'
  BY DistinctNext, UsersNext, CurrentNext DEF Inv, Answers, Shows
<1> QED
  BY <1>1, <1>2, InvCorrect, AnswersCorrect, PTL DEF Spec

\* What a user who waits for the answers sees is the answer to what is typed now
\* (client.c clears the screen after the write(), and prints line over line), unless a
\* thread has started late, two searches have overlapped or an answer has come before
\* the screen was cleared.
THEOREM ShownIsCurrentCorrect == Spec => []ShownIsCurrent
<1>1. ASSUME Users, Current PROVE ShownIsCurrent
  <2> SUFFICES ASSUME mishaps \cap {"late", "hurried", "overlap", "wiped"} = {}, ~ killed,
                      NEW c \in Clients, client[c] = "on", word[c] # << >>, Quiet(c)
               PROVE  shown[c] = RightAnswer(word[c])
    BY DEF ShownIsCurrent
  <2>1. Owed(c) \/ AtRest(c)
    BY <1>1 DEF Current, Orderly
  <2>2. ~ Owed(c)
    <3>1. up[c] = << >> /\ down[c] = << >> /\ \A t \in Threads : ~ Serves(t, c)
      BY QuietIs
    <3>2. \A x : <<x>> # << >>
      OBVIOUS
    <3>3. ~ Asked(c) /\ ~ Answered(c)
      BY <3>1, <3>2, Zenon DEF Asked, Answered
    <3> QED
      BY <3>1, <3>3 DEF Owed, InHand
  <2> QED
    BY <2>1, <2>2 DEF AtRest
<1> QED
  BY <1>1, ShowsCorrect, PTL DEF Shows

================================================================================
