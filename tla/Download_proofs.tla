---------------------------- MODULE Download_proofs ----------------------------
(***************************************************************************)
(* What TLAPS proves about Download, for any number of clients, names and  *)
(* blocks: both of its safety properties.                                  *)
(***************************************************************************)
EXTENDS Download, SequenceTheorems, TLAPS

Messages == {"yes", "file name", "name", "data", "eof", "reset"}

\* s is n times what, then the end of the connection.
Rest(s, what, n) ==
  /\ Len(s) = n + 1
  /\ s[n + 1] = "eof"
  /\ \A j \in 1 .. n : s[j] = what

\* Those whose connection waits to be accepted.
Waiting == {backlog[k] : k \in 1 .. Len(backlog)}

Types ==
  /\ server \in {"accept first", "list", "accept second", "file", "down", "crashed"}
  /\ server \in {"list", "file"} => clnt_sock \in Clients
  /\ backlog \in Seq(Clients)
  /\ client \in [Clients -> {"start", "greet", "list", "pick", "ask", "file", "saved",
                             "failed"}]
  /\ up \in [Clients -> Seq(Messages)]
  /\ down \in [Clients -> Seq(Messages)]
  /\ names \in [Clients -> Nat]
  /\ got \in [Clients -> Nat]

\* There is one message on the way at most, and it tells where its client is.
Sent ==
  \A c \in Clients : up[c] # << >> =>
    /\ Len(up[c]) = 1
    /\ \/ up[c][1] = "yes" /\ client[c] = "list"
       \/ up[c][1] = "file name" /\ client[c] \in {"file", "saved", "failed"}

\* Before the list is sent nobody has got anything.
Early ==
  server \in {"accept first", "list"} => \A c \in Clients :
    client[c] \in {"start", "greet", "list"} /\ names[c] = 0 /\ down[c] = << >>

\* While the server runs, who wants the file waits or has been accepted for it,
\* and what is on its way is the rest of a list.
Open ==
  ~ Ended => \A c \in Clients :
    /\ got[c] = 0
    /\ client[c] \notin {"saved", "failed"}
    /\ client[c] \in {"ask", "file"} =>
         c \in Waiting \/ (server = "file" /\ clnt_sock = c)
    /\ client[c] = "pick" => names[c] = NFiles
    /\ down[c] # << >> => /\ client[c] = "list"
                          /\ names[c] <= NFiles
                          /\ Rest(down[c], "name", NFiles - names[c])

\* Who has come to the file has seen the list.
Listed ==
  \A c \in Clients :
    /\ client[c] \in {"ask", "file", "saved"} => names[c] = NFiles
    /\ got[c] > 0 => client[c] \in {"file", "saved", "failed"} /\ names[c] = NFiles

\* When the server has sent the file, the one it was sent to has the rest of it
\* on its way, and everybody else who wanted it is cut off.
Served ==
  server = "down" => \A c \in Clients : c \notin cut =>
    /\ client[c] # "ask"
    /\ client[c] = "file" => /\ got[c] <= NChunks
                             /\ Rest(down[c], "data", NChunks - got[c])
    /\ client[c] = "saved" => got[c] = NChunks

\* While the server runs, a client is at most once among those who wait and those
\* who have been accepted, and has nothing to read as long as it is.
Alone ==
  ~ Ended =>
    /\ \A j, k \in 1 .. Len(backlog) : backlog[j] = backlog[k] => j = k
    /\ server \in {"list", "file"} => clnt_sock \notin Waiting
    /\ \A c \in Clients :
         c \in Waiting \/ (server \in {"list", "file"} /\ clnt_sock = c) =>
           client[c] \in {"greet", "list", "ask", "file"} /\ down[c] = << >>

NoData(s) == \A j \in 1 .. Len(s) : s[j] # "data"

\* Who is cut off, or is left by a server that could not open the file, has
\* nothing of it and never gets any.
Nothing ==
  Ended => \A c \in Clients :
    server = "crashed" \/ c \in cut => got[c] = 0 /\ NoData(down[c])

Inv == Types /\ Sent /\ Early /\ Open /\ Listed /\ Served /\ Alone /\ Nothing

-------------------------------------------------------------------------------
LEMMA RestWhole ==
  ASSUME NEW n \in Nat, NEW what \in Messages
  PROVE  /\ (<< >> \o [k \in 1 .. n |-> what]) \o <<"eof">> \in Seq(Messages)
         /\ Rest((<< >> \o [k \in 1 .. n |-> what]) \o <<"eof">>, what, n)
<1> DEFINE f == [k \in 1 .. n |-> what]
<1>1. f \in [1 .. n -> Messages] /\ \A k \in 1 .. n : f[k] = what
  OBVIOUS
<1> HIDE DEF f
<1>2. f \in Seq(Messages)
  BY <1>1, SeqDef
<1>3. Len(f) = n
  BY <1>1, <1>2, LenProperties
<1>4. "eof" \in Messages
  BY DEF Messages
<1>5. << >> \o f = f /\ f \o <<"eof">> = Append(f, "eof")
  BY <1>2, <1>4, ConcatEmptySeq, AppendIsConcat
<1>6. /\ Append(f, "eof") \in Seq(Messages)
      /\ Len(Append(f, "eof")) = n + 1
      /\ \A k \in 1 .. n : Append(f, "eof")[k] = f[k]
      /\ Append(f, "eof")[n + 1] = "eof"
  BY <1>2, <1>3, <1>4, AppendProperties
<1>7. Rest(Append(f, "eof"), what, n)
  BY <1>1, <1>6 DEF Rest
<1> QED
  BY <1>5, <1>6, <1>7 DEF f

LEMMA RestTail ==
  ASSUME NEW s \in Seq(Messages), NEW what \in Messages, what # "eof", NEW n \in Nat,
         Rest(s, what, n)
  PROVE  /\ s # << >>
         /\ Head(s) \in {what, "eof"}
         /\ Head(s) = what <=> n > 0
         /\ n > 0 => Rest(Tail(s), what, n - 1)
         /\ n = 0 => Tail(s) = << >>
<1>1. Len(s) = n + 1 /\ s # << >>
  BY EmptySeq DEF Rest
<1>2. /\ Head(s) = s[1]
      /\ Tail(s) \in Seq(Messages)
      /\ Len(Tail(s)) = n
      /\ \A j \in 1 .. n : Tail(s)[j] = s[j + 1]
  BY <1>1, HeadTailProperties
<1>3. Head(s) \in {what, "eof"} /\ (Head(s) = what <=> n > 0)
  BY <1>1, <1>2 DEF Rest
<1>4. n > 0 => Rest(Tail(s), what, n - 1)
  BY <1>1, <1>2 DEF Rest
<1>5. n = 0 => Tail(s) = << >>
  BY <1>2, EmptySeq
<1> QED
  BY <1>1, <1>3, <1>4, <1>5

LEMMA OneMessage ==
  ASSUME NEW m \in Messages
  PROVE  <<m>> \in Seq(Messages) /\ Len(<<m>>) = 1 /\ <<m>>[1] = m
<1>1. <<m>> = [k \in 1 .. 1 |-> m]
  OBVIOUS
<1> DEFINE f == [k \in 1 .. 1 |-> m]
<1>2. f \in [1 .. 1 -> Messages] /\ f[1] = m
  OBVIOUS
<1> HIDE DEF f
<1>3. f \in Seq(Messages)
  BY <1>2, SeqDef
<1>4. Len(f) = 1
  BY <1>2, <1>3, LenProperties
<1> QED
  BY <1>1, <1>2, <1>3, <1>4 DEF f

LEMMA TailOfOne ==
  ASSUME NEW s \in Seq(Messages), Len(s) = 1
  PROVE  Tail(s) = << >> /\ Head(s) = s[1]
<1>1. s # << >>
  BY EmptySeq
<1>2. Tail(s) \in Seq(Messages) /\ Len(Tail(s)) = 0 /\ Head(s) = s[1]
  BY <1>1, HeadTailProperties
<1> QED
  BY <1>2, EmptySeq

LEMMA Interval == \A j \in 1 .. 1 : j = 1
  OBVIOUS

LEMMA NoDataInOne ==
  ASSUME NEW s, Len(s) = 1, s[1] # "data"
  PROVE  NoData(s)
<1>1. \A j \in 1 .. Len(s) : j = 1
  BY Interval
<1> QED
  BY <1>1 DEF NoData

LEMMA NoDataInRest ==
  ASSUME NEW s, NEW n \in Nat, Rest(s, "name", n)
  PROVE  NoData(s)
  BY DEF Rest, NoData

\* What is added to it is not of the file.
LEMMA NoDataAppend ==
  ASSUME NEW s \in Seq(Messages), NoData(s), NEW m \in Messages, m # "data"
  PROVE  NoData(Append(s, m))
<1>1. /\ Len(Append(s, m)) = Len(s) + 1
      /\ Len(s) \in Nat
      /\ \A k \in 1 .. Len(s) : Append(s, m)[k] = s[k]
      /\ Append(s, m)[Len(s) + 1] = m
  BY AppendProperties, LenProperties
<1>2. ASSUME NEW j \in 1 .. Len(Append(s, m)) PROVE Append(s, m)[j] # "data"
  <2>1. CASE j = Len(s) + 1
    BY <1>1, <2>1
  <2>2. CASE j # Len(s) + 1
    <3>1. j \in 1 .. Len(s)
      BY <1>1, <2>2
    <3> QED
      BY <1>1, <3>1 DEF NoData
  <2> QED
    BY <2>1, <2>2
<1> QED
  BY <1>2 DEF NoData

LEMMA NoDataTail ==
  ASSUME NEW s \in Seq(Messages), s # << >>, NoData(s)
  PROVE  NoData(Tail(s)) /\ Head(s) # "data"
<1>1. /\ Len(Tail(s)) = Len(s) - 1
      /\ \A j \in 1 .. Len(Tail(s)) : Tail(s)[j] = s[j + 1]
      /\ Len(s) \in Nat \ {0}
      /\ Head(s) = s[1]
  BY HeadTailProperties, EmptySeq
<1> QED
  BY <1>1 DEF NoData

\* A client's read() takes one message: nothing of the file for who gets nothing.
LEMMA NothingReads ==
  ASSUME Types, Nothing, NEW c \in Clients, down[c] # << >>,
         down' = [down EXCEPT ![c] = Tail(@)],
         UNCHANGED <<server, cut>>,
         Head(down[c]) # "data" => got'[c] = got[c],
         \A d \in Clients : d # c => got'[d] = got[d]
  PROVE  Nothing'
<1>1. /\ down[c] \in Seq(Messages)
      /\ down'[c] = Tail(down[c])
      /\ \A d \in Clients : d # c => down'[d] = down[d]
      /\ Ended' <=> Ended
  BY DEF Types, Ended
<1> SUFFICES ASSUME Ended, NEW d \in Clients, server = "crashed" \/ d \in cut
             PROVE  got'[d] = 0 /\ NoData(down'[d])
  BY <1>1 DEF Nothing, NoData
<1>2. got[d] = 0 /\ NoData(down[d])
  BY DEF Nothing
<1>3. CASE d = c
  BY <1>1, <1>2, <1>3, NoDataTail
<1>4. CASE d # c
  BY <1>1, <1>2, <1>4
<1> QED
  BY <1>3, <1>4

\* As long as the server does not take part, nothing happens to those who wait.
LEMMA AloneKeeps ==
  ASSUME Alone, UNCHANGED <<server, clnt_sock, backlog>>,
         ~ Ended => \A c \in Clients :
           /\ client[c] \in {"greet", "list", "ask", "file"} /\ down[c] = << >>
           => client'[c] \in {"greet", "list", "ask", "file"} /\ down'[c] = << >>
  PROVE  Alone'
<1>1. Waiting' = Waiting /\ (Ended' <=> Ended)
  BY DEF Waiting, Ended
<1> QED
  BY <1>1 DEF Alone

LEMMA InvInit == Init => Inv
<1> SUFFICES ASSUME Init PROVE Inv
  OBVIOUS
<1>1. Types
  <2>1. << >> \in Seq(Messages) /\ << >> \in Seq(Clients)
    BY EmptySeq
  <2> QED
    BY <2>1 DEF Init, Types
<1>2. Sent /\ Early /\ Listed /\ Served
  <2>1. Sent
    BY DEF Init, Sent
  <2>2. Early
    BY DEF Init, Early
  <2>3. Listed
    <3>1. \A c \in Clients : client[c] = "start" /\ got[c] = 0
      BY DEF Init
    <3>2. ~ (0 > 0)
      OBVIOUS
    <3> QED
      BY <3>1, <3>2 DEF Listed
  <2>4. Served
    BY DEF Init, Served
  <2> QED
    BY <2>1, <2>2, <2>3, <2>4
<1>3. Open
  BY DEF Init, Open
<1>4. Alone /\ Nothing
  <2>1. Len(backlog) = 0 /\ server = "accept first"
    <3>1. backlog = << >> /\ server = "accept first"
      BY DEF Init
    <3>2. Len(<< >>) = 0
      OBVIOUS
    <3> QED
      BY <3>1, <3>2
  <2>2. \A j \in 1 .. Len(backlog) : FALSE
    <3>1. Len(backlog) = 0
      BY <2>1
    <3>2. ASSUME NEW n, n = 0 PROVE \A j \in 1 .. n : FALSE
      BY <3>2
    <3> QED
      BY <3>1, <3>2, Zenon
  <2>3. Waiting = {}
    BY <2>2 DEF Waiting
  <2> QED
    BY <2>1, <2>2, <2>3 DEF Alone, Nothing, Ended
<1> QED
  BY <1>1, <1>2, <1>3, <1>4 DEF Inv

LEMMA InvAccept ==
  ASSUME Inv, Accept PROVE Inv'
<1> USE DEF Inv
<1>0. backlog \in Seq(Clients) /\ backlog # << >>
  BY DEF Types, Accept
<1>1. /\ Head(backlog) \in Clients
      /\ Tail(backlog) \in Seq(Clients)
      /\ \A c \in Waiting : c = Head(backlog) \/ c \in Waiting'
  <2>1. Head(backlog) \in Clients /\ Tail(backlog) \in Seq(Clients)
    BY <1>0
  <2>2. ASSUME NEW k \in 1 .. Len(backlog) PROVE backlog[k] = Head(backlog) \/ backlog[k] \in Waiting'
    <3>1. /\ backlog' = Tail(backlog)
          /\ Len(Tail(backlog)) = Len(backlog) - 1
          /\ \A j \in 1 .. Len(Tail(backlog)) : Tail(backlog)[j] = backlog[j + 1]
          /\ Len(backlog) \in Nat
      BY <1>0, HeadTailProperties, LenProperties DEF Accept
    <3>2. CASE k = 1
      BY <1>0, <3>2
    <3>3. CASE k # 1
      <4>1. k - 1 \in 1 .. Len(Tail(backlog)) /\ (k - 1) + 1 = k
        BY <3>1, <3>3
      <4> QED
        BY <3>1, <4>1 DEF Waiting
    <3> QED
      BY <3>2, <3>3
  <2> QED
    BY <2>1, <2>2 DEF Waiting
<1>2. /\ UNCHANGED <<cut, client, up, down, names, got>>
      /\ clnt_sock' = Head(backlog)
      /\ backlog' = Tail(backlog)
      /\ \/ server = "accept first" /\ server' = "list"
         \/ server = "accept second" /\ server' = "file"
  BY DEF Accept
<1>3. Types' /\ Sent' /\ Early' /\ Listed' /\ Served'
  BY <1>1, <1>2 DEF Types, Sent, Early, Listed, Served
<1>4. Open'
  BY <1>1, <1>2 DEF Types, Early, Open, Ended
<1>5. Alone' /\ Nothing'
  <2>1. /\ Len(Tail(backlog)) = Len(backlog) - 1
        /\ \A j \in 1 .. Len(Tail(backlog)) : Tail(backlog)[j] = backlog[j + 1]
        /\ Len(backlog) \in Nat \ {0}
        /\ Head(backlog) = backlog[1]
    BY <1>0, HeadTailProperties, LenProperties, EmptySeq
  <2>2. ~ Ended /\ ~ Ended' /\ server' \in {"list", "file"}
    BY <1>2 DEF Ended
  <2>3. \A j, k \in 1 .. Len(backlog) : backlog[j] = backlog[k] => j = k
    BY <2>2 DEF Alone
  <2>4. ASSUME NEW j \in 1 .. Len(Tail(backlog)), NEW k \in 1 .. Len(Tail(backlog)),
               Tail(backlog)[j] = Tail(backlog)[k]
        PROVE  j = k
    <3>1. j + 1 \in 1 .. Len(backlog) /\ k + 1 \in 1 .. Len(backlog)
      BY <2>1
    <3>2. j + 1 = k + 1
      BY <2>1, <2>3, <2>4, <3>1
    <3> QED
      BY <3>2
  <2>5. ASSUME NEW j \in 1 .. Len(Tail(backlog))
        PROVE  Tail(backlog)[j] # Head(backlog) /\ Tail(backlog)[j] \in Waiting
    <3>1. j + 1 \in 1 .. Len(backlog) /\ 1 \in 1 .. Len(backlog) /\ j + 1 # 1
      BY <2>1
    <3> QED
      BY <2>1, <2>3, <3>1 DEF Waiting
  <2>6. Head(backlog) \notin Waiting' /\ Waiting' \subseteq Waiting
    BY <1>2, <2>5 DEF Waiting
  <2>7. Head(backlog) \in Waiting
    <3>1. 1 \in 1 .. Len(backlog)
      BY <2>1
    <3> QED
      BY <2>1, <3>1 DEF Waiting
  <2>8. \A c \in Clients : c \in Waiting =>
          client'[c] \in {"greet", "list", "ask", "file"} /\ down'[c] = << >>
    BY <1>2, <2>2 DEF Alone
  <2>9. Alone'
    BY <1>2, <2>4, <2>6, <2>7, <2>8 DEF Alone
  <2> QED
    BY <2>2, <2>9 DEF Nothing
<1> QED
  BY <1>3, <1>4, <1>5

LEMMA InvSendList ==
  ASSUME Inv, SendList PROVE Inv'
<1> USE DEF Inv
<1> DEFINE a == clnt_sock
<1>1. /\ a \in Clients
      /\ up[a] # << >> /\ up[a] \in Seq(Messages) /\ Len(up[a]) = 1
      /\ client[a] = "list"
      /\ server = "list"
      /\ down[a] = << >>
      /\ names[a] = 0
  BY DEF SendList, Types, Sent, Early
<1>2. /\ up' = [up EXCEPT ![a] = << >>]
      /\ down' = [down EXCEPT ![a] = (<< >> \o Listing) \o Closing]
      /\ server' = "accept second"
      /\ UNCHANGED <<cut, backlog, client, names, got>>
  <2>1. Tail(up[a]) = << >>
    BY <1>1, TailOfOne
  <2> QED
    BY <1>1, <2>1 DEF SendList
<1> DEFINE l == (<< >> \o Listing) \o Closing
<1>3. l \in Seq(Messages) /\ Rest(l, "name", NFiles)
  BY RestWhole, DownloadAssumption DEF Listing, Closing, Messages
<1> HIDE DEF a, l
<1>4. \A c \in Clients : down'[c] = IF c = a THEN l ELSE << >>
  BY <1>1, <1>2 DEF Types, Early, l
<1>5. Types'
  <2>1. down' \in [Clients -> Seq(Messages)]
    BY <1>1, <1>2, <1>3 DEF Types, l
  <2>2. up' \in [Clients -> Seq(Messages)]
    BY <1>1, <1>2, EmptySeq DEF Types
  <2> QED
    BY <1>1, <1>2, <2>1, <2>2 DEF Types
<1>6. Sent' /\ Early' /\ Listed' /\ Served'
  BY <1>1, <1>2 DEF Types, Sent, Early, Listed, Served
<1>7. Open'
  <2>1. NFiles \in Nat /\ NFiles - 0 = NFiles
    BY DownloadAssumption
  <2>2. Waiting' = Waiting
    BY <1>2 DEF Waiting
  <2>3. \A c \in Clients : /\ client[c] \in {"start", "greet", "list"}
                           /\ names[c] = 0
                           /\ got[c] = 0
    BY <1>1 DEF Early, Open, Ended
  <2> SUFFICES ASSUME NEW c \in Clients
               PROVE  /\ got[c] = 0
                      /\ client[c] \in {"start", "greet", "list"}
                      /\ down'[c] # << >> => /\ client[c] = "list"
                                             /\ names[c] <= NFiles
                                             /\ Rest(down'[c], "name", NFiles - names[c])
    BY <1>2 DEF Open
  <2>4. CASE c = a
    BY <1>1, <1>3, <1>4, <2>1, <2>3, <2>4
  <2>5. CASE c # a
    BY <1>4, <2>3, <2>5
  <2> QED
    BY <2>4, <2>5
<1>8. Alone' /\ Nothing'
  <2>1. Waiting' = Waiting /\ ~ Ended /\ ~ Ended'
    BY <1>1, <1>2 DEF Waiting, Ended
  <2>2. a \notin Waiting
    BY <1>1, <2>1 DEF Alone, a
  <2>3. \A c \in Clients : c \in Waiting =>
          client'[c] \in {"greet", "list", "ask", "file"} /\ down'[c] = << >>
    BY <1>2, <1>4, <2>1, <2>2 DEF Alone
  <2>4. server' \notin {"list", "file"}
    BY <1>2
  <2>5. \A j, k \in 1 .. Len(backlog) : backlog[j] = backlog[k] => j = k
    BY <2>1 DEF Alone
  <2>6. Alone'
    BY <1>2, <2>1, <2>3, <2>4, <2>5 DEF Alone
  <2> QED
    BY <2>1, <2>6 DEF Nothing
<1> QED
  BY <1>5, <1>6, <1>7, <1>8

LEMMA InvSendFile ==
  ASSUME Inv, SendFile PROVE Inv'
<1> USE DEF Inv
<1> DEFINE a == clnt_sock
<1>1. /\ server = "file"
      /\ a \in Clients
      /\ up[a] # << >> /\ up[a] \in Seq(Messages) /\ Len(up[a]) = 1
      /\ Head(up[a]) = up[a][1]
      /\ cut' = Waiting
      /\ \A c \in Clients : got[c] = 0
      /\ backlog' = << >>
      /\ UNCHANGED <<client, names, got>>
  <2>1. /\ server = "file" /\ up[a] # << >> /\ backlog' = << >>
        /\ cut' = Waiting
        /\ UNCHANGED <<client, names, got>>
    BY DEF SendFile, Waiting
  <2>2. a \in Clients /\ up[a] \in Seq(Messages)
    BY <2>1 DEF Types
  <2>3. Len(up[a]) = 1
    BY <2>1, <2>2 DEF Sent
  <2>4. \A c \in Clients : got[c] = 0
    BY <2>1 DEF Open, Ended
  <2> QED
    BY <2>1, <2>2, <2>3, <2>4, TailOfOne
<1>2. up' = [up EXCEPT ![a] = << >>]
  <2>1. Tail(up[a]) = << >>
    BY <1>1, TailOfOne
  <2> QED
    BY <1>1, <2>1 DEF SendFile
<1>3. PICK opened \in BOOLEAN :
        /\ opened => Head(up[a]) = "file name"
        /\ server' = IF opened THEN "down" ELSE "crashed"
        /\ down' = [c \in Clients |->
             IF c = a THEN (down[c] \o IF opened THEN Content ELSE << >>) \o Closing
             ELSE IF c \in cut' THEN Append(down[c], "reset")
             ELSE down[c]]
  BY DEF SendFile
<1>4. /\ Content \in Seq(Messages) /\ << >> \in Seq(Messages) /\ Closing \in Seq(Messages)
      /\ "reset" \in Messages
      /\ backlog' \in Seq(Clients)
  <2>1. Content \in [1 .. NChunks -> Messages]
    BY DEF Content, Messages
  <2>2. Content \in Seq(Messages)
    BY <2>1, SeqDef, DownloadAssumption
  <2>3. Closing \in Seq(Messages)
    BY DEF Closing, Messages
  <2> QED
    BY <1>1, <2>2, <2>3, EmptySeq DEF Messages
<1>5. Types'
  <2>1. ASSUME NEW c \in Clients PROVE down'[c] \in Seq(Messages)
    <3>1. down[c] \in Seq(Messages)
      BY DEF Types
    <3>2. (down[c] \o IF opened THEN Content ELSE << >>) \o Closing \in Seq(Messages)
      BY <1>4, <3>1, ConcatProperties
    <3>3. Append(down[c], "reset") \in Seq(Messages)
      BY <1>4, <3>1, AppendProperties
    <3> QED
      BY <1>3, <3>1, <3>2, <3>3
  <2>2. down' \in [Clients -> Seq(Messages)]
    BY <1>3, <2>1
  <2>3. up' \in [Clients -> Seq(Messages)]
    BY <1>1, <1>2, <1>4 DEF Types
  <2> QED
    BY <1>1, <1>3, <1>4, <2>2, <2>3 DEF Types
<1>6. Sent' /\ Early' /\ Open' /\ Listed'
  <2>1. Sent'
    BY <1>1, <1>2 DEF Types, Sent
  <2> QED
    BY <1>1, <1>3, <2>1 DEF Early, Open, Ended, Listed
<1>7. Served'
  <2> SUFFICES ASSUME opened, NEW c \in Clients, c \notin cut'
               PROVE  /\ client[c] # "ask"
                      /\ client[c] = "file" => /\ got[c] <= NChunks
                                               /\ Rest(down'[c], "data", NChunks - got[c])
                      /\ client[c] = "saved" => got[c] = NChunks
    BY <1>1, <1>3 DEF Served
  <2>1. client[c] \in {"ask", "file"} => c = a
    BY <1>1 DEF Open, Ended
  <2>2. client[c] # "saved" /\ got[c] = 0 /\ client[a] = "file" /\ down[a] = << >>
    BY <1>1, <1>3 DEF Sent, Open, Ended
  <2>3. down'[a] = (<< >> \o Content) \o Closing
    BY <1>1, <1>3, <2>2
  <2>4. Rest(down'[a], "data", NChunks)
    BY <2>3, RestWhole, DownloadAssumption DEF Content, Closing, Messages
  <2>5. NChunks \in Nat /\ NChunks - 0 = NChunks
    BY DownloadAssumption
  <2> QED
    BY <2>1, <2>2, <2>4, <2>5
<1>8. Alone'
  BY <1>1, <1>3 DEF Alone, Ended
<1>9. Nothing'
  <2> SUFFICES ASSUME NEW c \in Clients, ~ opened \/ c \in cut'
               PROVE  NoData(down'[c])
    BY <1>1, <1>3 DEF Nothing
  <2>1. ~ Ended /\ down[c] \in Seq(Messages)
    BY <1>1 DEF Ended, Types
  <2>2. NoData(down[c])
    <3>1. CASE down[c] = << >>
      BY <3>1, EmptySeq DEF NoData
    <3>2. CASE down[c] # << >>
      <4>1. names[c] <= NFiles /\ Rest(down[c], "name", NFiles - names[c])
        BY <2>1, <3>2 DEF Open
      <4>2. NFiles - names[c] \in Nat
        <5>1. names[c] \in Nat /\ NFiles \in Nat
          BY DownloadAssumption DEF Types
        <5> QED
          BY <4>1, <5>1
      <4> QED
        BY <4>1, <4>2, NoDataInRest
    <3> QED
      BY <3>1, <3>2
  <2>3. CASE c = a
    <3>1. a \notin cut'
      BY <1>1, <2>1 DEF Alone
    <3>2. ~ opened /\ down'[c] = (down[c] \o << >>) \o <<"eof">>
      BY <1>3, <2>3, <3>1 DEF Closing
    <3>3. down[c] \o << >> = down[c]
      BY <2>1, ConcatEmptySeq
    <3>4. down'[c] = Append(down[c], "eof")
      BY <1>4, <2>1, <3>2, <3>3, AppendIsConcat
    <3>5. "eof" \in Messages
      BY DEF Messages
    <3> QED
      BY <2>1, <2>2, <3>4, <3>5, NoDataAppend
  <2>4. CASE c # a
    <3>1. down'[c] = Append(down[c], "reset") \/ down'[c] = down[c]
      BY <1>3, <2>4
    <3>2. NoData(Append(down[c], "reset"))
      BY <1>4, <2>1, <2>2, NoDataAppend
    <3> QED
      BY <2>2, <3>1, <3>2
  <2> QED
    BY <2>3, <2>4
<1> QED
  BY <1>5, <1>6, <1>7, <1>8, <1>9

-------------------------------------------------------------------------------
(* The clients. *)

LEMMA InvConnect ==
  ASSUME Inv, NEW c \in Clients, Connect(c) PROVE Inv'
<1> USE DEF Inv
<1>0. UNCHANGED <<server, cut, clnt_sock, up, down, names, got>>
  BY DEF Connect
<1>1. CASE ~ Ended /\ backlog' = Append(backlog, c)
  <2>1. PICK pc \in {"greet", "ask"} :
          /\ client' = [client EXCEPT ![c] = pc]
          /\ client[c] \in {"start", "pick"}
          /\ pc = "ask" => client[c] = "pick"
    BY <1>1 DEF Connect
  <2>2. /\ backlog' \in Seq(Clients)
        /\ \A d \in Waiting : d \in Waiting'
        /\ c \in Waiting'
    <3>1. /\ backlog \in Seq(Clients)
          /\ Append(backlog, c) \in Seq(Clients)
          /\ Len(backlog) \in Nat
          /\ Len(Append(backlog, c)) = Len(backlog) + 1
          /\ \A k \in 1 .. Len(backlog) : Append(backlog, c)[k] = backlog[k]
          /\ Append(backlog, c)[Len(backlog) + 1] = c
      <4>1. backlog \in Seq(Clients)
        BY DEF Types
      <4> QED
        BY <4>1, AppendProperties, LenProperties
    <3> QED
      BY <1>1, <3>1 DEF Waiting
  <2>3. Types'
    BY <1>0, <2>1, <2>2 DEF Types
  <2>4. client'[c] = pc /\ \A d \in Clients : d # c => client'[d] = client[d]
    BY <2>1 DEF Types
  <2>5. Sent' /\ Early' /\ Served'
    BY <1>0, <1>1, <2>1, <2>4 DEF Sent, Early, Served, Ended
  <2>6. Open'
    BY <1>0, <1>1, <2>1, <2>2, <2>4 DEF Open, Ended
  <2>7. Listed'
    BY <1>0, <1>1, <2>1, <2>4 DEF Open, Listed
  <2>8. Alone' /\ Nothing'
    <3>1. /\ backlog \in Seq(Clients) /\ Len(backlog) \in Nat
          /\ Len(backlog') = Len(backlog) + 1
          /\ \A k \in 1 .. Len(backlog) : backlog'[k] = backlog[k]
          /\ backlog'[Len(backlog) + 1] = c
      <4>1. backlog \in Seq(Clients)
        BY DEF Types
      <4> QED
        BY <1>1, <4>1, AppendProperties, LenProperties
    <3>2. \A k \in 1 .. Len(backlog') : k \in 1 .. Len(backlog) \/ k = Len(backlog) + 1
      BY <3>1
    <3>3. /\ c \notin Waiting
          /\ server \in {"list", "file"} => clnt_sock # c
          /\ down[c] = << >>
      BY <1>1, <2>1 DEF Alone, Open
    <3>4. \A k \in 1 .. Len(backlog) : backlog[k] # c
      BY <3>3 DEF Waiting
    <3>5. \A d \in Waiting' : d \in Waiting \/ d = c
      BY <3>1, <3>2 DEF Waiting
    <3>6. \A j, k \in 1 .. Len(backlog') : backlog'[j] = backlog'[k] => j = k
      <4> SUFFICES ASSUME NEW j \in 1 .. Len(backlog'), NEW k \in 1 .. Len(backlog'),
                          backlog'[j] = backlog'[k]
                   PROVE  j = k
        OBVIOUS
      <4>1. CASE j \in 1 .. Len(backlog) /\ k \in 1 .. Len(backlog)
        BY <1>1, <3>1, <4>1 DEF Alone
      <4>2. CASE j = Len(backlog) + 1 /\ k = Len(backlog) + 1
        BY <4>2
      <4>3. CASE j \in 1 .. Len(backlog) /\ k = Len(backlog) + 1
        BY <3>1, <3>4, <4>3
      <4>4. CASE k \in 1 .. Len(backlog) /\ j = Len(backlog) + 1
        BY <3>1, <3>4, <4>4
      <4> QED
        BY <3>2, <4>1, <4>2, <4>3, <4>4
    <3>7. client'[c] \in {"greet", "list", "ask", "file"}
      BY <2>4
    <3>8. Alone'
      BY <1>0, <1>1, <2>4, <3>3, <3>5, <3>6, <3>7 DEF Alone
    <3> QED
      BY <1>0, <1>1, <3>8 DEF Nothing, Ended
  <2> QED
    BY <2>3, <2>5, <2>6, <2>7, <2>8
<1>2. CASE Ended /\ client' = [client EXCEPT ![c] = "failed"]
           /\ client[c] \in {"start", "pick"} /\ backlog' = backlog
  <2>1. client'[c] = "failed" /\ \A d \in Clients : d # c => client'[d] = client[d]
    BY <1>2 DEF Types
  <2>2. Types'
    BY <1>0, <1>2 DEF Types
  <2>3. Sent' /\ Early' /\ Open' /\ Listed' /\ Served'
    BY <1>0, <1>2, <2>1 DEF Sent, Early, Open, Listed, Served, Ended
  <2>4. Alone' /\ Nothing'
    BY <1>0, <1>2 DEF Alone, Nothing, NoData, Ended
  <2> QED
    BY <2>2, <2>3, <2>4
<1> QED
  BY <1>1, <1>2 DEF Connect

LEMMA InvWrite ==
  ASSUME Inv, NEW c \in Clients, Write(c) PROVE Inv'
<1> USE DEF Inv
<1>1. PICK m \in {"yes", "file name"} :
        /\ up' = [up EXCEPT ![c] = <<m>>]
        /\ m = "yes" => client[c] = "greet" /\ client' = [client EXCEPT ![c] = "list"]
        /\ m = "file name" => client[c] = "ask" /\ client' = [client EXCEPT ![c] = "file"]
  BY DEF Write
<1>2. /\ UNCHANGED <<server, cut, clnt_sock, backlog, names, got>>
      /\ down' = down \/ (down[c] # << >> /\ down' = [down EXCEPT ![c] = <<"eof">>])
  BY DEF Write
<1>3. /\ client[c] \in {"greet", "ask"}
      /\ client'[c] \in {"list", "file"}
      /\ client'[c] = "list" <=> m = "yes"
      /\ client[c] = "greet" <=> m = "yes"
      /\ \A d \in Clients : d # c => client'[d] = client[d]
  BY <1>1 DEF Types
<1>4. \A d \in Clients : d # c => down'[d] = down[d] /\ up'[d] = up[d]
  <2>1. \A d \in Clients : d # c => up'[d] = up[d]
    BY <1>1 DEF Types
  <2>2. CASE down' = down
    BY <2>1, <2>2
  <2>3. CASE down' = [down EXCEPT ![c] = <<"eof">>]
    BY <2>1, <2>3 DEF Types
  <2> QED
    BY <1>2, <2>2, <2>3
<1>5. <<m>> \in Seq(Messages) /\ <<"eof">> \in Seq(Messages) /\ Len(<<m>>) = 1 /\ <<m>>[1] = m
  <2>1. m \in Messages /\ "eof" \in Messages
    BY <1>1 DEF Messages
  <2> QED
    BY <2>1, OneMessage
<1>6. up'[c] = <<m>>
  BY <1>1 DEF Types
<1>7. Types'
  <2>1. up' \in [Clients -> Seq(Messages)] /\ down' \in [Clients -> Seq(Messages)]
    BY <1>1, <1>2, <1>5 DEF Types
  <2>2. client' \in [Clients -> {"start", "greet", "list", "pick", "ask", "file", "saved",
                                 "failed"}]
    BY <1>1 DEF Types
  <2> QED
    BY <1>2, <2>1, <2>2 DEF Types
<1>8. Sent'
  <2> SUFFICES ASSUME NEW d \in Clients, up'[d] # << >>
               PROVE  /\ Len(up'[d]) = 1
                      /\ \/ up'[d][1] = "yes" /\ client'[d] = "list"
                         \/ up'[d][1] = "file name" /\ client'[d] \in {"file", "saved", "failed"}
    BY DEF Sent
  <2>1. CASE d = c
    BY <1>3, <1>5, <1>6, <2>1
  <2>2. CASE d # c
    <3>1. up'[d] = up[d] /\ client'[d] = client[d]
      BY <1>3, <1>4, <2>2
    <3> QED
      BY <3>1 DEF Sent
  <2> QED
    BY <2>1, <2>2
<1>9. Open' /\ Early'
  <2>1. ~ Ended => down' = down /\ down[c] = << >>
    BY <1>2, <1>3 DEF Open
  <2>2. Waiting' = Waiting /\ (Ended' <=> Ended)
    BY <1>2 DEF Waiting, Ended
  <2>3. Open'
    BY <1>2, <1>3, <2>1, <2>2 DEF Open
  <2>4. Early'
    BY <1>2, <1>3, <2>1 DEF Early, Ended
  <2> QED
    BY <2>3, <2>4
<1>10. Listed'
  BY <1>2, <1>3 DEF Listed
<1>11. Served'
  BY <1>2, <1>3, <1>4 DEF Served
<1>12. Alone'
  <2>1. ASSUME ~ Ended, NEW d \in Clients,
               client[d] \in {"greet", "list", "ask", "file"}, down[d] = << >>
        PROVE  client'[d] \in {"greet", "list", "ask", "file"} /\ down'[d] = << >>
    <3>1. CASE d = c
      BY <1>2, <1>3, <2>1, <3>1
    <3>2. CASE d # c
      BY <1>3, <1>4, <2>1, <3>2
    <3> QED
      BY <3>1, <3>2
  <2> QED
    BY <1>2, <2>1, AloneKeeps
<1>13. Nothing'
  <2>1. NoData(<<"eof">>)
    <3>1. "eof" \in Messages
      BY DEF Messages
    <3>2. Len(<<"eof">>) = 1 /\ <<"eof">>[1] = "eof"
      BY <3>1, OneMessage
    <3> QED
      BY <3>2, NoDataInOne
  <2> SUFFICES ASSUME Ended, NEW d \in Clients, server = "crashed" \/ d \in cut
               PROVE  got[d] = 0 /\ NoData(down'[d])
    BY <1>2 DEF Nothing, Ended
  <2>2. got[d] = 0 /\ NoData(down[d])
    BY DEF Nothing
  <2>3. down'[d] = down[d] \/ down'[d] = <<"eof">>
    BY <1>2 DEF Types
  <2> QED
    BY <2>1, <2>2, <2>3
<1> QED
  BY <1>7, <1>8, <1>9, <1>10, <1>11, <1>12, <1>13

LEMMA InvReadList ==
  ASSUME Inv, NEW c \in Clients, ReadList(c) PROVE Inv'
<1> USE DEF Inv
<1>0. /\ client[c] = "list"
      /\ down[c] # << >>
      /\ down[c] \in Seq(Messages)
      /\ down' = [down EXCEPT ![c] = Tail(@)]
      /\ UNCHANGED <<server, cut, clnt_sock, backlog, got>>
      /\ got[c] = 0
  <2>1. client[c] = "list" /\ down[c] # << >>
    BY DEF ReadList
  <2>2. down[c] \in Seq(Messages) /\ got[c] \in Nat
    BY DEF Types
  <2>3. got[c] = 0
    BY <2>1, <2>2 DEF Listed
  <2> QED
    BY <2>1, <2>2, <2>3 DEF ReadList
<1>1. /\ Tail(down[c]) \in Seq(Messages)
      /\ down' \in [Clients -> Seq(Messages)]
      /\ down'[c] = Tail(down[c])
      /\ \A d \in Clients : d # c => down'[d] = down[d]
      /\ server \notin {"accept first", "list"}
      /\ Waiting' = Waiting
      /\ Ended' <=> Ended
  BY <1>0, HeadTailProperties DEF Types, Early, Waiting, Ended
<1>2. ~ Ended => /\ names[c] <= NFiles
                 /\ NFiles - names[c] \in Nat
                 /\ Rest(down[c], "name", NFiles - names[c])
  <2>1. NFiles \in Nat /\ names[c] \in Nat
    BY DownloadAssumption DEF Types
  <2>2. ~ Ended => names[c] <= NFiles /\ Rest(down[c], "name", NFiles - names[c])
    BY <1>0 DEF Open
  <2> QED
    BY <2>1, <2>2
<1>3. ~ Ended => /\ Head(down[c]) \in {"name", "eof"}
                 /\ Head(down[c]) = "name" <=> NFiles - names[c] > 0
                 /\ NFiles - names[c] > 0 => Rest(Tail(down[c]), "name", NFiles - names[c] - 1)
                 /\ NFiles - names[c] = 0 => Tail(down[c]) = << >>
  BY <1>0, <1>2, RestTail DEF Messages
<1>4. Alone'
  <2>1. \A d \in Clients : client'[d] = client[d] \/ d = c
    BY DEF ReadList, Types
  <2>2. ASSUME ~ Ended, NEW d \in Clients,
               client[d] \in {"greet", "list", "ask", "file"}, down[d] = << >>
        PROVE  client'[d] \in {"greet", "list", "ask", "file"} /\ down'[d] = << >>
    BY <1>0, <1>1, <2>1, <2>2
  <2> QED
    BY <1>0, <2>2, AloneKeeps
<1>5. Nothing'
  BY <1>0, NothingReads
<1>6. CASE Head(down[c]) = "name"
  <2>1. names' = [names EXCEPT ![c] = @ + 1] /\ UNCHANGED <<client, up>>
    BY <1>6 DEF ReadList
  <2>2. names'[c] = names[c] + 1 /\ \A d \in Clients : d # c => names'[d] = names[d]
    BY <2>1 DEF Types
  <2>3. Types'
    <3>1. names \in [Clients -> Nat]
      BY DEF Types
    <3>2. names[c] + 1 \in Nat
      BY <3>1
    <3>3. names' \in [Clients -> Nat]
      BY <2>1, <3>1, <3>2
    <3> QED
      BY <1>0, <1>1, <2>1, <3>3 DEF Types
  <2>4. Sent' /\ Early' /\ Listed' /\ Served'
    <3>1. Sent'
      BY <2>1 DEF Sent
    <3>2. Early'
      BY <1>0, <1>1 DEF Early
    <3>3. Listed'
      BY <1>0, <2>1, <2>2 DEF Listed
    <3>4. Served'
      BY <1>0, <1>1, <2>1 DEF Served
    <3> QED
      BY <3>1, <3>2, <3>3, <3>4
  <2>5. ~ Ended => names'[c] <= NFiles /\ Rest(down'[c], "name", NFiles - names'[c])
    <3>1. NFiles \in Nat /\ names[c] \in Nat
      BY DownloadAssumption DEF Types
    <3>2. ~ Ended => NFiles - names[c] > 0 /\ NFiles - names[c] - 1 = NFiles - names'[c]
      BY <1>3, <1>6, <2>2, <3>1
    <3>3. ~ Ended => names'[c] <= NFiles
      BY <2>2, <3>1, <3>2
    <3>4. ~ Ended => Rest(down'[c], "name", NFiles - names[c] - 1)
      BY <1>1, <1>3, <3>2
    <3> QED
      BY <3>2, <3>3, <3>4
  <2>6. Open'
    BY <1>0, <1>1, <2>1, <2>2, <2>5 DEF Open
  <2> QED
    BY <1>4, <1>5, <2>3, <2>4, <2>6
<1>7. CASE Head(down[c]) # "name"
  <2>1. /\ client' = [client EXCEPT ![c] = "pick"]
        /\ up' = [up EXCEPT ![c] = << >>]
        /\ names' = names
    BY <1>7 DEF ReadList
  <2>2. /\ client'[c] = "pick"
        /\ \A d \in Clients : d # c => client'[d] = client[d]
        /\ up'[c] = << >>
        /\ \A d \in Clients : d # c => up'[d] = up[d]
    BY <2>1 DEF Types
  <2>3. Types'
    BY <1>0, <1>1, <2>1, EmptySeq DEF Types
  <2>4. Sent' /\ Early' /\ Listed' /\ Served'
    <3>1. \A d \in Clients : up'[d] # << >> => up'[d] = up[d] /\ client'[d] = client[d]
      BY <2>2
    <3>2. Sent'
      BY <3>1 DEF Sent
    <3>3. Early'
      BY <1>0, <1>1 DEF Early
    <3>4. Listed'
      BY <1>0, <2>1, <2>2 DEF Listed
    <3>5. Served'
      BY <1>0, <1>1, <2>2 DEF Served
    <3> QED
      BY <3>2, <3>3, <3>4, <3>5
  <2>5. ~ Ended => names[c] = NFiles /\ down'[c] = << >>
    <3>1. NFiles \in Nat /\ names[c] \in Nat
      BY DownloadAssumption DEF Types
    <3>2. ~ Ended => ~ (NFiles - names[c] > 0)
      BY <1>3, <1>7
    <3>3. ~ Ended => names[c] = NFiles /\ NFiles - names[c] = 0
      BY <1>2, <3>1, <3>2
    <3> QED
      BY <1>1, <1>3, <3>3
  <2>6. Open'
    BY <1>0, <1>1, <2>1, <2>2, <2>5 DEF Open
  <2> QED
    BY <1>4, <1>5, <2>3, <2>4, <2>6
<1> QED
  BY <1>6, <1>7

LEMMA InvReadFile ==
  ASSUME Inv, NEW c \in Clients, ReadFile(c) PROVE Inv'
<1> USE DEF Inv
<1>0. /\ client[c] = "file"
      /\ down[c] # << >>
      /\ down[c] \in Seq(Messages)
      /\ down' = [down EXCEPT ![c] = Tail(@)]
      /\ UNCHANGED <<server, cut, clnt_sock, backlog, up, names>>
      /\ Ended
      /\ names[c] = NFiles
  BY DEF ReadFile, Types, Open, Listed
<1>1. /\ Tail(down[c]) \in Seq(Messages)
      /\ down' \in [Clients -> Seq(Messages)]
      /\ down'[c] = Tail(down[c])
      /\ \A d \in Clients : d # c => down'[d] = down[d]
      /\ Ended'
  BY <1>0, HeadTailProperties DEF Types, Ended
<1>2. PICK pc \in {"file", "saved", "failed"} :
        /\ client' = [client EXCEPT ![c] = pc]
        /\ pc = "file" <=> Head(down[c]) = "data"
        /\ pc = "saved" <=> Head(down[c]) = "eof"
  BY <1>0 DEF ReadFile, Types
<1>3. /\ got' \in [Clients -> Nat]
      /\ got'[c] = IF Head(down[c]) = "data" THEN got[c] + 1 ELSE got[c]
      /\ \A d \in Clients : d # c => got'[d] = got[d]
  <2> DEFINE g == IF Head(down[c]) = "data" THEN got[c] + 1 ELSE got[c]
  <2>1. got \in [Clients -> Nat] /\ g \in Nat
    <3>1. got \in [Clients -> Nat]
      BY DEF Types
    <3>2. got[c] \in Nat /\ got[c] + 1 \in Nat
      BY <3>1
    <3> QED
      BY <3>1, <3>2
  <2>2. got' = [got EXCEPT ![c] = g]
    BY DEF ReadFile
  <2> HIDE DEF g
  <2>3. got' \in [Clients -> Nat] /\ got'[c] = g /\ \A d \in Clients : d # c => got'[d] = got[d]
    BY <2>1, <2>2
  <2> QED
    BY <2>3 DEF g
<1>4. client'[c] = pc /\ \A d \in Clients : d # c => client'[d] = client[d]
  BY <1>2 DEF Types
<1>5. Types'
  BY <1>0, <1>1, <1>2, <1>3 DEF Types
<1>6. Sent' /\ Early' /\ Open' /\ Listed'
  BY <1>0, <1>1, <1>3, <1>4 DEF Sent, Early, Open, Listed, Ended
<1>7. Served'
  <2>1. ASSUME server = "down", c \notin cut
        PROVE  /\ pc = "file" => got'[c] <= NChunks /\ Rest(down'[c], "data", NChunks - got'[c])
               /\ pc = "saved" => got'[c] = NChunks
    <3>1. NChunks \in Nat /\ got[c] \in Nat
      BY DownloadAssumption DEF Types
    <3>2. got[c] <= NChunks /\ Rest(down[c], "data", NChunks - got[c])
      BY <1>0, <2>1 DEF Served
    <3>3. NChunks - got[c] \in Nat
      BY <3>1, <3>2
    <3>4. /\ Head(down[c]) = "data" <=> NChunks - got[c] > 0
          /\ Head(down[c]) \in {"data", "eof"}
          /\ NChunks - got[c] > 0 => Rest(Tail(down[c]), "data", NChunks - got[c] - 1)
      BY <1>0, <3>2, <3>3, RestTail DEF Messages
    <3>5. CASE Head(down[c]) = "data"
      <4>1. NChunks - got[c] - 1 = NChunks - got'[c] /\ got'[c] <= NChunks
        BY <1>3, <3>1, <3>4, <3>5
      <4> QED
        BY <1>1, <1>2, <3>4, <3>5, <4>1
    <3>6. CASE Head(down[c]) = "eof"
      BY <1>2, <1>3, <3>1, <3>2, <3>4, <3>6
    <3> QED
      BY <3>4, <3>5, <3>6
  <2> QED
    BY <1>0, <1>1, <1>3, <1>4, <2>1 DEF Served
<1>8. Alone' /\ Nothing'
  <2>1. Alone'
    BY <1>1 DEF Alone
  <2>2. Nothing'
    BY <1>0, <1>3, NothingReads
  <2> QED
    BY <2>1, <2>2
<1> QED
  BY <1>5, <1>6, <1>7, <1>8

LEMMA InvStep ==
  ASSUME Inv, [Next]_vars PROVE Inv'
<1>1. CASE ServerStep
  BY <1>1, InvAccept, InvSendList, InvSendFile DEF ServerStep
<1>2. ASSUME NEW c \in Clients, ClientStep(c) PROVE Inv'
  BY <1>2, InvConnect, InvWrite, InvReadList, InvReadFile DEF ClientStep
<1>3. CASE UNCHANGED vars
  <2>1. Waiting' = Waiting /\ (Ended' <=> Ended)
    BY <1>3 DEF vars, Waiting, Ended
  <2>2. Types' /\ Sent' /\ Early' /\ Open' /\ Listed' /\ Served'
    BY <1>3, <2>1 DEF vars, Inv, Types, Sent, Early, Open, Listed, Served
  <2>3. Alone'
    BY <1>3, <2>1 DEF vars, Inv, Alone
  <2>4. Nothing'
    BY <1>3, <2>1 DEF vars, Inv, Nothing, NoData
  <2> QED
    BY <2>2, <2>3, <2>4 DEF Inv
<1> QED
  BY <1>1, <1>2, <1>3 DEF Next

-------------------------------------------------------------------------------
\* The inductive invariant.
THEOREM InvCorrect == Spec => []Inv
<1>1. Init => Inv
  BY InvInit
<1>2. Inv /\ [Next]_vars => Inv'
  BY InvStep
<1> QED
  BY <1>1, <1>2, PTL DEF Spec

\* A client that says its file is saved has all of it, or nothing at all: then the
\* server could not open the file or had ended before it accepted the client
\* again.  It never has a part.
THEOREM SavedIsWholeCorrect == Spec => []SavedIsWhole
<1>1. Inv => SavedIsWhole
  BY DEF Inv, Types, Open, Served, Nothing, SavedIsWhole, Ended
<1> QED
  BY <1>1, InvCorrect, PTL

\* Whoever has got something of the file has seen the whole list.
THEOREM ListBeforeFileCorrect == Spec => []ListBeforeFile
<1>1. Inv => ListBeforeFile
  BY DEF Inv, Types, Listed, ListBeforeFile
<1> QED
  BY <1>1, InvCorrect, PTL

===============================================================================
