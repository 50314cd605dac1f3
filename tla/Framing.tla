------------------------------- MODULE Framing -------------------------------
(***************************************************************************)
(* socket.c: segments over a TCP connection with one writer and one reader *)
(* (the sender or a peer, and one thread of a receiver).  A segment is a   *)
(* header, which holds its number and its size, and its content; a read()  *)
(* returns as much of what is asked for as has come in, and at least one   *)
(* byte.  The writer may end at any time: its connection is closed, or it  *)
(* is reset, and what is on its way may be lost; a read() then returns 0,  *)
(* or -1 once and 0 afterwards.  Nobody who calls readSegmentInfo() looks  *)
(* at what it returns.                                                     *)
(*                                                                         *)
(* A byte on its way is a pair of the segment it belongs to and its place  *)
(* there: 1 and 2 are the seq of the header, 3 and 4 its size, the others  *)
(* are content.  (Two bytes stand for the bytes a field consists of, so    *)
(* that a header may be cut inside a field as well as between the two; the *)
(* pointer that is sent with them is of no use to anybody.)                *)
(***************************************************************************)
EXTENDS Integers, Sequences

CONSTANTS
  MaxSize,  \* the size of the array a content is read to
  Sizes     \* Sizes[k]: the size of the k-th segment that is written

ASSUME FramingAssumption ==
  /\ MaxSize \in Nat
  /\ Sizes \in Seq(0 .. MaxSize)

HeaderLen == 4

\* A number that is not the one that was sent.
Wrong == -1

VARIABLES
  written,    \* how many segments have been written
  writing,    \* the header of the next one has been written, its content not yet
  stream,     \* the bytes on their way, oldest first
  ending,     \* how the connection is: "open", closed ("fin") or reset ("rst")
  reader,     \* the reader's program counter
  str_len,    \* str_len, while the header is read
  seg_info,   \* the header it has read
  content,    \* what it has read of the content
  buffer,     \* what the contents before it have left in the array
  delivered,  \* the segments that readSegmentInfo() has returned, oldest first
  cut,        \* history: which of them had a header that came in parts
  failed      \* history: which of them a read() failed for, or 0

writerVars  == <<written, writing>>
historyVars == <<cut, failed>>

vars == <<writerVars, stream, ending, reader, str_len, seg_info, content, buffer, delivered,
          historyVars>>

\* The header is not initialised before the first segment.
Init ==
  /\ written   = 0
  /\ writing   = FALSE
  /\ stream    = << >>
  /\ ending    = "open"
  /\ reader    = "header"
  /\ str_len   = 0
  /\ seg_info \in [seq : {Wrong}, size : 0 .. MaxSize]
  /\ content   = << >>
  /\ buffer    = [j \in 1 .. MaxSize |-> <<0, j>>]
  /\ delivered = << >>
  /\ cut       = {}
  /\ failed    = 0

HeaderOf(k) == [j \in 1 .. HeaderLen |-> <<k, j>>]

ContentOf(k) == [j \in 1 .. Sizes[k] |-> <<k, HeaderLen + j>>]

-------------------------------------------------------------------------------
\* writeSegmentInfo(): one write() for the header,
WriteHeader ==
  /\ ending = "open"
  /\ written < Len(Sizes)
  /\ ~ writing
  /\ stream' = stream \o HeaderOf(written + 1)
  /\ writing' = TRUE
  /\ UNCHANGED <<written, ending, reader, str_len, seg_info, content, buffer, delivered,
                 historyVars>>

\* and one for the content.
WriteContent ==
  /\ ending = "open"
  /\ writing
  /\ stream' = stream \o ContentOf(written + 1)
  /\ writing' = FALSE
  /\ written' = written + 1
  /\ UNCHANGED <<ending, reader, str_len, seg_info, content, buffer, delivered, historyVars>>

\* The writer's process ends, also between the two.
Close ==
  /\ ending = "open"
  /\ \/ ending' = "fin" /\ UNCHANGED stream
     \/ /\ ending' = "rst"
        /\ \E m \in 0 .. Len(stream) : stream' = SubSeq(stream, 1, m)
  /\ UNCHANGED <<writerVars, reader, str_len, seg_info, content, buffer, delivered, historyVars>>

-------------------------------------------------------------------------------
\* What read() returns of at most n bytes.
Read(n) == {SubSeq(stream, 1, m) : m \in 1 .. (IF n < Len(stream) THEN n ELSE Len(stream))}

\* The bytes that are left after bs has been read.
After(bs) == SubSeq(stream, Len(bs) + 1, Len(stream))

\* read() returns -1, once.
ReadFails ==
  /\ stream = << >>
  /\ ending = "rst"
  /\ ending' = "fin"
  /\ failed' = Len(delivered) + 1
  /\ UNCHANGED <<writerVars, stream, seg_info, cut>>

\* Bytes bs are the header of a segment, as far as its byte n.
IsHeader(bs, n) ==
  Len(bs) >= n /\ \A j \in 1 .. n : bs[j] = <<bs[1][1], j>>

\* What bs leaves in seg_info.  A field that is read in part, or from bytes that
\* are no header, is wrong; one that is not reached keeps its value.
SeqFrom(bs)   == IF IsHeader(bs, 2) THEN bs[1][1] ELSE Wrong
SizesFrom(bs) == IF IsHeader(bs, HeaderLen) THEN {Sizes[bs[1][1]]}
                 ELSE IF Len(bs) <= 2 THEN {seg_info.size}
                 ELSE 0 .. MaxSize

\* readSegmentInfo(): the first read() of the header.
ReadHeader ==
  /\ reader = "header"
  /\ \E bs \in Read(HeaderLen) :
       /\ seg_info' \in [seq : {SeqFrom(bs)}, size : SizesFrom(bs)]
       /\ stream' = After(bs)
       /\ str_len' = Len(bs)
       /\ \/ Len(bs) = HeaderLen /\ reader' = "content" /\ UNCHANGED cut
          \/ Len(bs) < HeaderLen /\ reader' = "rest" /\ cut' = cut \cup {Len(delivered) + 1}
  /\ UNCHANGED <<writerVars, ending, content, buffer, delivered, failed>>

\* It returns 0, as do all that follow.
ReadHeaderEnd ==
  /\ reader = "header"
  /\ stream = << >>
  /\ ending = "fin"
  /\ reader' = "rest"
  /\ UNCHANGED <<writerVars, stream, ending, str_len, seg_info, content, buffer, delivered,
                 historyVars>>

\* It returns -1, which compared with a sizeof is no less: the content comes
\* next, of the size that seg_info has.
ReadHeaderFails ==
  /\ reader = "header"
  /\ ReadFails
  /\ reader' = "content"
  /\ UNCHANGED <<str_len, content, buffer, delivered>>

\* Bug for a mutant run: what has been read already is not counted.
MissingWhole == HeaderLen

\* What is missing of the header.
Missing == HeaderLen - str_len

\* The rest of the header is read into temp, and lost: seg_info keeps what it
\* has.
ReadRest ==
  /\ reader = "rest"
  /\ \E bs \in Read(Missing) :
       /\ stream' = After(bs)
       /\ str_len' = str_len + Len(bs)
  /\ reader' = IF str_len' < HeaderLen THEN "rest" ELSE "content"
  /\ UNCHANGED <<writerVars, ending, seg_info, content, buffer, delivered, historyVars>>

\* The -1 is added to str_len.
ReadRestFails ==
  /\ reader = "rest"
  /\ ReadFails
  /\ str_len' = str_len - 1
  /\ UNCHANGED <<reader, content, buffer, delivered>>

\* Bug for a mutant run: one read() is taken for the whole content.
CompleteAfterOne == content # << >> \/ seg_info.size = 0

\* Bug for a mutant run: one byte too many is waited for.
CompleteOffByOne == Len(content) > seg_info.size

\* The loop of recvStr() ends.
Complete == Len(content) = seg_info.size

\* recvStr(): reads on behind what it has.
ReadContent ==
  /\ reader = "content"
  /\ ~ Complete
  /\ \E bs \in Read(seg_info.size - Len(content)) :
       /\ content' = content \o bs
       /\ stream' = After(bs)
  /\ UNCHANGED <<writerVars, ending, reader, str_len, seg_info, buffer, delivered, historyVars>>

\* The array after bs has been read into it.
Filled(bs) == bs \o SubSeq(buffer, Len(bs) + 1, MaxSize)

\* Bug for a mutant run: recvStr() returns whenever a read() fails.
FirstReadAny == TRUE

\* The read() of recvStr() is the one before its loop.
FirstRead == content = << >>

\* The first read() of recvStr() fails: it returns, with what the array has.  (Its
\* caller writes a 0 before the array.)  A later one is a step back.
ReadContentFails ==
  /\ reader = "content"
  /\ ~ Complete
  /\ ReadFails
  /\ \/ /\ FirstRead
        /\ delivered' = Append(delivered, [seq |-> seg_info.seq,
                                content |-> SubSeq(Filled(content), 1, seg_info.size)])
        /\ content' = << >>
        /\ reader' = "header"
        /\ str_len' = 0
     \/ /\ ~ FirstRead
        /\ content' = SubSeq(content, 1, Len(content) - 1)
        /\ UNCHANGED <<delivered, reader, str_len>>
  /\ UNCHANGED buffer

\* readSegmentInfo() returns.
Deliver ==
  /\ reader = "content"
  /\ Complete
  /\ delivered' = Append(delivered, [seq |-> seg_info.seq, content |-> content])
  /\ buffer' = Filled(content)
  /\ content' = << >>
  /\ reader' = "header"
  /\ str_len' = 0
  /\ UNCHANGED <<writerVars, stream, ending, seg_info, historyVars>>

-------------------------------------------------------------------------------
Writer == WriteHeader \/ WriteContent

Reader ==
  \/ ReadHeader \/ ReadRest \/ ReadContent \/ Deliver
  \/ ReadHeaderEnd \/ ReadHeaderFails \/ ReadRestFails \/ ReadContentFails

Next == Writer \/ Close \/ Reader

Spec == Init /\ [][Next]_vars

\* Both threads run, and what is written comes in.
FairSpec == Spec /\ WF_vars(Writer) /\ WF_vars(Reader)

-------------------------------------------------------------------------------
(* Properties *)

\* As long as every header comes in one piece and no read() fails, the segments
\* that readSegmentInfo() returns are those that were written, in order, each
\* under its own number and with its own content, however the connection cuts up
\* the contents; and when the writer ends in the middle of one, that one is never
\* returned.
SegmentsIntact ==
  \A k \in 1 .. Len(delivered) :
    (\A j \in cut : j > k) /\ (failed # 0 => failed > k) =>
      k <= written + 1 /\ delivered[k] = [seq |-> k, content |-> ContentOf(k)]

\* A header that comes in parts costs the segment its number or its size, but
\* the reader does not lose its place: as long as the segments before it had
\* their right sizes, the bytes it takes for a segment's content are that
\* segment's, from the first one on.
PlaceIsKept ==
  \A k \in 1 .. Len(delivered) :
    (\A j \in 1 .. k - 1 : Len(delivered[j].content) = Sizes[j]) /\ k # failed =>
      \A j \in 1 .. Len(delivered[k].content) :
        j <= Sizes[k] => delivered[k].content[j] = <<k, HeaderLen + j>>

\* When a read() fails at most one more segment is returned, and that is none that
\* was written: with headers in one piece all it has is what the segments before
\* it have left in the array, or nothing.
FailureCostsOne ==
  failed # 0 =>
    /\ Len(delivered) <= failed
    /\ Len(delivered) = failed /\ cut = {} =>
         \A j \in 1 .. Len(delivered[failed].content) :
           delivered[failed].content[j][1] < failed

\* All segments come in, unless a header comes in parts, a read() fails or the
\* writer ends before it has written them: the reader never waits for bytes that
\* nobody sends, and takes none for a header that are content.
AllDelivered ==
  <>(\/ cut # {} \/ failed # 0
     \/ ending # "open" /\ written < Len(Sizes)
     \/ Len(delivered) = Len(Sizes))

=============================================================================
