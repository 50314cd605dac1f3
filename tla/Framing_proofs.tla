---------------------------- MODULE Framing_proofs ----------------------------
(***************************************************************************)
(* What TLAPS proves about Framing, for any number of segments of any      *)
(* sizes, however read() cuts up what comes in and whenever the writer     *)
(* ends: as long as the segments before had their sizes the reader is at   *)
(* the byte it takes itself to be at.                                      *)
(***************************************************************************)
EXTENDS Framing, SequenceTheorems, TLAPS

\* The bytes of segment k, with its header.
Whole(k) == HeaderLen + Sizes[k]

\* What is written, and what the array may hold before anything is.
Sent  == (1 .. Len(Sizes)) \X Nat
Bytes == (0 .. Len(Sizes)) \X Nat

Delivered == [seq : Int, content : Seq(Bytes)]

Types ==
  /\ written \in 0 .. Len(Sizes)
  /\ writing \in BOOLEAN
  /\ writing => written < Len(Sizes)
  /\ stream \in Seq(Sent)
  /\ ending \in {"open", "fin", "rst"}
  /\ reader \in {"header", "rest", "content"}
  /\ str_len \in Int
  /\ seg_info \in [seq : Int, size : 0 .. MaxSize]
  /\ content \in Seq(Bytes)
  /\ buffer \in [1 .. MaxSize -> Bytes]
  /\ delivered \in Seq(Delivered)
  /\ cut \subseteq Nat
  /\ failed \in Nat

\* The segment the reader is at.
current == Len(delivered) + 1

\* A header is read before its content, and a content up to its size.
Progress ==
  /\ reader = "header" => str_len = 0
  /\ reader = "rest" /\ failed = 0 => str_len \in 0 .. HeaderLen - 1
  /\ reader = "rest" /\ current \notin cut => stream = << >> /\ ending = "fin"
  /\ IF reader = "content" THEN Len(content) <= seg_info.size ELSE content = << >>
  /\ \A j \in cut : j <= current

\* The byte that is written next.
WriterAt ==
  IF ~ writing THEN <<written + 1, 1>>
  ELSE IF Sizes[written + 1] = 0 THEN <<written + 2, 1>>
  ELSE <<written + 1, HeaderLen + 1>>

\* The bytes the reader has before it: those on their way, and the one that is
\* written next if one can be.
Ahead == IF ending = "open" THEN Append(stream, WriterAt) ELSE stream

\* Bytes s follow each other: a segment's to its end, then the next one's first.
Run(s) ==
  \A m, n \in 1 .. Len(s) : m < n =>
    LET p == s[m][2] + (n - m) IN
    /\ p <= Whole(s[m][1]) => s[n] = <<s[m][1], p>>
    /\ p = Whole(s[m][1]) + 1 => s[n] = <<s[m][1] + 1, 1>>

\* Bytes s, if there are any, begin with byte b.
StartsAt(s, b) == s # << >> => s[1] = b

\* The last segment that is written, or is being written; none on its way is later.
Newest == IF writing THEN written + 1 ELSE written

NotAhead == \A m \in 1 .. Len(stream) : stream[m][1] <= Newest

\* The segments before this one had their sizes.
Sized == \A k \in 1 .. Len(delivered) : Len(delivered[k].content) = Sizes[k]

\* What has been read of the content is the content ...
ContentRead ==
  /\ current <= written + 1 /\ current <= Len(Sizes)
  /\ Len(content) < Sizes[current] => StartsAt(Ahead, <<current, HeaderLen + Len(content) + 1>>)
  /\ Len(content) = Sizes[current] => StartsAt(Ahead, <<current + 1, 1>>)
  /\ \A j \in 1 .. Len(content) : j <= Sizes[current] => content[j] = <<current, HeaderLen + j>>
  /\ current \notin cut => seg_info = [seq |-> current, size |-> Sizes[current]]

\* ... and the reader is where it takes itself to be.
InPlace ==
  /\ Run(Ahead)
  /\ reader = "header"  => StartsAt(Ahead, <<current, 1>>)
  /\ reader = "rest"    => StartsAt(Ahead, <<current, str_len + 1>>)
  /\ reader = "content" => ContentRead

Placed == failed = 0 /\ Sized => InPlace

\* After a read() has failed no byte comes in any more, and at most the segment
\* it failed for is returned, empty.
Failing ==
  failed # 0 =>
    /\ stream = << >> /\ ending = "fin"
    /\ \/ Len(delivered) = failed /\ reader # "content"
       \/ /\ Len(delivered) = failed - 1 /\ reader # "header"
          /\ reader = "content" => content = << >> \/ Len(content) < seg_info.size

\* The array holds what was read before.
BufferOld ==
  failed = 0 /\ cut = {} => \A j \in 1 .. MaxSize : buffer[j][1] <= Len(delivered)

\* A segment that was delivered as it was written is one of those there are.
Known ==
  \A k \in 1 .. Len(delivered) :
    (\A j \in cut : j > k) /\ (failed # 0 => failed > k) => k <= Len(Sizes)

Inv ==
  /\ Types /\ Progress /\ NotAhead /\ Placed /\ Failing /\ BufferOld /\ Known
  /\ SegmentsIntact /\ PlaceIsKept /\ FailureCostsOne

-------------------------------------------------------------------------------
(* Sequences of bytes. *)

LEMMA Front ==
  ASSUME NEW S, NEW s \in Seq(S), NEW m \in 0 .. Len(s)
  PROVE  /\ SubSeq(s, 1, m) \in Seq(S)
         /\ Len(SubSeq(s, 1, m)) = m
         /\ \A j \in 1 .. m : SubSeq(s, 1, m)[j] = s[j]
  OBVIOUS

LEMMA Rest ==
  ASSUME NEW S, NEW s \in Seq(S), NEW m \in 0 .. Len(s)
  PROVE  /\ SubSeq(s, m + 1, Len(s)) \in Seq(S)
         /\ Len(SubSeq(s, m + 1, Len(s))) = Len(s) - m
         /\ \A j \in 1 .. Len(s) - m : SubSeq(s, m + 1, Len(s))[j] = s[m + j]
<1> DEFINE b == SubSeq(s, m + 1, Len(s))
<1>1. b = SubSeq(s, m + 1, Len(s)) /\ m + 1 \in 1 .. Len(s) + 1 /\ Len(s) \in Nat
  OBVIOUS
<1>2. \A j \in m + 1 .. Len(s) : s[j] \in S
  OBVIOUS
<1> QED
  BY <1>1, <1>2

LEMMA Joined ==
  ASSUME NEW S, NEW s \in Seq(S), NEW t \in Seq(S)
  PROVE  /\ s \o t \in Seq(S)
         /\ Len(s \o t) = Len(s) + Len(t)
         /\ \A j \in 1 .. Len(s) : (s \o t)[j] = s[j]
         /\ \A j \in 1 .. Len(t) : (s \o t)[Len(s) + j] = t[j]
<1>1. s \o t \in Seq(S) /\ Len(s \o t) = Len(s) + Len(t)
  BY ConcatProperties
<1>2. \A j \in 1 .. Len(s) : (s \o t)[j] = s[j]
  BY ConcatProperties
<1>3. \A j \in 1 .. Len(t) : (s \o t)[Len(s) + j] = t[j]
  <2> SUFFICES ASSUME NEW j \in 1 .. Len(t) PROVE (s \o t)[Len(s) + j] = t[j]
    OBVIOUS
  <2>1. Len(s) \in Nat /\ Len(t) \in Nat
    OBVIOUS
  <2>2. Len(s) + j \in 1 .. Len(s) + Len(t) /\ ~ (Len(s) + j <= Len(s)) /\ Len(s) + j - Len(s) = j
    BY <2>1
  <2> QED
    BY <2>2, ConcatProperties
<1> QED
  BY <1>1, <1>2, <1>3

LEMMA MaxSizeIs == MaxSize \in Nat
BY FramingAssumption

\* The array after bs has been read into it.
LEMMA FilledIs ==
  ASSUME NEW bs \in Seq(Bytes), Len(bs) <= MaxSize, buffer \in [1 .. MaxSize -> Bytes]
  PROVE  /\ Filled(bs) \in [1 .. MaxSize -> Bytes]
         /\ \A j \in 1 .. MaxSize :
              Filled(bs)[j] = IF j <= Len(bs) THEN bs[j] ELSE buffer[j]
<1> DEFINE t == SubSeq(buffer, Len(bs) + 1, MaxSize)
<1>1. MaxSize \in Nat /\ Len(bs) \in 0 .. MaxSize
  <2>1. Len(bs) \in Nat /\ MaxSize \in Nat
    BY LenProperties, MaxSizeIs
  <2> QED
    BY <2>1
<1>2. buffer \in Seq(Bytes) /\ Len(buffer) = MaxSize
  BY <1>1
<1>3. /\ t \in Seq(Bytes)
      /\ Len(t) = MaxSize - Len(bs)
      /\ \A j \in 1 .. MaxSize - Len(bs) : t[j] = buffer[Len(bs) + j]
  BY <1>1, <1>2, Rest
<1> HIDE DEF t
<1>4. /\ bs \o t \in Seq(Bytes)
      /\ Len(bs \o t) = MaxSize
      /\ \A j \in 1 .. Len(bs) : (bs \o t)[j] = bs[j]
      /\ \A j \in 1 .. Len(t) : (bs \o t)[Len(bs) + j] = t[j]
  <2>1. Len(bs \o t) = Len(bs) + Len(t)
    BY <1>3, Joined
  <2>2. Len(bs) + Len(t) = MaxSize
    BY <1>1, <1>3
  <2> QED
    BY <1>3, <2>1, <2>2, Joined
<1>5. Filled(bs) = bs \o t
  BY DEF Filled, t
<1>6. bs \o t \in [1 .. MaxSize -> Bytes]
  <2>1. bs \o t \in [1 .. Len(bs \o t) -> Bytes]
    BY <1>4, LenProperties
  <2> QED
    BY <1>4, <2>1
<1>7. ASSUME NEW j \in 1 .. MaxSize
      PROVE  (bs \o t)[j] = IF j <= Len(bs) THEN bs[j] ELSE buffer[j]
  <2>1. CASE j <= Len(bs)
    BY <1>1, <1>4, <2>1
  <2>2. CASE ~ (j <= Len(bs))
    <3>1. j - Len(bs) \in 1 .. Len(t) /\ Len(bs) + (j - Len(bs)) = j
      BY <1>1, <1>3, <2>2
    <3> QED
      BY <1>3, <1>4, <2>2, <3>1
  <2> QED
    BY <2>1, <2>2
<1> QED
  BY <1>5, <1>6, <1>7

-------------------------------------------------------------------------------
(* Bytes that follow each other. *)

Place == Nat \X Nat

LEMMA SizesAre ==
  /\ Len(Sizes) \in Nat
  /\ \A k \in 1 .. Len(Sizes) : Sizes[k] \in 0 .. MaxSize /\ Whole(k) \in Nat
                                /\ HeaderLen <= Whole(k)
<1>1. Len(Sizes) \in Nat /\ \A k \in 1 .. Len(Sizes) : Sizes[k] \in 0 .. MaxSize
  <2>1. Sizes \in [1 .. Len(Sizes) -> 0 .. MaxSize] /\ Len(Sizes) \in Nat
    BY FramingAssumption, LenProperties
  <2> QED
    BY <2>1
<1> QED
  BY <1>1, MaxSizeIs DEF Whole, HeaderLen

\* A byte put behind those of st, or none.
LEMMA Behind ==
  ASSUME NEW S, NEW st \in Seq(S), NEW w \in S, NEW e,
         NEW a, a = IF e = "open" THEN Append(st, w) ELSE st
  PROVE  /\ a \in Seq(S)
         /\ Len(st) \in Nat /\ Len(a) \in Nat
         /\ \A j \in 1 .. Len(st) : a[j] = st[j]
         /\ e = "open" => Len(a) = Len(st) + 1 /\ a[Len(st) + 1] = w
         /\ e # "open" => a = st
  OBVIOUS

LEMMA WriterAtIs ==
  ASSUME NEW n \in Nat
  PROVE  /\ <<n + 1, 1>> \in Place /\ <<n + 2, 1>> \in Place /\ <<n + 1, HeaderLen + 1>> \in Place
  BY DEF Place, HeaderLen

LEMMA AheadIs ==
  ASSUME Types
  PROVE  /\ WriterAt \in Place
         /\ Ahead \in Seq(Place)
         /\ Len(stream) \in Nat /\ Len(Ahead) \in Nat
         /\ \A j \in 1 .. Len(stream) : Ahead[j] = stream[j]
         /\ ending = "open" => Len(Ahead) = Len(stream) + 1 /\ Ahead[Len(stream) + 1] = WriterAt
         /\ ending # "open" => Ahead = stream
<1>1. written \in Nat
  BY SizesAre DEF Types
<1>2. WriterAt \in Place
  BY <1>1, WriterAtIs DEF WriterAt
<1>3. stream \in Seq(Place)
  BY SizesAre DEF Types, Sent, Place
<1> QED
  BY <1>2, <1>3, Behind DEF Ahead

\* The same of the next state.
LEMMA AheadNext ==
  ASSUME Types'
  PROVE  /\ WriterAt' \in Place
         /\ Ahead' \in Seq(Place)
         /\ Len(stream') \in Nat /\ Len(Ahead') \in Nat
         /\ \A j \in 1 .. Len(stream') : Ahead'[j] = stream'[j]
         /\ ending' = "open" =>
              Len(Ahead') = Len(stream') + 1 /\ Ahead'[Len(stream') + 1] = WriterAt'
         /\ ending' # "open" => Ahead' = stream'
<1>1. written' \in Nat
  BY SizesAre DEF Types
<1>2. WriterAt' \in Place
  BY <1>1, WriterAtIs DEF WriterAt
<1>3. stream' \in Seq(Place)
  BY SizesAre DEF Types, Sent, Place
<1>4. Ahead' = IF ending' = "open" THEN Append(stream', WriterAt') ELSE stream'
  BY DEF Ahead
<1> QED
  BY <1>2, <1>3, <1>4, Behind

\* The first part of what follows each other, and what is left of it.
LEMMA RunFront ==
  ASSUME NEW s \in Seq(Place), Run(s), NEW t \in Seq(Place), Len(t) <= Len(s),
         \A j \in 1 .. Len(t) : t[j] = s[j]
  PROVE  Run(t)
  BY DEF Run

LEMMA RunRest ==
  ASSUME NEW s \in Seq(Place), Run(s), NEW t \in Seq(Place), NEW d \in Nat,
         Len(t) = Len(s) - d,
         \A j \in 1 .. Len(t) : t[j] = s[d + j]
  PROVE  Run(t)
<1> SUFFICES ASSUME NEW m \in 1 .. Len(t), NEW n \in 1 .. Len(t), m < n
             PROVE  LET q == t[m][2] + (n - m) IN
                    /\ q <= Whole(t[m][1]) => t[n] = <<t[m][1], q>>
                    /\ q = Whole(t[m][1]) + 1 => t[n] = <<t[m][1] + 1, 1>>
  BY DEF Run
<1>1. /\ d + m \in 1 .. Len(s) /\ d + n \in 1 .. Len(s) /\ d + m < d + n
      /\ (d + n) - (d + m) = n - m
  OBVIOUS
<1>2. t[m] = s[d + m] /\ t[n] = s[d + n]
  OBVIOUS
<1> QED
  BY <1>1, <1>2 DEF Run

\* t is s with l bytes of segment k, from its byte j on, and the one that follows them
\* in the place of the last one of s.
Extends(s, c, k, j, l, t) ==
  /\ Len(s) = c + 1 /\ s[c + 1] = <<k, j>>
  /\ \A a \in 1 .. c : s[a] \in Sent
  /\ (j + l) - 1 <= Whole(k)
  /\ Len(t) = (c + l) + 1
  /\ \A a \in 1 .. c : t[a] = s[a]
  /\ \A a \in 1 .. l : t[c + a] = <<k, (j + a) - 1>>
  /\ t[(c + l) + 1] = IF j + l <= Whole(k) THEN <<k, j + l>> ELSE <<k + 1, 1>>

LEMMA RunExtend ==
  ASSUME NEW s \in Seq(Place), NEW t \in Seq(Place), NEW c \in Nat,
         NEW k \in 1 .. Len(Sizes), NEW j \in Nat \ {0}, NEW l \in Nat \ {0},
         Extends(s, c, k, j, l, t), Run(s)
  PROVE  Run(t)
<1> USE DEF Extends
<1> SUFFICES ASSUME NEW m \in 1 .. Len(t), NEW n \in 1 .. Len(t), m < n
             PROVE  LET q == t[m][2] + (n - m) IN
                    /\ q <= Whole(t[m][1]) => t[n] = <<t[m][1], q>>
                    /\ q = Whole(t[m][1]) + 1 => t[n] = <<t[m][1] + 1, 1>>
  BY DEF Run
<1>0. Whole(k) \in Nat
  BY SizesAre
<1>a. m \in Nat /\ n \in Nat /\ m >= 1 /\ m < n /\ n <= (c + l) + 1
  OBVIOUS
\* The byte in a new place n, counted from the first one.
<1>1. ASSUME n > c
      PROVE  /\ (j + (n - c)) - 1 <= Whole(k) => t[n] = <<k, (j + (n - c)) - 1>>
             /\ (j + (n - c)) - 1 = Whole(k) + 1 => t[n] = <<k + 1, 1>>
             /\ (j + (n - c)) - 1 <= Whole(k) + 1
  <2>1. CASE n <= c + l
    <3>1. n - c \in 1 .. l /\ c + (n - c) = n
      BY <1>1, <2>1
    <3>2. t[n] = <<k, (j + (n - c)) - 1>>
      BY <3>1
    <3> QED
      BY <1>0, <3>1, <3>2
  <2>2. CASE n = (c + l) + 1
    BY <1>0, <2>2
  <2> QED
    BY <2>1, <2>2
<1>2. CASE n <= c
  <2>1. m \in 1 .. Len(s) /\ n \in 1 .. Len(s) /\ m \in 1 .. c /\ n \in 1 .. c
    BY <1>2, <1>a
  <2>2. t[m] = s[m] /\ t[n] = s[n]
    BY <2>1
  <2> QED
    BY <2>1, <2>2 DEF Run
<1>3. CASE m > c
  <2>1. m - c \in 1 .. l /\ c + (m - c) = m /\ n > c
    BY <1>3, <1>a
  <2>2. t[m] = <<k, (j + (m - c)) - 1>>
    BY <2>1
  <2>3. ((j + (m - c)) - 1) + (n - m) = (j + (n - c)) - 1
    OBVIOUS
  <2> QED
    BY <1>1, <2>1, <2>2, <2>3
<1>4. CASE m <= c /\ n > c
  <2>a. m \in 1 .. c /\ m \in 1 .. c + 1 /\ c + 1 \in 1 .. c + 1 /\ m < c + 1
    <3> HIDE DEF Extends
    <3>1. m \in Nat /\ m >= 1 /\ m <= c
      BY <1>4, <1>a
    <3> QED
      BY <3>1
  <2>c. (n - c) - 1 \in Nat
    <3> HIDE DEF Extends
    <3> QED
      BY <1>4, <1>a
  <2> DEFINE q == s[m][2] + ((c + 1) - m)
             b == (n - c) - 1
  <2>1. m \in 1 .. c /\ m \in 1 .. Len(s) /\ c + 1 \in 1 .. Len(s) /\ m < c + 1 /\ b \in Nat
    BY <2>a, <2>c
  <2>2. t[m] = s[m] /\ s[m] \in Sent
    BY <2>1
  <2>3. s[m][1] \in 1 .. Len(Sizes) /\ s[m][2] \in Nat
    BY <2>2 DEF Sent
  <2>w. Whole(s[m][1]) \in Nat
    BY <2>3, SizesAre
  <2>b. PICK x \in Nat : x = s[m][2]
    BY <2>3
  <2>q. q \in Nat
    <3>1. x + ((c + 1) - m) \in Nat
      BY <1>4, <1>a
    <3> QED
      BY <2>b, <3>1
  <2>4. s[m][2] + (n - m) = q + b
    <3>1. x + (n - m) = (x + ((c + 1) - m)) + ((n - c) - 1)
      BY <1>4, <1>a
    <3> QED
      BY <2>b, <3>1
  <2>5. /\ q <= Whole(s[m][1]) => <<k, j>> = <<s[m][1], q>>
        /\ q = Whole(s[m][1]) + 1 => <<k, j>> = <<s[m][1] + 1, 1>>
    BY <2>1 DEF Run
  <2> HIDE DEF q
  <2>6. ASSUME q + b <= Whole(s[m][1]) PROVE t[n] = <<s[m][1], q + b>>
    <3>1. q <= Whole(s[m][1])
      BY <2>1, <2>6, <2>q, <2>w
    <3>2. k = s[m][1] /\ j = q
      BY <2>5, <3>1
    <3>3. (j + (n - c)) - 1 = q + b
      BY <1>a, <3>2
    <3> QED
      BY <1>1, <1>4, <2>6, <3>2, <3>3
  <2>7. ASSUME q + b = Whole(s[m][1]) + 1 PROVE t[n] = <<s[m][1] + 1, 1>>
    <3>1. CASE b = 0
      <4>1. q = Whole(s[m][1]) + 1
        BY <2>7, <2>q, <3>1
      <4>2. k = s[m][1] + 1 /\ j = 1
        BY <2>5, <4>1
      <4>3. n = c + 1 /\ (j + (n - c)) - 1 = 1 /\ 1 <= Whole(k)
        <5>1. n = c + 1
          BY <1>a, <3>1
        <5>2. 1 <= Whole(k)
          BY <1>0, SizesAre DEF HeaderLen
        <5> QED
          BY <4>2, <5>1, <5>2
      <4> QED
        BY <1>1, <1>4, <4>2, <4>3
    <3>2. CASE b # 0
      <4>1. q <= Whole(s[m][1])
        BY <2>1, <2>7, <2>q, <2>w, <3>2
      <4>2. k = s[m][1] /\ j = q
        BY <2>5, <4>1
      <4>3. (j + (n - c)) - 1 = Whole(k) + 1
        <5>1. j + ((n - c) - 1) = Whole(k) + 1
          BY <2>7, <4>2
        <5> QED
          BY <1>a, <5>1
      <4> QED
        BY <1>1, <1>4, <4>2, <4>3
    <3> QED
      BY <3>1, <3>2
  <2> QED
    BY <2>2, <2>4, <2>6, <2>7
<1> QED
  BY <1>2, <1>3, <1>4

-------------------------------------------------------------------------------
(* What is written and what is read. *)

LEMMA HeaderIs ==
  ASSUME NEW k \in 1 .. Len(Sizes)
  PROVE  /\ HeaderOf(k) \in Seq(Sent)
         /\ Len(HeaderOf(k)) = HeaderLen
         /\ \A j \in 1 .. HeaderLen : HeaderOf(k)[j] = <<k, j>>
<1> DEFINE h == [j \in 1 .. HeaderLen |-> <<k, j>>]
<1>1. HeaderLen \in Nat /\ h \in [1 .. HeaderLen -> Sent]
  BY DEF HeaderLen, Sent
<1>2. h \in Seq(Sent) /\ Len(h) = HeaderLen
  BY <1>1
<1> QED
  BY <1>2 DEF HeaderOf

LEMMA ContentIs ==
  ASSUME NEW k \in 1 .. Len(Sizes)
  PROVE  /\ ContentOf(k) \in Seq(Sent)
         /\ Len(ContentOf(k)) = Sizes[k]
         /\ \A j \in 1 .. Sizes[k] : ContentOf(k)[j] = <<k, HeaderLen + j>>
<1> DEFINE h == [j \in 1 .. Sizes[k] |-> <<k, HeaderLen + j>>]
<1>1. Sizes[k] \in Nat
  BY SizesAre
<1>2. h \in [1 .. Sizes[k] -> Sent]
  BY <1>1 DEF HeaderLen, Sent
<1>3. h \in Seq(Sent) /\ Len(h) = Sizes[k]
  BY <1>1, <1>2
<1> QED
  BY <1>3 DEF ContentOf

LEMMA ReadIs ==
  ASSUME Types, NEW n \in Int, NEW bs \in Read(n)
  PROVE  /\ bs \in Seq(Sent)
         /\ Len(bs) \in 1 .. Len(stream) /\ Len(bs) <= n
         /\ \A j \in 1 .. Len(bs) : bs[j] = stream[j]
         /\ After(bs) \in Seq(Sent)
         /\ Len(After(bs)) = Len(stream) - Len(bs)
         /\ \A j \in 1 .. Len(stream) - Len(bs) : After(bs)[j] = stream[Len(bs) + j]
<1>1. stream \in Seq(Sent) /\ Len(stream) \in Nat
  BY LenProperties DEF Types
<1>2. PICK m \in 1 .. (IF n < Len(stream) THEN n ELSE Len(stream)) : bs = SubSeq(stream, 1, m)
  BY DEF Read
<1>3. m \in 0 .. Len(stream) /\ m \in 1 .. Len(stream) /\ m <= n
  BY <1>1, <1>2
<1>4. bs \in Seq(Sent) /\ Len(bs) = m /\ \A j \in 1 .. m : bs[j] = stream[j]
  BY <1>1, <1>2, <1>3, Front
<1>5. /\ After(bs) \in Seq(Sent)
      /\ Len(After(bs)) = Len(stream) - m
      /\ \A j \in 1 .. Len(stream) - m : After(bs)[j] = stream[m + j]
  BY <1>1, <1>3, <1>4, Rest DEF After
<1> QED
  BY <1>3, <1>4, <1>5

\* What is read from a place on is the segment at that place, to its end, and the
\* reader comes to the byte after it.
LEMMA Advance ==
  ASSUME Types, Types', NEW n \in Int, NEW bs \in Read(n), stream' = After(bs),
         UNCHANGED <<written, writing, ending>>,
         Run(Ahead), NEW k \in Nat, NEW p \in Nat, StartsAt(Ahead, <<k, p>>)
  PROVE  /\ Run(Ahead)'
         /\ k \in 1 .. Len(Sizes)
         /\ bs[1] = <<k, p>>
         /\ \A j \in 1 .. Len(bs) : (p + j) - 1 <= Whole(k) => bs[j] = <<k, (p + j) - 1>>
         /\ p + Len(bs) <= Whole(k) => StartsAt(Ahead', <<k, p + Len(bs)>>)
         /\ p + Len(bs) = Whole(k) + 1 => StartsAt(Ahead', <<k + 1, 1>>)
<1> DEFINE m == Len(bs)
<1>0. /\ m \in 1 .. Len(stream) /\ Len(stream) \in Nat
      /\ bs \in Seq(Sent)
      /\ \A j \in 1 .. m : bs[j] = stream[j]
      /\ stream' \in Seq(Sent)
      /\ Len(stream') = Len(stream) - m
      /\ \A j \in 1 .. Len(stream) - m : stream'[j] = stream[m + j]
  BY ReadIs, AheadIs
<1>a. m \in Nat /\ m >= 1
  BY <1>0
<1> HIDE DEF m
<1>1. WriterAt' = WriterAt
  BY DEF WriterAt
<1>2. /\ Ahead \in Seq(Place) /\ Ahead' \in Seq(Place)
      /\ Len(Ahead') = Len(Ahead) - m
      /\ m <= Len(Ahead)
      /\ Len(Ahead) \in Nat
      /\ \A j \in 1 .. Len(stream) : Ahead[j] = stream[j]
      /\ \A j \in 1 .. Len(Ahead') : Ahead'[j] = Ahead[m + j]
  <2>1. /\ Ahead \in Seq(Place)
        /\ \A j \in 1 .. Len(stream) : Ahead[j] = stream[j]
        /\ ending = "open" => Len(Ahead) = Len(stream) + 1 /\ Ahead[Len(stream) + 1] = WriterAt
        /\ ending # "open" => Ahead = stream
    BY AheadIs
  <2>2. /\ Ahead' \in Seq(Place)
        /\ \A j \in 1 .. Len(stream') : Ahead'[j] = stream'[j]
        /\ ending = "open" =>
             Len(Ahead') = Len(stream') + 1 /\ Ahead'[Len(stream') + 1] = WriterAt
        /\ ending # "open" => Ahead' = stream'
    BY <1>1, AheadNext
  <2>3. Len(Ahead') = Len(Ahead) - m /\ m <= Len(Ahead) /\ Len(Ahead) \in Nat
    BY <1>0, <1>a, <2>1, <2>2
  <2>4. ASSUME NEW j \in 1 .. Len(Ahead') PROVE Ahead'[j] = Ahead[m + j]
    <3>1. CASE j <= Len(stream')
      <4>1. j \in 1 .. Len(stream) - m /\ j \in 1 .. Len(stream') /\ m + j \in 1 .. Len(stream)
        BY <1>0, <1>a, <3>1
      <4> QED
        BY <1>0, <2>1, <2>2, <4>1
    <3>2. CASE ~ (j <= Len(stream'))
      <4>1. ending = "open"
        <5>1. ending # "open" => j \in 1 .. Len(stream')
          BY <2>2
        <5>2. Len(stream') \in Nat
          BY <1>0, <1>a
        <5> QED
          BY <3>2, <5>1, <5>2
      <4>2. j = Len(stream') + 1 /\ m + j = Len(stream) + 1
        <5>1. Len(Ahead') = Len(stream') + 1
          BY <2>2, <4>1
        <5>0. Len(stream') \in Nat
          BY <1>0, <1>a
        <5>2. PICK x \in Nat : x = Len(stream')
          BY <5>0
        <5>3. j = x + 1
          BY <3>2, <5>1, <5>2
        <5> QED
          BY <1>0, <1>a, <5>2, <5>3
      <4> QED
        BY <2>1, <2>2, <4>1, <4>2
    <3> QED
      BY <3>1, <3>2
  <2> QED
    BY <2>1, <2>2, <2>3, <2>4
<1>3. Run(Ahead')
  BY <1>2, <1>a, RunRest
<1>4. Ahead[1] = <<k, p>> /\ stream[1] = <<k, p>> /\ bs[1] = <<k, p>> /\ 1 \in 1 .. Len(Ahead)
  <2>1. 1 \in 1 .. Len(Ahead) /\ 1 \in 1 .. Len(stream) /\ 1 \in 1 .. m
    BY <1>0, <1>2, <1>a
  <2>2. Ahead # << >>
    BY <2>1
  <2> QED
    BY <1>0, <1>2, <2>1, <2>2 DEF StartsAt
<1>5. k \in 1 .. Len(Sizes)
  <2>1. stream[1] \in Sent
    BY <1>0, <1>a DEF Types
  <2> QED
    BY <1>4, <2>1 DEF Sent
<1>6. Whole(k) \in Nat
  BY <1>5, SizesAre
\* The byte at place j, from here.
<1>7. ASSUME NEW j \in 2 .. Len(Ahead)
      PROVE  /\ p + (j - 1) <= Whole(k) => Ahead[j] = <<k, p + (j - 1)>>
             /\ p + (j - 1) = Whole(k) + 1 => Ahead[j] = <<k + 1, 1>>
  <2>1. j \in 1 .. Len(Ahead) /\ 1 < j
    BY <1>2
  <2>2. Ahead[1][1] = k /\ Ahead[1][2] = p
    BY <1>4
  <2> QED
    BY <1>4, <2>1, <2>2 DEF Run
<1>8. ASSUME NEW j \in 1 .. m, (p + j) - 1 <= Whole(k) PROVE bs[j] = <<k, (p + j) - 1>>
  <2>1. bs[j] = Ahead[j]
    BY <1>0, <1>2
  <2>2. CASE j = 1
    BY <1>4, <2>2
  <2>3. CASE j # 1
    <3>1. j \in 2 .. Len(Ahead) /\ p + (j - 1) = (p + j) - 1
      BY <1>2, <1>a, <2>3
    <3> QED
      BY <1>7, <1>8, <2>1, <3>1
  <2> QED
    BY <2>2, <2>3
<1>9. ASSUME Ahead' # << >>
      PROVE  /\ p + m <= Whole(k) => Ahead'[1] = <<k, p + m>>
             /\ p + m = Whole(k) + 1 => Ahead'[1] = <<k + 1, 1>>
  <2>1. 1 \in 1 .. Len(Ahead')
    BY <1>2, <1>9
  <2>2. m + 1 \in 2 .. Len(Ahead) /\ (m + 1) - 1 = m /\ Ahead'[1] = Ahead[m + 1]
    BY <1>2, <1>a, <2>1
  <2> QED
    BY <1>7, <2>2
<1> QED
  BY <1>3, <1>4, <1>5, <1>8, <1>9 DEF StartsAt, m

-------------------------------------------------------------------------------
(* What a step keeps of the types, of the reader's progress and of what follows *)
(* a failure.                                                                   *)

\* A header that has been read, whatever it is, has a size the array has room for.
LEMMA HeaderTypes ==
  ASSUME Types, NEW bs \in Seq(Sent), Len(bs) >= 1
  PROVE  /\ SeqFrom(bs) \in Int
         /\ SizesFrom(bs) \subseteq 0 .. MaxSize
<1>1. bs[1] \in Sent /\ bs[1][1] \in 1 .. Len(Sizes)
  BY LenProperties DEF Sent
<1>2. Sizes[bs[1][1]] \in 0 .. MaxSize /\ bs[1][1] \in Int
  BY <1>1, SizesAre
<1>3. seg_info.size \in 0 .. MaxSize
  BY DEF Types
<1> QED
  BY <1>2, <1>3 DEF SeqFrom, SizesFrom, Wrong

LEMMA TypesNext ==
  ASSUME Types, Progress, [Next]_vars
  PROVE  Types'
<1>1. CASE WriteHeader
  <2>1. written + 1 \in 1 .. Len(Sizes)
    BY <1>1, SizesAre DEF WriteHeader, Types
  <2>2. stream' \in Seq(Sent)
    BY <1>1, <2>1, HeaderIs, Joined DEF WriteHeader, Types
  <2> QED
    BY <1>1, <2>2 DEF WriteHeader, Types, historyVars
<1>2. CASE WriteContent
  <2>1. written + 1 \in 1 .. Len(Sizes) /\ written + 1 \in 0 .. Len(Sizes)
    BY <1>2, SizesAre DEF WriteContent, Types
  <2>2. stream' \in Seq(Sent)
    BY <1>2, <2>1, ContentIs, Joined DEF WriteContent, Types
  <2> QED
    BY <1>2, <2>1, <2>2 DEF WriteContent, Types, historyVars
<1>3. CASE Close
  <2>1. stream' \in Seq(Sent)
    BY <1>3, Front DEF Close, Types
  <2> QED
    BY <1>3, <2>1 DEF Close, Types, writerVars, historyVars
<1>4. CASE ReadHeader
  <2>1. PICK bs \in Read(HeaderLen) :
          /\ seg_info' \in [seq : {SeqFrom(bs)}, size : SizesFrom(bs)]
          /\ stream' = After(bs)
          /\ str_len' = Len(bs)
          /\ \/ Len(bs) = HeaderLen /\ reader' = "content" /\ UNCHANGED cut
             \/ Len(bs) < HeaderLen /\ reader' = "rest" /\ cut' = cut \cup {Len(delivered) + 1}
    BY <1>4 DEF ReadHeader
  <2>2. /\ bs \in Seq(Sent) /\ Len(bs) \in Nat /\ Len(bs) >= 1
        /\ stream' \in Seq(Sent)
    BY <2>1, ReadIs DEF HeaderLen
  <2>3. seg_info' \in [seq : Int, size : 0 .. MaxSize]
    BY <2>1, <2>2, HeaderTypes
  <2>4. cut' \subseteq Nat
    <3>1. Len(delivered) + 1 \in Nat /\ cut \subseteq Nat
      BY LenProperties DEF Types
    <3> QED
      BY <2>1, <3>1
  <2> QED
    BY <1>4, <2>1, <2>2, <2>3, <2>4 DEF ReadHeader, Types, writerVars
<1>5. CASE ReadHeaderEnd
  BY <1>5 DEF ReadHeaderEnd, Types, writerVars, historyVars
<1>6. CASE ReadHeaderFails
  BY <1>6, LenProperties DEF ReadHeaderFails, ReadFails, Types, writerVars
<1>7. CASE ReadRest
  <2>1. PICK bs \in Read(Missing) : stream' = After(bs) /\ str_len' = str_len + Len(bs)
    BY <1>7 DEF ReadRest
  <2>2. Missing \in Int
    BY DEF Missing, HeaderLen, Types
  <2>3. Len(bs) \in Nat /\ stream' \in Seq(Sent)
    BY <2>1, <2>2, ReadIs
  <2> QED
    BY <1>7, <2>1, <2>3 DEF ReadRest, Types, writerVars, historyVars
<1>8. CASE ReadRestFails
  BY <1>8, LenProperties DEF ReadRestFails, ReadFails, Types, writerVars
<1>9. CASE ReadContent
  <2>1. PICK bs \in Read(seg_info.size - Len(content)) :
          content' = content \o bs /\ stream' = After(bs)
    BY <1>9 DEF ReadContent
  <2>2. seg_info.size - Len(content) \in Int
    BY LenProperties DEF Types
  <2>3. bs \in Seq(Sent) /\ stream' \in Seq(Sent)
    BY <2>1, <2>2, ReadIs
  <2>4. bs \in Seq(Bytes)
    BY <2>3, SizesAre DEF Sent, Bytes
  <2>5. content' \in Seq(Bytes)
    BY <2>1, <2>4, Joined DEF Types
  <2> QED
    BY <1>9, <2>3, <2>5 DEF ReadContent, Types, writerVars, historyVars
<1>10. CASE ReadContentFails
  <2>1. Len(content) \in Nat /\ Len(content) <= seg_info.size /\ seg_info.size \in 0 .. MaxSize
        /\ Len(content) <= MaxSize
    BY <1>10, LenProperties, MaxSizeIs DEF ReadContentFails, Types, Progress
  <2>2. Filled(content) \in Seq(Bytes) /\ Len(Filled(content)) = MaxSize
    <3>1. PICK f \in [1 .. MaxSize -> Bytes] : f = Filled(content)
      BY <2>1, FilledIs DEF Types
    <3>2. MaxSize \in Nat
      BY MaxSizeIs
    <3>3. f \in Seq(Bytes) /\ Len(f) = MaxSize
      BY <3>2
    <3> QED
      BY <3>1, <3>3
  <2>3. SubSeq(Filled(content), 1, seg_info.size) \in Seq(Bytes)
    BY <2>1, <2>2, Front
  <2>4. [seq |-> seg_info.seq, content |-> SubSeq(Filled(content), 1, seg_info.size)] \in Delivered
    BY <2>3 DEF Delivered, Types
  <2>5. delivered' \in Seq(Delivered)
    <3>1. PICK d \in Delivered :
            d = [seq |-> seg_info.seq, content |-> SubSeq(Filled(content), 1, seg_info.size)]
      BY <2>4
    <3>2. delivered' = delivered \/ delivered' = Append(delivered, d)
      BY <1>10, <3>1 DEF ReadContentFails
    <3>3. delivered \in Seq(Delivered)
      BY DEF Types
    <3> QED
      BY <3>2, <3>3, AppendProperties
  <2>6. content' \in Seq(Bytes)
    <3>1. CASE FirstRead
      BY <1>10, <3>1 DEF ReadContentFails
    <3>2. CASE ~ FirstRead
      <4>1. Len(content) # 0
        BY <3>2, LenProperties DEF FirstRead, Types
      <4>2. Len(content) - 1 \in 0 .. Len(content)
        BY <2>1, <4>1
      <4>3. SubSeq(content, 1, Len(content) - 1) \in Seq(Bytes)
        BY <4>2, Front DEF Types
      <4> QED
        BY <1>10, <3>2, <4>3 DEF ReadContentFails
    <3> QED
      BY <3>1, <3>2
  <2>7. str_len' \in Int /\ reader' \in {"header", "rest", "content"} /\ failed' \in Nat
    BY <1>10, LenProperties DEF ReadContentFails, ReadFails, Types
  <2> QED
    BY <1>10, <2>5, <2>6, <2>7 DEF ReadContentFails, ReadFails, Types, writerVars
<1>11. CASE Deliver
  <2>1. Len(content) <= MaxSize /\ content \in Seq(Bytes)
    BY <1>11, MaxSizeIs DEF Deliver, Complete, Types
  <2>2. buffer' \in [1 .. MaxSize -> Bytes]
    BY <1>11, <2>1, FilledIs DEF Deliver, Types
  <2>3. [seq |-> seg_info.seq, content |-> content] \in Delivered
    BY <2>1 DEF Delivered, Types
  <2>4. delivered' \in Seq(Delivered)
    BY <1>11, <2>3, AppendProperties DEF Deliver, Types
  <2> QED
    BY <1>11, <2>2, <2>4 DEF Deliver, Types, writerVars, historyVars
<1>12. CASE UNCHANGED vars
  BY <1>12 DEF vars, Types, writerVars, historyVars
<1> QED
  BY <1>1, <1>2, <1>3, <1>4, <1>5, <1>6, <1>7, <1>8, <1>9, <1>10, <1>11, <1>12
  DEF Next, Writer, Reader

LEMMA NotAheadNext ==
  ASSUME Types, Types', Progress, NotAhead, [Next]_vars
  PROVE  NotAhead'
<1>w. written \in Nat /\ writing \in BOOLEAN /\ Len(stream) \in Nat
  BY SizesAre, LenProperties DEF Types
<1>n. Newest \in Nat /\ Newest' \in Nat
  <2>1. written \in Nat /\ written' \in Nat /\ writing' \in BOOLEAN
    BY SizesAre DEF Types
  <2>2. Newest \in Nat
    BY <1>w DEF Newest
  <2>3. Newest' = written' + 1 \/ Newest' = written'
    BY DEF Newest
  <2>4. Newest' \in Nat
    BY <2>1, <2>3
  <2> QED
    BY <2>2, <2>4
\* Bytes are taken away in front, or lost at the end,
<1>1. ASSUME NEW d \in Nat, d + Len(stream') <= Len(stream), Len(stream') \in Nat,
             \A j \in 1 .. Len(stream') : stream'[j] = stream[d + j],
             UNCHANGED <<written, writing>>
      PROVE  NotAhead'
  BY <1>1, <1>w DEF NotAhead, Newest
\* or added to.
<1>2. ASSUME NEW k \in 1 .. Len(Sizes), NEW x \in Seq(Sent), stream' = stream \o x,
             \A j \in 1 .. Len(x) : x[j][1] = k,
             k <= Newest', Newest <= Newest'
      PROVE  NotAhead'
  <2>1. /\ Len(stream') = Len(stream) + Len(x)
        /\ \A j \in 1 .. Len(stream) : stream'[j] = stream[j]
        /\ \A j \in 1 .. Len(x) : stream'[Len(stream) + j] = x[j]
    BY <1>2, Joined DEF Types
  <2>2. ASSUME NEW m \in 1 .. Len(stream') PROVE stream'[m][1] <= Newest'
    <3>1. CASE m <= Len(stream)
      <4>1. m \in 1 .. Len(stream)
        BY <1>w, <3>1
      <4>2. stream'[m] = stream[m] /\ stream[m] \in Sent
        BY <2>1, <4>1, LenProperties DEF Types
      <4>3. stream[m][1] \in Nat
        BY <4>2, SizesAre DEF Sent
      <4>4. stream[m][1] <= Newest
        BY <4>1 DEF NotAhead
      <4> QED
        BY <1>2, <1>n, <4>2, <4>3, <4>4
    <3>2. CASE ~ (m <= Len(stream))
      <4>1. Len(x) \in Nat
        BY LenProperties
      <4>2. m - Len(stream) \in 1 .. Len(x) /\ Len(stream) + (m - Len(stream)) = m
        BY <1>w, <2>1, <3>2, <4>1
      <4>3. stream'[m] = x[m - Len(stream)] /\ x[m - Len(stream)][1] = k
        BY <1>2, <2>1, <4>2
      <4> QED
        BY <1>2, <4>3
    <3> QED
      BY <3>1, <3>2
  <2> QED
    BY <2>2 DEF NotAhead
<1>3. CASE WriteHeader
  <2>1. written + 1 \in 1 .. Len(Sizes)
    BY <1>3, SizesAre, <1>w DEF WriteHeader
  <2>2. /\ HeaderOf(written + 1) \in Seq(Sent)
        /\ \A j \in 1 .. Len(HeaderOf(written + 1)) : HeaderOf(written + 1)[j][1] = written + 1
    BY <2>1, HeaderIs
  <2>3. Newest' = written + 1 /\ Newest = written
    BY <1>3 DEF WriteHeader, Newest
  <2>4. stream' = stream \o HeaderOf(written + 1) /\ written' = written
    BY <1>3 DEF WriteHeader
  <2>5. Newest' \in Nat /\ written + 1 <= Newest' /\ Newest <= Newest'
    BY <1>w, <2>3
  <2> HIDE DEF NotAhead
  <2> DEFINE k == written + 1
             x == HeaderOf(k)
  <2> HIDE DEF k, x
  <2>6. /\ k \in 1 .. Len(Sizes) /\ x \in Seq(Sent) /\ stream' = stream \o x
        /\ \A j \in 1 .. Len(x) : x[j][1] = k
        /\ k <= Newest' /\ Newest <= Newest'
    BY <2>1, <2>2, <2>4, <2>5 DEF k, x
  <2> QED
    BY <1>2, <2>6
<1>4. CASE WriteContent
  <2>1. written + 1 \in 1 .. Len(Sizes)
    BY <1>4, SizesAre, <1>w DEF WriteContent, Types
  <2>2. /\ ContentOf(written + 1) \in Seq(Sent)
        /\ \A j \in 1 .. Len(ContentOf(written + 1)) : ContentOf(written + 1)[j][1] = written + 1
    BY <2>1, ContentIs
  <2>3. Newest' = written + 1 /\ Newest = written + 1
    BY <1>4 DEF WriteContent, Newest
  <2>4. stream' = stream \o ContentOf(written + 1) /\ written' = written + 1
    BY <1>4 DEF WriteContent
  <2>5. Newest' \in Nat /\ written + 1 <= Newest' /\ Newest <= Newest'
    BY <1>w, <2>3
  <2> HIDE DEF NotAhead
  <2> DEFINE k == written + 1
             x == ContentOf(k)
  <2> HIDE DEF k, x
  <2>6. /\ k \in 1 .. Len(Sizes) /\ x \in Seq(Sent) /\ stream' = stream \o x
        /\ \A j \in 1 .. Len(x) : x[j][1] = k
        /\ k <= Newest' /\ Newest <= Newest'
    BY <2>1, <2>2, <2>4, <2>5 DEF k, x
  <2> QED
    BY <1>2, <2>6
<1>5. CASE Close
  <2>1. CASE UNCHANGED stream
    BY <1>5, <2>1 DEF Close, NotAhead, Newest, writerVars
  <2>2. CASE \E m \in 0 .. Len(stream) : stream' = SubSeq(stream, 1, m)
    <3>1. PICK m \in 0 .. Len(stream) : stream' = SubSeq(stream, 1, m)
      BY <2>2
    <3>2. Len(stream') = m /\ \A j \in 1 .. m : stream'[j] = stream[0 + j]
      BY <3>1, Front DEF Types
    <3>3. UNCHANGED <<written, writing>> /\ 0 \in Nat /\ m \in Nat /\ 0 + m <= Len(stream)
      BY <1>5, <1>w DEF Close, writerVars
    <3> QED
      BY <1>1, <3>2, <3>3
  <2> QED
    BY <1>5, <2>1, <2>2 DEF Close
<1>6. ASSUME NEW n \in Int, NEW bs \in Read(n), stream' = After(bs), UNCHANGED <<written, writing>>
      PROVE  NotAhead'
  <2>1. /\ Len(bs) \in 1 .. Len(stream)
        /\ Len(stream') = Len(stream) - Len(bs)
        /\ \A j \in 1 .. Len(stream) - Len(bs) : stream'[j] = stream[Len(bs) + j]
    BY <1>6, ReadIs
  <2>2. Len(bs) \in Nat /\ Len(stream') \in Nat /\ Len(bs) + Len(stream') <= Len(stream)
    BY <1>w, <2>1
  <2> QED
    BY <1>1, <1>6, <2>1, <2>2
<1>7. CASE ReadHeader
  <2>1. HeaderLen \in Int
    BY DEF HeaderLen
  <2>2. PICK bs \in Read(HeaderLen) : stream' = After(bs)
    BY <1>7 DEF ReadHeader
  <2> QED
    BY <1>6, <1>7, <2>1, <2>2 DEF ReadHeader, writerVars
<1>8. CASE ReadRest
  <2>1. Missing \in Int
    BY DEF Missing, HeaderLen, Types
  <2>2. PICK bs \in Read(Missing) : stream' = After(bs)
    BY <1>8 DEF ReadRest
  <2> QED
    BY <1>6, <1>8, <2>1, <2>2 DEF ReadRest, writerVars
<1>9. CASE ReadContent
  <2>1. seg_info.size - Len(content) \in Int
    BY LenProperties DEF Types
  <2>2. PICK bs \in Read(seg_info.size - Len(content)) : stream' = After(bs)
    BY <1>9 DEF ReadContent
  <2> QED
    BY <1>6, <1>9, <2>1, <2>2 DEF ReadContent, writerVars
<1>10. CASE UNCHANGED <<written, writing, stream>>
  BY <1>10 DEF NotAhead, Newest
<1> QED
  BY <1>3, <1>4, <1>5, <1>7, <1>8, <1>9, <1>10
  DEF Next, Writer, Reader, ReadHeaderEnd, ReadHeaderFails, ReadRestFails, ReadContentFails,
      ReadFails, Deliver, vars, writerVars

LEMMA FailingNext ==
  ASSUME Types, Types', Progress, Failing, [Next]_vars
  PROVE  Failing'
<1>w. /\ Len(delivered) \in Nat /\ Len(delivered') \in Nat /\ Len(content) \in Nat
      /\ failed \in Nat /\ failed' \in Nat /\ seg_info.size \in Nat
      /\ stream \in Seq(Sent)
  BY LenProperties, MaxSizeIs DEF Types
<1>1. CASE Writer
  BY <1>1 DEF Writer, WriteHeader, WriteContent, historyVars, Failing
<1>2. CASE Close
  BY <1>2 DEF Close, historyVars, Failing
<1>3. CASE ReadHeader \/ ReadRest \/ ReadContent
  <2>1. PICK n \in Int : Read(n) # {} /\ UNCHANGED <<failed, ending>>
    <3>1. /\ HeaderLen \in Int /\ Missing \in Int /\ seg_info.size - Len(content) \in Int
      BY <1>w DEF Missing, HeaderLen, Types
    <3> QED
      BY <1>3, <3>1 DEF ReadHeader, ReadRest, ReadContent, historyVars
  <2>2. stream # << >>
    <3>1. PICK bs \in Read(n) : TRUE
      BY <2>1
    <3>2. Len(bs) \in 1 .. Len(stream) /\ Len(stream) \in Nat
      BY <1>w, ReadIs, LenProperties
    <3>3. Len(stream) # 0
      BY <3>2
    <3> QED
      BY <3>3
  <2> QED
    BY <2>1, <2>2 DEF Failing
<1>4. CASE ReadHeaderEnd
  BY <1>4 DEF ReadHeaderEnd, historyVars, Failing
<1>5. CASE ReadHeaderFails
  <2>1. content' = << >>
    BY <1>5 DEF ReadHeaderFails, Progress
  <2> QED
    BY <1>5, <1>w, <2>1 DEF ReadHeaderFails, ReadFails, Failing
<1>6. CASE ReadRestFails
  <2>1. failed' = Len(delivered) + 1 /\ stream' = << >> /\ ending' = "fin"
    BY <1>6 DEF ReadRestFails, ReadFails
  <2>2. delivered' = delivered /\ reader' = "rest"
    BY <1>6 DEF ReadRestFails
  <2>3. Len(delivered') = failed' - 1
    BY <1>w, <2>1, <2>2
  <2> QED
    BY <2>1, <2>2, <2>3 DEF Failing
<1>7. CASE ReadContentFails
  <2>1. failed' = Len(delivered) + 1 /\ stream' = << >> /\ ending' = "fin"
    BY <1>7 DEF ReadContentFails, ReadFails
  <2>2. CASE FirstRead
    <3>1. Len(delivered') = Len(delivered) + 1 /\ reader' = "header"
      BY <1>7, <2>2, AppendProperties DEF ReadContentFails
    <3> QED
      BY <2>1, <3>1 DEF Failing
  <2>3. CASE ~ FirstRead
    <3>1. /\ content' = SubSeq(content, 1, Len(content) - 1)
          /\ UNCHANGED <<delivered, reader, seg_info>>
          /\ reader = "content"
      BY <1>7, <2>3 DEF ReadContentFails, ReadFails
    <3>2. Len(content) - 1 \in 0 .. Len(content)
      <4>1. Len(content) # 0
        BY <2>3, LenProperties DEF FirstRead, Types
      <4> QED
        BY <1>w, <4>1
    <3>3. Len(content') = Len(content) - 1
      BY <3>1, <3>2, Front DEF Types
    <3>4. Len(content) <= seg_info.size
      BY <3>1 DEF Progress
    <3>a. Len(content) - 1 < seg_info.size
      BY <1>w, <3>4
    <3>5. Len(content') < seg_info'.size
      BY <3>1, <3>3, <3>a
    <3>6. Len(delivered') = failed' - 1
      BY <1>w, <2>1, <3>1
    <3> QED
      BY <2>1, <3>1, <3>5, <3>6 DEF Failing
  <2> QED
    BY <2>2, <2>3
<1>8. CASE Deliver
  <2>1. /\ Len(delivered') = Len(delivered) + 1 /\ reader' = "header" /\ reader = "content"
        /\ UNCHANGED <<stream, ending, failed>>
    BY <1>8, AppendProperties DEF Deliver, historyVars
  <2>2. failed # 0 => Len(delivered) = failed - 1
    BY <2>1 DEF Failing
  <2>3. failed # 0 => Len(delivered') = failed'
    BY <1>w, <2>1, <2>2
  <2> QED
    BY <2>1, <2>3 DEF Failing
<1>9. CASE UNCHANGED vars
  BY <1>9 DEF vars, historyVars, Failing
<1> QED
  BY <1>1, <1>2, <1>3, <1>4, <1>5, <1>6, <1>7, <1>8, <1>9 DEF Next, Reader

LEMMA ProgressNext ==
  ASSUME Types, Types', Progress, [Next]_vars
  PROVE  Progress'
<1>w. /\ Len(delivered) \in Nat /\ Len(content) \in Nat /\ cut \subseteq Nat
      /\ str_len \in Int /\ seg_info.size \in Nat /\ stream \in Seq(Sent) /\ content \in Seq(Bytes)
      /\ HeaderLen = 4
  BY LenProperties, MaxSizeIs DEF Types, HeaderLen
<1>c. current = Len(delivered) + 1 /\ current' = Len(delivered') + 1
  BY DEF current
\* What is read is not nothing.
<1>r. ASSUME NEW n \in Int, NEW bs \in Read(n)
      PROVE  Len(bs) \in Nat /\ Len(bs) >= 1 /\ Len(bs) <= n /\ stream # << >> /\ bs \in Seq(Sent)
  <2>1. Len(bs) \in 1 .. Len(stream) /\ Len(stream) \in Nat /\ Len(bs) <= n /\ bs \in Seq(Sent)
    BY <1>r, <1>w, ReadIs, LenProperties
  <2>2. Len(stream) # 0
    BY <2>1
  <2> QED
    BY <2>1, <2>2
<1>1. CASE Writer
  <2>1. ending = "open" /\ UNCHANGED <<ending, reader, str_len, seg_info, content, delivered, cut, failed>>
    BY <1>1 DEF Writer, WriteHeader, WriteContent, historyVars
  <2> QED
    BY <1>c, <2>1 DEF Progress
<1>2. CASE Close
  <2>1. ending = "open" /\ UNCHANGED <<reader, str_len, seg_info, content, delivered, cut, failed>>
    BY <1>2 DEF Close, historyVars
  <2> QED
    BY <1>c, <2>1 DEF Progress
<1>3. CASE ReadHeader
  <2>1. PICK bs \in Read(HeaderLen) :
          /\ str_len' = Len(bs)
          /\ \/ Len(bs) = HeaderLen /\ reader' = "content" /\ UNCHANGED cut
             \/ Len(bs) < HeaderLen /\ reader' = "rest" /\ cut' = cut \cup {Len(delivered) + 1}
    BY <1>3 DEF ReadHeader
  <2>2. Len(bs) \in Nat /\ Len(bs) >= 1
    BY <1>r, <1>w, <2>1
  <2>3. content' = << >> /\ seg_info'.size \in Nat /\ delivered' = delivered
    BY <1>3, MaxSizeIs DEF ReadHeader, Progress, Types
  <2>4. Len(content') <= seg_info'.size
    BY <2>3
  <2>5. \A j \in cut' : j <= current'
    <3>1. cut' \subseteq cut \cup {current} /\ current' = current /\ current \in Nat
      BY <1>c, <1>w, <2>1, <2>3
    <3>2. \A j \in cut : j <= current
      BY DEF Progress
    <3> QED
      BY <3>1, <3>2
  <2> QED
    BY <1>c, <1>w, <2>1, <2>2, <2>3, <2>4, <2>5 DEF Progress
<1>4. CASE ReadHeaderEnd
  <2>1. /\ reader = "header" /\ reader' = "rest" /\ stream = << >> /\ ending = "fin"
        /\ UNCHANGED <<stream, ending, str_len, content, delivered, cut, failed>>
    BY <1>4 DEF ReadHeaderEnd, historyVars
  <2>2. str_len = 0 /\ content = << >>
    BY <2>1 DEF Progress
  <2> QED
    BY <1>c, <1>w, <2>1, <2>2 DEF Progress
<1>5. CASE ReadHeaderFails
  <2>1. /\ reader' = "content" /\ content' = << >> /\ UNCHANGED <<delivered, cut>>
        /\ seg_info'.size \in Nat
    BY <1>5, MaxSizeIs DEF ReadHeaderFails, ReadFails, Progress, Types
  <2>2. Len(content') <= seg_info'.size
    BY <2>1
  <2> QED
    BY <1>c, <2>1, <2>2 DEF Progress
<1>6. CASE ReadRest
  <2>1. PICK bs \in Read(Missing) : str_len' = str_len + Len(bs)
    BY <1>6 DEF ReadRest
  <2>2. Missing \in Int
    BY DEF Missing, HeaderLen, Types
  <2>3. Len(bs) \in Nat /\ Len(bs) >= 1 /\ stream # << >>
    BY <1>r, <2>1, <2>2
  <2>4. /\ reader = "rest" /\ reader' = IF str_len' < HeaderLen THEN "rest" ELSE "content"
        /\ UNCHANGED <<delivered, cut, failed, content, seg_info>>
    BY <1>6 DEF ReadRest, historyVars
  <2>5. content = << >> /\ current \in cut /\ (failed = 0 => str_len \in 0 .. HeaderLen - 1)
    BY <2>3, <2>4 DEF Progress
  <2>6. Len(content') <= seg_info'.size /\ content' = << >>
    BY <1>w, <2>4, <2>5
  <2>7. reader' = "rest" /\ failed' = 0 => str_len' \in 0 .. HeaderLen - 1
    BY <1>w, <2>1, <2>3, <2>4, <2>5
  <2>8. current' \in cut' /\ reader' # "header"
    BY <1>c, <2>4, <2>5
  <2> QED
    BY <1>c, <2>4, <2>6, <2>7, <2>8 DEF Progress
<1>7. CASE ReadRestFails
  <2>1. /\ reader' = "rest" /\ reader = "rest" /\ stream' = << >> /\ ending' = "fin" /\ failed' = Len(delivered) + 1
        /\ UNCHANGED <<content, delivered, cut>>
    BY <1>7 DEF ReadRestFails, ReadFails
  <2>2. failed' # 0
    BY <1>w, <2>1
  <2> QED
    BY <1>c, <2>1, <2>2 DEF Progress
<1>8. CASE ReadContent
  <2>1. PICK bs \in Read(seg_info.size - Len(content)) : content' = content \o bs
    BY <1>8 DEF ReadContent
  <2>2. seg_info.size - Len(content) \in Int
    BY <1>w
  <2>3. Len(bs) \in Nat /\ Len(bs) <= seg_info.size - Len(content) /\ bs \in Seq(Sent)
    BY <1>r, <2>1, <2>2
  <2>4. Len(content') <= seg_info.size
    <3>1. Len(content') = Len(content) + Len(bs)
      <4>1. bs \in Seq(Bytes)
        BY <2>3, SizesAre DEF Sent, Bytes
      <4> QED
        BY <1>w, <2>1, <4>1, Joined
    <3> QED
      BY <1>w, <2>3, <3>1
  <2>5. reader = "content" /\ UNCHANGED <<reader, seg_info, delivered, cut, failed>>
    BY <1>8 DEF ReadContent, historyVars
  <2> QED
    BY <1>c, <2>4, <2>5 DEF Progress
<1>9. CASE ReadContentFails
  <2>1. UNCHANGED <<seg_info, cut>> /\ reader = "content"
    BY <1>9 DEF ReadContentFails, ReadFails
  <2>2. CASE FirstRead
    <3>1. /\ Len(delivered') = Len(delivered) + 1 /\ reader' = "header" /\ content' = << >> /\ str_len' = 0
      BY <1>9, <2>2, AppendProperties DEF ReadContentFails
    <3>2. \A j \in cut' : j <= current'
      BY <1>c, <1>w, <2>1, <3>1 DEF Progress
    <3> QED
      BY <3>1, <3>2 DEF Progress
  <2>3. CASE ~ FirstRead
    <3>1. content' = SubSeq(content, 1, Len(content) - 1) /\ UNCHANGED <<delivered, reader>>
      BY <1>9, <2>3 DEF ReadContentFails
    <3>2. Len(content) - 1 \in 0 .. Len(content)
      <4>1. Len(content) # 0
        BY <1>w, <2>3, LenProperties DEF FirstRead
      <4> QED
        BY <1>w, <4>1
    <3>3. Len(content') = Len(content) - 1
      BY <1>w, <3>1, <3>2, Front
    <3>4. Len(content') <= seg_info'.size
      BY <1>w, <2>1, <3>3 DEF Progress
    <3> QED
      BY <1>c, <2>1, <3>1, <3>4 DEF Progress
  <2> QED
    BY <2>2, <2>3
<1>10. CASE Deliver
  <2>1. /\ Len(delivered') = Len(delivered) + 1 /\ reader' = "header" /\ content' = << >> /\ str_len' = 0
        /\ UNCHANGED cut
    BY <1>10, AppendProperties DEF Deliver, historyVars
  <2>2. \A j \in cut' : j <= current'
    BY <1>c, <1>w, <2>1 DEF Progress
  <2> QED
    BY <2>1, <2>2 DEF Progress
<1>11. CASE UNCHANGED vars
  BY <1>11, <1>c DEF vars, historyVars, Progress
<1> QED
  BY <1>1, <1>2, <1>3, <1>4, <1>5, <1>6, <1>7, <1>8, <1>9, <1>10, <1>11 DEF Next, Reader

-------------------------------------------------------------------------------
(* The reader keeps its place. *)

\* Bytes are only added at the end, or taken away there.
LEMMA PlacedWrite ==
  ASSUME Types, Types', Placed,
         UNCHANGED <<reader, str_len, seg_info, content, delivered, cut, failed>>,
         written <= written',
         Run(Ahead) => Run(Ahead'),
         Ahead' # << >> => Ahead # << >> /\ Ahead'[1] = Ahead[1]
  PROVE  Placed'
<1>1. \A b : StartsAt(Ahead, b) => StartsAt(Ahead', b)
  BY DEF StartsAt
<1>2. current' = current /\ (Sized' <=> Sized)
  BY DEF current, Sized
<1>3. current \in Nat /\ written \in Nat /\ written' \in Nat
  <2>1. Len(delivered) \in Nat
    BY LenProperties DEF Types
  <2>2. written \in Nat /\ written' \in Nat
    BY SizesAre DEF Types
  <2> QED
    BY <2>1, <2>2 DEF current
<1>4. current <= written + 1 => current <= written' + 1
  <2>1. \A x, y, z \in Nat : y <= z /\ x <= y + 1 => x <= z + 1
    OBVIOUS
  <2>2. written <= written'
    OBVIOUS
  <2> QED
    BY <1>3, <2>1, <2>2
<1>5. ContentRead => ContentRead'
  BY <1>1, <1>2, <1>4 DEF ContentRead
<1> QED
  BY <1>1, <1>2, <1>5 DEF Placed, InPlace

\* The writer goes on with l bytes of segment k.
LEMMA WriteRun ==
  ASSUME Types, Types', ending = "open", ending' = "open",
         NEW k \in 1 .. Len(Sizes), NEW j \in Nat \ {0}, NEW l \in Nat \ {0},
         NEW x \in Seq(Sent), Len(x) = l, \A a \in 1 .. l : x[a] = <<k, (j + a) - 1>>,
         stream' = stream \o x,
         WriterAt = <<k, j>>, (j + l) - 1 <= Whole(k),
         WriterAt' = IF j + l <= Whole(k) THEN <<k, j + l>> ELSE <<k + 1, 1>>
  PROVE  /\ Run(Ahead) => Run(Ahead')
         /\ Ahead # << >> /\ Ahead'[1] = Ahead[1]
<1>1. PICK c \in Nat : c = Len(stream)
  BY AheadIs
<1>2. /\ Ahead \in Seq(Place) /\ Len(Ahead) = c + 1 /\ Ahead[c + 1] = <<k, j>>
      /\ \A a \in 1 .. c : Ahead[a] = stream[a]
  BY <1>1, AheadIs
<1>3. /\ Len(stream') = c + l
      /\ \A a \in 1 .. c : stream'[a] = stream[a]
      /\ \A a \in 1 .. l : stream'[c + a] = x[a]
  <2>1. stream \in Seq(Sent)
    BY DEF Types
  <2>2. Len(stream \o x) = c + l
    BY <1>1, <2>1, Joined
  <2>3. \A a \in 1 .. c : (stream \o x)[a] = stream[a]
    BY <1>1, <2>1, Joined
  <2>4. \A a \in 1 .. l : (stream \o x)[c + a] = x[a]
    <3>1. \A a \in 1 .. Len(x) : (stream \o x)[Len(stream) + a] = x[a]
      BY <2>1, Joined
    <3>2. Len(x) = l
      OBVIOUS
    <3> QED
      BY <1>1, <3>1, <3>2
  <2> QED
    BY <2>2, <2>3, <2>4
<1>4. /\ Ahead' \in Seq(Place) /\ Len(Ahead') = (c + l) + 1 /\ Ahead'[(c + l) + 1] = WriterAt'
      /\ \A a \in 1 .. c + l : Ahead'[a] = stream'[a]
  BY <1>3, AheadNext
<1>5. \A a \in 1 .. c : a \in 1 .. c + l /\ Ahead'[a] = Ahead[a]
  <2>1. \A a \in 1 .. c : a \in 1 .. c + l
    OBVIOUS
  <2>2. ASSUME NEW a \in 1 .. c PROVE Ahead'[a] = Ahead[a]
    <3>1. Ahead'[a] = stream'[a]
      BY <1>4, <2>1
    <3>2. stream'[a] = stream[a] /\ Ahead[a] = stream[a]
      BY <1>2, <1>3
    <3> QED
      BY <3>1, <3>2
  <2> QED
    BY <2>1, <2>2
<1>6. \A a \in 1 .. l : c + a \in 1 .. c + l /\ Ahead'[c + a] = <<k, (j + a) - 1>>
  <2>1. \A a \in 1 .. l : c + a \in 1 .. c + l
    OBVIOUS
  <2> QED
    BY <1>3, <1>4, <2>1
<1>7. \A a \in 1 .. c : Ahead[a] \in Sent
  <2>1. stream \in [1 .. c -> Sent]
    BY <1>1, LenProperties DEF Types
  <2> QED
    BY <1>2, <2>1
<1>8. Run(Ahead) => Run(Ahead')
  <2>1. Ahead'[(c + l) + 1] = IF j + l <= Whole(k) THEN <<k, j + l>> ELSE <<k + 1, 1>>
    BY <1>4
  <2>2. \A a \in 1 .. c : Ahead'[a] = Ahead[a]
    BY <1>5
  <2>3. \A a \in 1 .. l : Ahead'[c + a] = <<k, (j + a) - 1>>
    BY <1>6
  <2>4. /\ Ahead \in Seq(Place) /\ Len(Ahead) = c + 1 /\ Ahead[c + 1] = <<k, j>>
        /\ Ahead' \in Seq(Place) /\ Len(Ahead') = (c + l) + 1
    BY <1>2, <1>4
  <2>5. PICK s \in Seq(Place), t \in Seq(Place) : s = Ahead /\ t = Ahead'
    BY <2>4
  <2>6. Run(s) => Run(t)
    <3>1. SUFFICES ASSUME Run(s) PROVE Run(t)
      OBVIOUS
    <3>2. (j + l) - 1 <= Whole(k)
      OBVIOUS
    <3>3. /\ Len(s) = c + 1 /\ s[c + 1] = <<k, j>> /\ Len(t) = (c + l) + 1
          /\ t[(c + l) + 1] = IF j + l <= Whole(k) THEN <<k, j + l>> ELSE <<k + 1, 1>>
      BY <2>1, <2>4, <2>5
    <3>4. \A a \in 1 .. c : s[a] \in Sent
      BY <1>7, <2>5
    <3>5. \A a \in 1 .. c : t[a] = s[a]
      BY <2>2, <2>5
    <3>6. \A a \in 1 .. l : t[c + a] = <<k, (j + a) - 1>>
      BY <2>3, <2>5
    <3> QED
      <4>1. Extends(s, c, k, j, l, t)
        BY <3>2, <3>3, <3>4, <3>5, <3>6 DEF Extends
      <4> QED
        BY <3>1, <4>1, RunExtend
  <2> QED
    BY <2>5, <2>6
<1>9. Ahead # << >>
  BY <1>2
<1>10. Ahead'[1] = Ahead[1]
  <2>1. CASE c = 0
    <3>1. 1 \in 1 .. l /\ c + 1 = 1 /\ (j + 1) - 1 = j
      BY <2>1
    <3> QED
      BY <1>2, <1>6, <3>1
  <2>2. CASE c # 0
    BY <1>5, <2>2
  <2> QED
    BY <2>1, <2>2
<1> QED
  BY <1>8, <1>9, <1>10

LEMMA PlacedWriter ==
  ASSUME Types, Types', Placed, Writer
  PROVE  Placed'
<1>w. written \in Nat /\ ending = "open" /\ ending' = "open"
      /\ UNCHANGED <<reader, str_len, seg_info, content, delivered, cut, failed>>
  BY SizesAre DEF Types, Writer, WriteHeader, WriteContent, historyVars
<1> DEFINE k == written + 1
<1>k. k \in 1 .. Len(Sizes) /\ Sizes[k] \in Nat /\ Whole(k) = HeaderLen + Sizes[k] /\ HeaderLen = 4
      /\ k + 1 = written + 2
  BY <1>w, SizesAre DEF Types, Writer, WriteHeader, WriteContent, HeaderLen, Whole
<1>1. CASE WriteHeader
  <2>1. written' = written /\ writing' = TRUE /\ writing = FALSE /\ stream' = stream \o HeaderOf(k)
    BY <1>1 DEF WriteHeader, Types
  <2>2. WriterAt = <<k, 1>>
    BY <2>1 DEF WriterAt
  <2>3. WriterAt' = IF Sizes[k] = 0 THEN <<k + 1, 1>> ELSE <<k, HeaderLen + 1>>
    BY <1>k, <2>1 DEF WriterAt
  <2> HIDE DEF k
  <2>4. /\ HeaderOf(k) \in Seq(Sent) /\ Len(HeaderOf(k)) = 4
        /\ \A a \in 1 .. 4 : HeaderOf(k)[a] = <<k, (1 + a) - 1>>
    BY <1>k, HeaderIs
  <2>5. (1 + 4) - 1 <= Whole(k) /\ 1 \in Nat \ {0} /\ 4 \in Nat \ {0}
    BY <1>k
  <2>6. WriterAt' = IF 1 + 4 <= Whole(k) THEN <<k, 1 + 4>> ELSE <<k + 1, 1>>
    BY <1>k, <2>3
  <2>7. /\ Run(Ahead) => Run(Ahead')
        /\ Ahead # << >> /\ Ahead'[1] = Ahead[1]
    BY <1>w, <1>k, <2>1, <2>2, <2>4, <2>5, <2>6, WriteRun
  <2> QED
    BY <1>w, <2>1, <2>7, PlacedWrite
<1>2. CASE WriteContent
  <2>1. written' = written + 1 /\ writing' = FALSE /\ writing = TRUE /\ stream' = stream \o ContentOf(k)
        /\ written <= written'
    BY <1>2, <1>w DEF WriteContent, Types
  <2>2. WriterAt = IF Sizes[k] = 0 THEN <<k + 1, 1>> ELSE <<k, HeaderLen + 1>>
    BY <1>k, <2>1 DEF WriterAt
  <2>3. WriterAt' = <<k + 1, 1>>
    BY <2>1 DEF WriterAt
  <2> HIDE DEF k
  <2>4. /\ ContentOf(k) \in Seq(Sent) /\ Len(ContentOf(k)) = Sizes[k]
        /\ \A a \in 1 .. Sizes[k] : ContentOf(k)[a] = <<k, HeaderLen + a>>
    BY <1>k, ContentIs
  <2>5. CASE Sizes[k] = 0
    <3>1. ContentOf(k) = << >>
      BY <2>4, <2>5
    <3>2. stream' = stream
      BY <2>1, <3>1 DEF Types
    <3>3. Ahead' = Ahead
      BY <1>w, <2>2, <2>3, <2>5, <3>2 DEF Ahead
    <3> QED
      BY <1>w, <2>1, <3>3, PlacedWrite
  <2>6. CASE Sizes[k] # 0
    <3>1. \A a \in 1 .. Sizes[k] : ContentOf(k)[a] = <<k, (5 + a) - 1>>
      BY <1>k, <2>4
    <3>2. (5 + Sizes[k]) - 1 <= Whole(k) /\ 5 \in Nat \ {0} /\ Sizes[k] \in Nat \ {0}
      BY <1>k, <2>6
    <3>3. WriterAt' = IF 5 + Sizes[k] <= Whole(k) THEN <<k, 5 + Sizes[k]>> ELSE <<k + 1, 1>>
      BY <1>k, <2>3
    <3>4. WriterAt = <<k, 5>>
      BY <1>k, <2>2, <2>6
    <3>5. /\ Run(Ahead) => Run(Ahead')
          /\ Ahead # << >> /\ Ahead'[1] = Ahead[1]
      BY <1>w, <1>k, <2>1, <2>4, <3>1, <3>2, <3>3, <3>4, WriteRun
    <3> QED
      BY <1>w, <2>1, <3>5, PlacedWrite
  <2> QED
    BY <2>5, <2>6
<1> QED
  BY <1>1, <1>2 DEF Writer

LEMMA PlacedClose ==
  ASSUME Types, Types', Placed, Close
  PROVE  Placed'
<1>1. /\ ending = "open" /\ ending' # "open" /\ UNCHANGED <<reader, str_len, seg_info, content, delivered, cut, failed>>
      /\ written' = written /\ written \in Nat
  BY SizesAre DEF Types, Close, writerVars, historyVars
<1>2. PICK m \in Nat : /\ m <= Len(stream) /\ Len(stream') = m
                        /\ \A j \in 1 .. m : stream'[j] = stream[j]
  <2>0. Len(stream) \in Nat /\ stream \in Seq(Sent)
    BY LenProperties DEF Types
  <2>1. CASE UNCHANGED stream
    BY <2>0, <2>1
  <2>2. CASE \E m \in 0 .. Len(stream) : stream' = SubSeq(stream, 1, m)
    <3>1. PICK m \in 0 .. Len(stream) : stream' = SubSeq(stream, 1, m)
      BY <2>2
    <3>2. m \in Nat /\ m <= Len(stream)
      BY <2>0
    <3>3. Len(stream') = m /\ \A j \in 1 .. m : stream'[j] = stream[j]
      BY <2>0, <3>1, Front
    <3> QED
      BY <3>2, <3>3
  <2> QED
    BY <2>1, <2>2 DEF Close
<1>3. /\ Ahead \in Seq(Place) /\ Len(stream) \in Nat /\ Len(Ahead) = Len(stream) + 1
      /\ \A j \in 1 .. Len(stream) : Ahead[j] = stream[j]
  BY <1>1, AheadIs
<1>4. Ahead' \in Seq(Place) /\ Ahead' = stream'
  BY <1>1, AheadNext
<1>5. Len(Ahead') = m /\ m <= Len(Ahead) /\ \A j \in 1 .. m : Ahead'[j] = Ahead[j]
  <2>1. \A j \in 1 .. m : j \in 1 .. Len(stream)
    BY <1>2, <1>3
  <2> QED
    BY <1>2, <1>3, <1>4, <2>1
<1>6. Run(Ahead) => Run(Ahead')
  BY <1>3, <1>4, <1>5, RunFront
<1>7. ASSUME Ahead' # << >> PROVE Ahead # << >> /\ Ahead'[1] = Ahead[1]
  <2>1. m # 0
    BY <1>4, <1>5, <1>7
  <2> QED
    BY <1>3, <1>5, <2>1
<1> QED
  BY <1>1, <1>6, <1>7, PlacedWrite

\* Whatever is read, what is left still follows each other.
LEMMA AdvanceRun ==
  ASSUME Types, Types', NEW n \in Int, NEW bs \in Read(n), stream' = After(bs),
         UNCHANGED <<written, writing, ending>>, Run(Ahead)
  PROVE  Run(Ahead')
<1>1. Len(bs) \in 1 .. Len(stream) /\ Len(stream) \in Nat
  BY ReadIs, AheadIs
<1>2. 1 \in 1 .. Len(stream)
  BY <1>1
<1>3. stream[1] \in Sent /\ Ahead[1] = stream[1]
  BY <1>2, AheadIs, LenProperties DEF Types
<1>4. PICK k \in Nat, p \in Nat : stream[1] = <<k, p>>
  BY <1>3, SizesAre DEF Sent
<1>5. StartsAt(Ahead, <<k, p>>)
  BY <1>3, <1>4 DEF StartsAt
<1> QED
  BY <1>5, Advance

\* What comes first on its way is no later than what the writer is at.
LEMMA FirstIsWritten ==
  ASSUME Types, NotAhead, stream # << >>, NEW k \in Nat, NEW p, stream[1] = <<k, p>>
  PROVE  k <= written + 1
<1>1. 1 \in 1 .. Len(stream)
  BY LenProperties DEF Types
<1>2. k <= Newest
  BY <1>1 DEF NotAhead
<1>3. written \in Nat /\ (Newest = written \/ Newest = written + 1)
  BY SizesAre DEF Types, Newest
<1> QED
  BY <1>2, <1>3

LEMMA PlacedReadHeader ==
  ASSUME Types, Types', Progress, NotAhead, Placed, ReadHeader
  PROVE  Placed'
<1> SUFFICES ASSUME failed' = 0, Sized' PROVE InPlace'
  BY DEF Placed
<1>1. /\ UNCHANGED <<written, writing, ending, content, delivered, failed>> /\ reader = "header"
      /\ content = << >>
  BY DEF ReadHeader, writerVars, Progress
<1>2. /\ Run(Ahead) /\ StartsAt(Ahead, <<current, 1>>) /\ current \in Nat /\ HeaderLen = 4
      /\ current' = current
  <2>1. failed = 0 /\ Sized
    BY <1>1 DEF Sized
  <2>2. Len(delivered) \in Nat
    BY LenProperties DEF Types
  <2> QED
    BY <1>1, <2>1, <2>2 DEF Placed, InPlace, current, HeaderLen
<1>3. PICK bs \in Read(HeaderLen) :
        /\ seg_info' \in [seq : {SeqFrom(bs)}, size : SizesFrom(bs)]
        /\ stream' = After(bs)
        /\ str_len' = Len(bs)
        /\ \/ Len(bs) = HeaderLen /\ reader' = "content" /\ UNCHANGED cut
           \/ Len(bs) < HeaderLen /\ reader' = "rest" /\ cut' = cut \cup {Len(delivered) + 1}
  BY DEF ReadHeader
<1> DEFINE k == current
<1> HIDE DEF k
<1>4. /\ Run(Ahead')
      /\ k \in 1 .. Len(Sizes)
      /\ bs[1] = <<k, 1>>
      /\ \A j \in 1 .. Len(bs) : (1 + j) - 1 <= Whole(k) => bs[j] = <<k, (1 + j) - 1>>
      /\ 1 + Len(bs) <= Whole(k) => StartsAt(Ahead', <<k, 1 + Len(bs)>>)
      /\ 1 + Len(bs) = Whole(k) + 1 => StartsAt(Ahead', <<k + 1, 1>>)
  <2>1. k \in Nat /\ StartsAt(Ahead, <<k, 1>>) /\ 1 \in Nat /\ HeaderLen \in Int
    BY <1>2 DEF k
  <2> QED
    BY <1>1, <1>2, <1>3, <2>1, Advance
<1>5. Whole(k) = 4 + Sizes[k] /\ Sizes[k] \in Nat
  BY <1>2, <1>4, SizesAre DEF Whole
<1>6. CASE Len(bs) < HeaderLen
  <2>1. reader' = "rest" /\ str_len' = Len(bs)
    BY <1>3, <1>6
  <2>2. 1 + Len(bs) <= Whole(k) /\ 1 + Len(bs) = Len(bs) + 1
    <3>1. Len(bs) \in Nat
      BY <1>2, <1>3, ReadIs, LenProperties
    <3> QED
      BY <1>2, <1>5, <1>6, <3>1
  <2>3. StartsAt(Ahead', <<current', str_len' + 1>>)
    BY <1>2, <1>4, <2>1, <2>2 DEF k
  <2> QED
    BY <1>4, <2>1, <2>3 DEF InPlace
<1>7. CASE Len(bs) = HeaderLen
  <2>1. reader' = "content" /\ cut' = cut /\ Len(content') = 0 /\ content' = << >>
    BY <1>1, <1>2, <1>3, <1>7
  <2>2. \A j \in 1 .. 4 : bs[j] = <<k, j>>
    BY <1>2, <1>4, <1>5, <1>7
  <2>3. IsHeader(bs, 2) /\ IsHeader(bs, HeaderLen) /\ bs[1][1] = k
    BY <1>2, <1>7, <2>2 DEF IsHeader
  <2>4. seg_info' = [seq |-> k, size |-> Sizes[k]]
    BY <1>3, <2>3 DEF SeqFrom, SizesFrom
  <2>5. 0 < Sizes[k] => StartsAt(Ahead', <<k, HeaderLen + 0 + 1>>)
    BY <1>2, <1>4, <1>5, <1>7
  <2>6. 0 = Sizes[k] => StartsAt(Ahead', <<k + 1, 1>>)
    BY <1>2, <1>4, <1>5, <1>7
  <2>7. k <= written' + 1 /\ k <= Len(Sizes)
    <3>1. stream # << >> /\ stream[1] = <<k, 1>>
      <4>1. HeaderLen \in Int
        BY <1>2
      <4>2. Len(bs) \in 1 .. Len(stream) /\ Len(stream) \in Nat
            /\ \A j \in 1 .. Len(bs) : bs[j] = stream[j]
        BY <1>3, <4>1, ReadIs, LenProperties DEF Types
      <4>3. 1 \in 1 .. Len(bs) /\ Len(stream) # 0
        BY <4>2
      <4> QED
        BY <1>4, <4>2, <4>3
    <3>2. k \in Nat
      BY <1>2 DEF k
    <3>3. k <= written + 1
      BY <3>1, <3>2, FirstIsWritten
    <3> QED
      BY <1>1, <1>4, <3>3, SizesAre
  <2>8. ContentRead'
    <3>1. current' = k
      BY <1>2 DEF k
    <3>2. \A j \in 1 .. Len(content') : FALSE
      BY <2>1
    <3> QED
      BY <2>1, <2>4, <2>5, <2>6, <2>7, <3>1, <3>2 DEF ContentRead
  <2> QED
    BY <1>4, <2>1, <2>8 DEF InPlace
<1> QED
  BY <1>3, <1>6, <1>7

LEMMA PlacedReadRest ==
  ASSUME Types, Types', Progress, NotAhead, Placed, ReadRest
  PROVE  Placed'
<1> SUFFICES ASSUME failed' = 0, Sized' PROVE InPlace'
  BY DEF Placed
<1>1. /\ UNCHANGED <<written, writing, ending, seg_info, content, delivered, cut, failed>>
      /\ reader = "rest" /\ content = << >>
      /\ reader' = IF str_len' < HeaderLen THEN "rest" ELSE "content"
  BY DEF ReadRest, writerVars, historyVars, Progress
<1>2. /\ Run(Ahead) /\ StartsAt(Ahead, <<current, str_len + 1>>) /\ current \in Nat
      /\ current' = current /\ HeaderLen = 4
  <2>1. failed = 0 /\ Sized
    BY <1>1 DEF Sized
  <2>2. Len(delivered) \in Nat
    BY LenProperties DEF Types
  <2> QED
    BY <1>1, <2>1, <2>2 DEF Placed, InPlace, current, HeaderLen
<1>3. PICK l \in 0 .. 3 : l = str_len
  BY <1>1, <1>2 DEF Progress
<1>4. PICK bs \in Read(Missing) : stream' = After(bs) /\ str_len' = str_len + Len(bs)
  BY DEF ReadRest
<1>5. Missing = 4 - l /\ Missing \in Int
  BY <1>2, <1>3 DEF Missing
<1>6. /\ Len(bs) \in Nat /\ Len(bs) <= 4 - l /\ str_len' = l + Len(bs)
      /\ stream # << >> /\ bs[1] = stream[1]
  <2>1. /\ Len(bs) \in 1 .. Len(stream) /\ Len(bs) <= 4 - l /\ Len(stream) \in Nat
        /\ \A j \in 1 .. Len(bs) : bs[j] = stream[j]
    BY <1>4, <1>5, ReadIs, AheadIs
  <2>2. 1 \in 1 .. Len(bs) /\ Len(stream) # 0
    BY <2>1
  <2> QED
    BY <1>3, <1>4, <2>1, <2>2
<1> DEFINE k == current
<1> HIDE DEF k
<1>7. /\ Run(Ahead')
      /\ k \in 1 .. Len(Sizes)
      /\ bs[1] = <<k, l + 1>>
      /\ (l + 1) + Len(bs) <= Whole(k) => StartsAt(Ahead', <<k, (l + 1) + Len(bs)>>)
      /\ (l + 1) + Len(bs) = Whole(k) + 1 => StartsAt(Ahead', <<k + 1, 1>>)
  <2>1. k \in Nat /\ StartsAt(Ahead, <<k, l + 1>>) /\ l + 1 \in Nat
    BY <1>2, <1>3 DEF k
  <2> QED
    BY <1>1, <1>2, <1>4, <1>5, <2>1, Advance
<1>8. Whole(k) = 4 + Sizes[k] /\ Sizes[k] \in Nat
  BY <1>2, <1>7, SizesAre DEF Whole
<1>9. CASE str_len' < HeaderLen
  <2>1. (l + 1) + Len(bs) <= Whole(k) /\ (l + 1) + Len(bs) = str_len' + 1
    BY <1>2, <1>6, <1>8, <1>9
  <2>2. StartsAt(Ahead', <<current', str_len' + 1>>)
    BY <1>2, <1>7, <2>1 DEF k
  <2> QED
    BY <1>1, <1>7, <1>9, <2>2 DEF InPlace
<1>10. CASE ~ (str_len' < HeaderLen)
  <2>1. (l + 1) + Len(bs) = 5 /\ reader' = "content"
    BY <1>1, <1>2, <1>6, <1>10
  <2>2. Len(content') = 0 /\ content' = << >>
    BY <1>1
  <2>3. 0 < Sizes[k] => StartsAt(Ahead', <<k, HeaderLen + 0 + 1>>)
    BY <1>2, <1>7, <1>8, <2>1
  <2>4. 0 = Sizes[k] => StartsAt(Ahead', <<k + 1, 1>>)
    BY <1>7, <1>8, <2>1
  <2>5. k <= written' + 1 /\ k <= Len(Sizes)
    <3>1. k \in Nat /\ stream[1] = <<k, l + 1>>
      BY <1>2, <1>6, <1>7 DEF k
    <3>2. k <= written + 1
      BY <1>6, <3>1, FirstIsWritten
    <3> QED
      BY <1>1, <1>7, <3>2, SizesAre
  <2>6. current' \in cut'
    BY <1>1, <1>2, <1>6 DEF Progress
  <2>7. ContentRead'
    <3>1. current' = k
      BY <1>2 DEF k
    <3>2. \A j \in 1 .. Len(content') : FALSE
      BY <2>2
    <3> QED
      BY <2>2, <2>3, <2>4, <2>5, <2>6, <3>1, <3>2 DEF ContentRead
  <2> QED
    BY <1>7, <2>1, <2>7 DEF InPlace
<1> QED
  BY <1>9, <1>10

LEMMA PlacedReadContent ==
  ASSUME Types, Types', Progress, Placed, ReadContent
  PROVE  Placed'
<1> SUFFICES ASSUME failed' = 0, Sized' PROVE InPlace'
  BY DEF Placed
<1>1. /\ UNCHANGED <<written, writing, ending, reader, seg_info, delivered, cut, failed>>
      /\ reader = "content"
  BY DEF ReadContent, writerVars, historyVars
<1>2. Run(Ahead) /\ ContentRead /\ current' = current /\ current \in Nat /\ HeaderLen = 4
  <2>1. failed = 0 /\ Sized
    BY <1>1 DEF Sized
  <2>2. Len(delivered) \in Nat
    BY LenProperties DEF Types
  <2> QED
    BY <1>1, <2>1, <2>2 DEF Placed, InPlace, current, HeaderLen
<1>3. PICK bs \in Read(seg_info.size - Len(content)) :
        content' = content \o bs /\ stream' = After(bs)
  BY DEF ReadContent
<1>4. PICK c \in Nat : c = Len(content)
  BY LenProperties DEF Types
<1>5. seg_info.size - Len(content) \in Int
  BY <1>4 DEF Types
<1>6. bs \in Seq(Sent) /\ bs \in Seq(Bytes) /\ Len(bs) \in Nat /\ Len(bs) >= 1
  <2>1. bs \in Seq(Sent) /\ Len(bs) \in 1 .. Len(stream) /\ Len(stream) \in Nat
    BY <1>3, <1>5, ReadIs, AheadIs
  <2>2. bs \in Seq(Bytes)
    BY <2>1, SizesAre DEF Sent, Bytes
  <2> QED
    BY <2>1, <2>2
<1>7. /\ Len(content') = c + Len(bs)
      /\ \A j \in 1 .. c : content'[j] = content[j]
      /\ \A j \in 1 .. Len(bs) : content'[c + j] = bs[j]
  <2>1. content \in Seq(Bytes)
    BY DEF Types
  <2>2. /\ Len(content \o bs) = Len(content) + Len(bs)
        /\ \A j \in 1 .. Len(content) : (content \o bs)[j] = content[j]
        /\ \A j \in 1 .. Len(bs) : (content \o bs)[Len(content) + j] = bs[j]
    BY <1>6, <2>1, Joined
  <2> QED
    BY <1>3, <1>4, <2>2
<1> DEFINE k == current
<1> HIDE DEF k
<1>8. /\ k \in 1 .. Len(Sizes) /\ k <= written + 1
      /\ c < Sizes[k] => StartsAt(Ahead, <<k, HeaderLen + c + 1>>)
      /\ \A j \in 1 .. c : j <= Sizes[k] => content[j] = <<k, HeaderLen + j>>
      /\ k \notin cut => seg_info = [seq |-> k, size |-> Sizes[k]]
  <2>1. k \in Nat /\ k >= 1
    <3>1. Len(delivered) \in Nat
      BY LenProperties DEF Types
    <3> QED
      BY <3>1 DEF k, current
  <2>2. k <= Len(Sizes) /\ Len(Sizes) \in Nat
    BY <1>2, SizesAre DEF ContentRead, k
  <2> QED
    BY <1>2, <1>4, <2>1, <2>2 DEF ContentRead, k
<1>9. Whole(k) = 4 + Sizes[k] /\ Sizes[k] \in Nat
  BY <1>2, <1>8, SizesAre DEF Whole
<1>10. Run(Ahead')
  BY <1>1, <1>2, <1>3, <1>5, AdvanceRun
\* What is read of the content itself, and what comes after it.
<1>11. ASSUME c < Sizes[k]
       PROVE  /\ \A j \in 1 .. Len(bs) : c + j <= Sizes[k] => bs[j] = <<k, HeaderLen + (c + j)>>
              /\ c + Len(bs) < Sizes[k] => StartsAt(Ahead', <<k, HeaderLen + (c + Len(bs)) + 1>>)
              /\ c + Len(bs) = Sizes[k] => StartsAt(Ahead', <<k + 1, 1>>)
  <2>1. k \in Nat /\ 5 + c \in Nat /\ StartsAt(Ahead, <<k, 5 + c>>)
    <3>1. HeaderLen + c + 1 = 5 + c /\ 5 + c \in Nat
      BY <1>2
    <3> QED
      BY <1>8, <1>11, <3>1, SizesAre
  <2>2. /\ \A j \in 1 .. Len(bs) : ((5 + c) + j) - 1 <= Whole(k) => bs[j] = <<k, ((5 + c) + j) - 1>>
        /\ (5 + c) + Len(bs) <= Whole(k) => StartsAt(Ahead', <<k, (5 + c) + Len(bs)>>)
        /\ (5 + c) + Len(bs) = Whole(k) + 1 => StartsAt(Ahead', <<k + 1, 1>>)
    BY <1>1, <1>2, <1>3, <1>5, <2>1, Advance
  <2>3. ASSUME NEW j \in 1 .. Len(bs), c + j <= Sizes[k] PROVE bs[j] = <<k, HeaderLen + (c + j)>>
    <3>1. ((5 + c) + j) - 1 <= Whole(k) /\ ((5 + c) + j) - 1 = HeaderLen + (c + j)
      BY <1>2, <1>6, <1>9, <2>3
    <3> QED
      BY <2>2, <3>1
  <2>4. c + Len(bs) < Sizes[k] => /\ (5 + c) + Len(bs) <= Whole(k)
                                  /\ (5 + c) + Len(bs) = HeaderLen + (c + Len(bs)) + 1
    BY <1>2, <1>6, <1>9
  <2>5. c + Len(bs) = Sizes[k] => (5 + c) + Len(bs) = Whole(k) + 1
    BY <1>6, <1>9
  <2> QED
    BY <2>2, <2>3, <2>4, <2>5
<1>12. /\ Len(content') < Sizes[k] => StartsAt(Ahead', <<k, HeaderLen + Len(content') + 1>>)
       /\ Len(content') = Sizes[k] => StartsAt(Ahead', <<k + 1, 1>>)
  <2>1. Len(content') <= Sizes[k] => c < Sizes[k]
    BY <1>6, <1>7, <1>9
  <2>2. Len(content') \in Nat
    BY <1>6, <1>7
  <2>3. CASE c < Sizes[k]
    BY <1>7, <1>11, <2>3
  <2>4. CASE ~ (c < Sizes[k])
    BY <1>9, <2>1, <2>2, <2>4
  <2> QED
    BY <2>3, <2>4
<1>13. ASSUME NEW j \in 1 .. Len(content'), j <= Sizes[k]
       PROVE  content'[j] = <<k, HeaderLen + j>>
  <2>1. CASE j <= c
    <3>1. j \in 1 .. c
      BY <2>1
    <3> QED
      BY <1>7, <1>8, <1>13, <3>1
  <2>2. CASE ~ (j <= c)
    <3>1. j - c \in 1 .. Len(bs) /\ c + (j - c) = j /\ c < Sizes[k]
      BY <1>6, <1>7, <1>9, <1>13, <2>2
    <3> QED
      BY <1>7, <1>11, <1>13, <3>1
  <2> QED
    BY <2>1, <2>2
<1>14. ContentRead'
  <2>1. current' = k
    BY <1>2 DEF k
  <2>2. k <= Len(Sizes) /\ k <= written' + 1
    BY <1>1, <1>8, SizesAre
  <2> QED
    BY <1>1, <1>8, <1>12, <1>13, <2>1, <2>2 DEF ContentRead
<1> QED
  BY <1>1, <1>10, <1>14 DEF InPlace

\* A segment that was read whole is the one the next header follows.
LEMMA PlacedDeliver ==
  ASSUME Types, Types', Placed, Deliver
  PROVE  Placed'
<1> SUFFICES ASSUME failed' = 0, Sized' PROVE InPlace'
  BY DEF Placed
<1>1. /\ UNCHANGED <<written, writing, stream, ending, failed>>
      /\ reader = "content" /\ reader' = "header"
      /\ delivered' = Append(delivered, [seq |-> seg_info.seq, content |-> content])
  BY DEF Deliver, writerVars, historyVars
<1>2. PICK c \in Nat : c = Len(delivered)
  BY LenProperties DEF Types
<1>3. /\ Len(delivered') = c + 1
      /\ \A j \in 1 .. c : delivered'[j] = delivered[j]
      /\ delivered'[c + 1] = [seq |-> seg_info.seq, content |-> content]
  BY <1>1, <1>2, AppendProperties DEF Types
<1>4. Sized /\ Len(content) = Sizes[current]
  <2>1. \A j \in 1 .. c : j \in 1 .. c + 1
    OBVIOUS
  <2>2. \A j \in 1 .. c + 1 : Len(delivered'[j].content) = Sizes[j]
    BY <1>3 DEF Sized
  <2>3. Sized
    BY <1>2, <1>3, <2>1, <2>2 DEF Sized
  <2>4. Len(delivered'[c + 1].content) = Sizes[c + 1]
    BY <2>2
  <2> QED
    BY <1>2, <1>3, <2>3, <2>4 DEF current
<1>5. Run(Ahead) /\ StartsAt(Ahead, <<current + 1, 1>>)
  BY <1>1, <1>4 DEF Placed, InPlace, ContentRead
<1>6. Ahead' = Ahead /\ current' = current + 1
  BY <1>1, <1>2, <1>3 DEF Ahead, WriterAt, current
<1> QED
  BY <1>1, <1>5, <1>6 DEF InPlace

LEMMA PlacedNext ==
  ASSUME Types, Types', Progress, NotAhead, Placed, [Next]_vars
  PROVE  Placed'
<1>1. CASE ReadHeaderEnd
  <2>1. /\ UNCHANGED <<written, writing, stream, ending, str_len, seg_info, content, delivered, cut, failed>>
        /\ reader = "header" /\ reader' = "rest" /\ str_len = 0
    BY <1>1 DEF ReadHeaderEnd, writerVars, historyVars, Progress
  <2>2. Ahead' = Ahead /\ current' = current /\ (Sized' <=> Sized)
    BY <2>1 DEF Ahead, WriterAt, current, Sized
  <2> QED
    BY <2>1, <2>2 DEF Placed, InPlace
<1>2. CASE ReadHeaderFails \/ ReadRestFails \/ ReadContentFails
  <2>1. failed' = Len(delivered) + 1
    BY <1>2 DEF ReadHeaderFails, ReadRestFails, ReadContentFails, ReadFails
  <2>2. Len(delivered) \in Nat
    BY LenProperties DEF Types
  <2>3. failed' # 0
    BY <2>1, <2>2
  <2> QED
    BY <2>3 DEF Placed
<1>3. CASE UNCHANGED vars
  <2>1. /\ Ahead' = Ahead /\ current' = current /\ (Sized' <=> Sized)
        /\ UNCHANGED <<reader, str_len, failed, written, seg_info, content, cut>>
    BY <1>3 DEF vars, writerVars, historyVars, Ahead, WriterAt, current, Sized
  <2> QED
    BY <2>1 DEF Placed, InPlace, ContentRead
<1> QED
  BY <1>1, <1>2, <1>3, PlacedWriter, PlacedClose, PlacedReadHeader, PlacedReadRest,
     PlacedReadContent, PlacedDeliver
  DEF Next, Reader

-------------------------------------------------------------------------------
(* What is delivered. *)

\* A step that delivers nothing: a header may come in parts, or a read() fail.
Silent ==
  /\ UNCHANGED <<delivered, buffer>>
  /\ cut' = cut \/ cut' = cut \cup {current}
  /\ failed' = failed \/ (failed = 0 /\ failed' = current)
  /\ written <= written'

\* The first read() of a content fails.
Lost ==
  /\ failed = 0 /\ failed' = current
  /\ content = << >>
  /\ delivered' = Append(delivered, [seq |-> seg_info.seq,
                          content |-> SubSeq(Filled(content), 1, seg_info.size)])
  /\ UNCHANGED <<buffer, cut, written>>

LEMMA StepIs ==
  ASSUME Types, Types', Failing, [Next]_vars
  PROVE  Silent \/ Lost \/ Deliver
<1>1. written \in Nat /\ written' \in Nat
  BY SizesAre DEF Types
<1>2. ReadFails => failed = 0 /\ failed' = current /\ UNCHANGED <<cut, written>>
  <2>1. ending = "rst" => failed = 0
    BY DEF Failing
  <2> QED
    BY <2>1 DEF ReadFails, current, writerVars
<1>3. CASE Writer \/ Close
  <2>1. UNCHANGED <<delivered, buffer, cut, failed>> /\ (written' = written \/ written' = written + 1)
    BY <1>3 DEF Writer, WriteHeader, WriteContent, Close, writerVars, historyVars
  <2>2. written <= written'
    BY <1>1, <2>1
  <2> QED
    BY <2>1, <2>2 DEF Silent
<1>4. CASE ReadHeader \/ ReadRest \/ ReadContent \/ ReadHeaderEnd
  BY <1>1, <1>4 DEF ReadHeader, ReadRest, ReadContent, ReadHeaderEnd, Silent, current, writerVars,
     historyVars
<1>5. CASE ReadHeaderFails \/ ReadRestFails
  BY <1>1, <1>2, <1>5 DEF ReadHeaderFails, ReadRestFails, Silent
<1>6. CASE ReadContentFails
  <2>1. failed = 0 /\ failed' = current /\ UNCHANGED <<cut, written, buffer>> /\ written <= written'
    BY <1>1, <1>2, <1>6 DEF ReadContentFails
  <2>2. CASE FirstRead
    <3>1. content = << >>
      BY <2>2 DEF FirstRead
    <3>2. delivered' = Append(delivered, [seq |-> seg_info.seq,
                                 content |-> SubSeq(Filled(content), 1, seg_info.size)])
      BY <1>6, <2>2 DEF ReadContentFails
    <3> QED
      BY <2>1, <3>1, <3>2 DEF Lost
  <2>3. CASE ~ FirstRead
    BY <1>6, <2>1, <2>3 DEF ReadContentFails, Silent
  <2> QED
    BY <2>2, <2>3
<1>7. CASE UNCHANGED vars
  BY <1>1, <1>7 DEF vars, writerVars, historyVars, Silent
<1> QED
  BY <1>3, <1>4, <1>5, <1>6, <1>7 DEF Next, Reader

\* What is appended to the segments that have been delivered comes last.
LEMMA Added ==
  ASSUME Types, Types', NEW d, delivered' = Append(delivered, d)
  PROVE  /\ Len(delivered) \in Nat
         /\ Len(delivered') = current /\ current \in Nat /\ current = Len(delivered) + 1
         /\ \A k \in 1 .. Len(delivered) : delivered'[k] = delivered[k] /\ k < current
         /\ delivered'[current] = d
         /\ \A k \in 1 .. Len(delivered') : k \in 1 .. Len(delivered) \/ k = current
<1>1. PICK c \in Nat : c = Len(delivered)
  BY LenProperties DEF Types
<1>2. Len(delivered') = c + 1 /\ current = c + 1
  BY <1>1, AppendProperties DEF Types, current
<1>3. \A k \in 1 .. c : delivered'[k] = delivered[k]
  BY <1>1, AppendProperties DEF Types
<1>4. delivered'[c + 1] = d
  BY <1>1, AppendProperties DEF Types
<1> QED
  BY <1>1, <1>2, <1>3, <1>4

\* When the header of this segment and of those before came in one piece, and no
\* read() has failed, the segments before had their sizes.
LEMMA SizedWhen ==
  ASSUME Types, SegmentsIntact, Known, failed = 0, \A j \in cut : j > Len(delivered)
  PROVE  Sized
<1> SUFFICES ASSUME NEW k \in 1 .. Len(delivered) PROVE Len(delivered[k].content) = Sizes[k]
  BY DEF Sized
<1>1. Len(delivered) \in Nat /\ cut \subseteq Nat
  BY LenProperties DEF Types
<1>2. \A j \in cut : j > k
  BY <1>1
<1>3. k <= Len(Sizes) /\ delivered[k] = [seq |-> k, content |-> ContentOf(k)]
  BY <1>2 DEF SegmentsIntact, Known
<1>4. k \in 1 .. Len(Sizes)
  BY <1>1, <1>3, SizesAre
<1> QED
  BY <1>3, <1>4, ContentIs

\* The segment that is returned is the one the reader is at, when the headers so far
\* came in one piece and no read() has failed.
LEMMA DeliverIs ==
  ASSUME Types, Types', Placed, SegmentsIntact, Known, Deliver, failed = 0,
         \A j \in cut : j > current
  PROVE  /\ current <= Len(Sizes) /\ current <= written + 1 /\ current \in 1 .. Len(Sizes)
         /\ Len(content) = Sizes[current]
         /\ \A j \in 1 .. Len(content) : content[j] = <<current, HeaderLen + j>>
         /\ seg_info.seq = current /\ content = ContentOf(current)
<1>1. Len(delivered) \in Nat /\ current = Len(delivered) + 1 /\ cut \subseteq Nat
  BY LenProperties DEF Types, current
<1>2. \A j \in cut : j > Len(delivered)
  BY <1>1
<1>3. Sized /\ current \notin cut
  BY <1>1, <1>2, SizedWhen
<1>4. reader = "content" /\ Len(content) = seg_info.size
  BY DEF Deliver, Complete
<1>5. ContentRead
  BY <1>3, <1>4 DEF Placed, InPlace
<1>6. seg_info = [seq |-> current, size |-> Sizes[current]]
  BY <1>3, <1>5 DEF ContentRead
<1>7. current <= Len(Sizes) /\ current <= written + 1 /\ current \in 1 .. Len(Sizes)
  BY <1>1, <1>5, SizesAre DEF ContentRead
<1>8. Len(content) = Sizes[current] /\ Sizes[current] \in Nat
  BY <1>4, <1>6, <1>7, SizesAre
<1>9. ASSUME NEW j \in 1 .. Len(content) PROVE content[j] = <<current, HeaderLen + j>>
  BY <1>5, <1>8 DEF ContentRead
<1>10. content = ContentOf(current)
  <2>1. content \in [1 .. Sizes[current] -> Bytes]
    BY <1>8, LenProperties DEF Types
  <2> QED
    BY <1>8, <1>9, <2>1 DEF ContentOf
<1> QED
  BY <1>6, <1>7, <1>8, <1>9, <1>10

LEMMA KnownNext ==
  ASSUME Inv, Types', [Next]_vars
  PROVE  Known'
<1> SUFFICES ASSUME NEW k \in 1 .. Len(delivered'),
                    \A j \in cut' : j > k, failed' # 0 => failed' > k
             PROVE  k <= Len(Sizes)
  BY DEF Known
<1>1. Silent \/ Lost \/ Deliver
  BY StepIs DEF Inv
<1>2. Len(delivered) \in Nat /\ current = Len(delivered) + 1 /\ cut \subseteq Nat /\ failed \in Nat
  BY LenProperties DEF Inv, Types, current
<1>3. CASE Silent
  <2>1. k \in 1 .. Len(delivered) /\ \A j \in cut : j > k
    BY <1>3 DEF Silent
  <2>2. failed # 0 => failed > k
    BY <1>3 DEF Silent
  <2> QED
    BY <2>1, <2>2 DEF Inv, Known
<1>4. CASE Lost
  <2>1. k # current /\ cut' = cut /\ failed = 0
    BY <1>2, <1>4 DEF Lost
  <2>2. k \in 1 .. Len(delivered)
    BY <1>4, <2>1, Added DEF Inv, Lost
  <2> QED
    BY <2>1, <2>2 DEF Inv, Known
<1>5. CASE Deliver
  <2>1. UNCHANGED <<cut, failed>>
    BY <1>5 DEF Deliver, historyVars
  <2>2. CASE k = current
    <3>1. failed = 0
      <4>1. failed # 0 => failed = current \/ failed = Len(delivered)
        BY <1>2 DEF Inv, Failing
      <4>2. failed # 0 => failed > current
        BY <2>1, <2>2
      <4> QED
        BY <1>2, <4>1, <4>2
    <3> QED
      BY <1>5, <2>1, <2>2, <3>1, DeliverIs DEF Inv
  <2>3. CASE k # current
    <3>1. k \in 1 .. Len(delivered)
      BY <1>5, <2>3, Added DEF Inv, Deliver
    <3> QED
      BY <2>1, <3>1 DEF Inv, Known
  <2> QED
    BY <2>2, <2>3
<1> QED
  BY <1>1, <1>3, <1>4, <1>5

LEMMA IntactNext ==
  ASSUME Inv, Types', [Next]_vars
  PROVE  SegmentsIntact'
<1> SUFFICES ASSUME NEW k \in 1 .. Len(delivered'),
                    \A j \in cut' : j > k, failed' # 0 => failed' > k
             PROVE  k <= written' + 1 /\ delivered'[k] = [seq |-> k, content |-> ContentOf(k)]
  BY DEF SegmentsIntact, ContentOf
<1>1. Silent \/ Lost \/ Deliver
  BY StepIs DEF Inv
<1>2. Len(delivered) \in Nat /\ current = Len(delivered) + 1 /\ cut \subseteq Nat /\ failed \in Nat
      /\ written \in Nat /\ written' \in Nat
  <2>1. Len(delivered) \in Nat
    BY LenProperties DEF Inv, Types
  <2> QED
    BY <2>1, SizesAre DEF Inv, Types, current
<1>3. CASE Silent
  <2>1. k \in 1 .. Len(delivered) /\ \A j \in cut : j > k
    BY <1>3 DEF Silent
  <2>2. failed # 0 => failed > k
    BY <1>3 DEF Silent
  <2>3. k <= written + 1 /\ delivered[k] = [seq |-> k, content |-> ContentOf(k)]
    BY <2>1, <2>2 DEF Inv, SegmentsIntact
  <2>4. written <= written' /\ delivered' = delivered
    BY <1>3 DEF Silent
  <2>5. k <= written' + 1
    <3>1. \A x, y, z \in Nat : y <= z /\ x <= y + 1 => x <= z + 1
      OBVIOUS
    <3>2. k \in Nat
      BY <1>2, <2>1
    <3> QED
      BY <1>2, <2>3, <2>4, <3>1, <3>2
  <2> QED
    BY <2>3, <2>4, <2>5
<1>4. CASE Lost
  <2>1. k # current /\ cut' = cut /\ failed = 0 /\ written' = written
    BY <1>2, <1>4 DEF Lost
  <2>2. k \in 1 .. Len(delivered) /\ delivered'[k] = delivered[k]
    BY <1>4, <2>1, Added DEF Inv, Lost
  <2> QED
    BY <2>1, <2>2 DEF Inv, SegmentsIntact
<1>5. CASE Deliver
  <2>1. UNCHANGED <<cut, failed, written>>
    BY <1>5 DEF Deliver, historyVars, writerVars
  <2>d. delivered' = Append(delivered, [seq |-> seg_info.seq, content |-> content])
    BY <1>5 DEF Deliver
  <2>2. CASE k = current
    <3>1. failed = 0
      <4>1. failed # 0 => failed = current \/ failed = Len(delivered)
        BY <1>2 DEF Inv, Failing
      <4>2. failed # 0 => failed > current
        BY <2>1, <2>2
      <4> QED
        BY <1>2, <4>1, <4>2
    <3>2. current <= written + 1 /\ seg_info.seq = current /\ content = ContentOf(current)
      BY <1>5, <2>1, <2>2, <3>1, DeliverIs DEF Inv
    <3>3. delivered'[current] = [seq |-> seg_info.seq, content |-> content]
      BY <2>d, Added DEF Inv
    <3> QED
      BY <2>1, <2>2, <3>2, <3>3
  <2>3. CASE k # current
    <3>1. k \in 1 .. Len(delivered) /\ delivered'[k] = delivered[k]
      BY <2>3, <2>d, Added DEF Inv
    <3> QED
      BY <2>1, <3>1 DEF Inv, SegmentsIntact
  <2> QED
    BY <2>2, <2>3
<1> QED
  BY <1>1, <1>3, <1>4, <1>5

LEMMA PlaceNext ==
  ASSUME Inv, Types', [Next]_vars
  PROVE  PlaceIsKept'
<1> SUFFICES ASSUME NEW k \in 1 .. Len(delivered'),
                    \A j \in 1 .. k - 1 : Len(delivered'[j].content) = Sizes[j],
                    k # failed',
                    NEW j \in 1 .. Len(delivered'[k].content), j <= Sizes[k]
             PROVE  delivered'[k].content[j] = <<k, HeaderLen + j>>
  BY DEF PlaceIsKept
<1>1. Silent \/ Lost \/ Deliver
  BY StepIs DEF Inv
<1>2. Len(delivered) \in Nat /\ current = Len(delivered) + 1 /\ failed \in Nat
  <2>1. Len(delivered) \in Nat
    BY LenProperties DEF Inv, Types
  <2> QED
    BY <2>1 DEF Inv, Types, current
\* A segment that was delivered before.
<1>3. ASSUME k \in 1 .. Len(delivered), \A i \in 1 .. Len(delivered) : delivered'[i] = delivered[i],
             k # failed
      PROVE  delivered'[k].content[j] = <<k, HeaderLen + j>>
  <2>1. \A i \in 1 .. k - 1 : i \in 1 .. Len(delivered)
    BY <1>2, <1>3
  <2>2. \A i \in 1 .. k - 1 : Len(delivered[i].content) = Sizes[i]
    BY <1>3, <2>1
  <2> QED
    BY <1>3, <2>2 DEF Inv, PlaceIsKept
<1>4. CASE Silent
  <2>1. delivered' = delivered /\ k \in 1 .. Len(delivered) /\ k # 0
    BY <1>2, <1>4 DEF Silent
  <2>2. k # failed
    BY <1>4, <2>1 DEF Silent
  <2> QED
    BY <1>3, <2>1, <2>2
<1>5. CASE Lost
  <2>1. k # current /\ failed = 0
    BY <1>5 DEF Lost
  <2>2. k \in 1 .. Len(delivered) /\ \A i \in 1 .. Len(delivered) : delivered'[i] = delivered[i]
    BY <1>5, <2>1, Added DEF Inv, Lost
  <2> QED
    BY <1>2, <1>3, <2>1, <2>2
<1>6. CASE Deliver
  <2>d. /\ delivered' = Append(delivered, [seq |-> seg_info.seq, content |-> content])
        /\ failed' = failed /\ reader = "content"
    BY <1>6 DEF Deliver, historyVars
  <2>1. \A i \in 1 .. Len(delivered) : delivered'[i] = delivered[i]
    BY <2>d, Added DEF Inv
  <2>2. CASE k = current
    <3>1. failed = 0
      <4>1. failed # 0 => failed = current
        BY <1>2, <2>d DEF Inv, Failing
      <4> QED
        BY <2>2, <2>d, <4>1
    <3>2. Sized
      <4>1. \A i \in 1 .. Len(delivered) : i \in 1 .. k - 1
        BY <1>2, <2>2
      <4> QED
        BY <2>1, <4>1 DEF Sized
    <3>3. ContentRead
      BY <2>d, <3>1, <3>2 DEF Inv, Placed, InPlace
    <3>4. delivered'[k].content = content
      BY <2>2, <2>d, Added DEF Inv
    <3> QED
      BY <2>2, <3>3, <3>4 DEF ContentRead
  <2>3. CASE k # current
    <3>1. k \in 1 .. Len(delivered)
      BY <2>3, <2>d, Added DEF Inv
    <3> QED
      BY <1>3, <2>1, <2>d, <3>1
  <2> QED
    BY <2>2, <2>3
<1> QED
  BY <1>1, <1>4, <1>5, <1>6

LEMMA BufferNext ==
  ASSUME Inv, Types', [Next]_vars
  PROVE  BufferOld'
<1> SUFFICES ASSUME failed' = 0, cut' = {}, NEW j \in 1 .. MaxSize
             PROVE  buffer'[j][1] <= Len(delivered')
  BY DEF BufferOld
<1>1. Silent \/ Lost \/ Deliver
  BY StepIs DEF Inv
<1>2. Len(delivered) \in Nat /\ current = Len(delivered) + 1 /\ failed \in Nat
  <2>1. Len(delivered) \in Nat
    BY LenProperties DEF Inv, Types
  <2> QED
    BY <2>1 DEF Inv, Types, current
<1>3. CASE Silent
  <2>1. failed = 0 /\ cut = {} /\ buffer' = buffer /\ delivered' = delivered
    BY <1>2, <1>3 DEF Silent
  <2> QED
    BY <2>1 DEF Inv, BufferOld
<1>4. CASE Lost
  BY <1>2, <1>4 DEF Lost
<1>5. CASE Deliver
  <2>1. /\ failed = 0 /\ cut = {} /\ buffer' = Filled(content)
        /\ delivered' = Append(delivered, [seq |-> seg_info.seq, content |-> content])
    BY <1>5 DEF Deliver, historyVars
  <2>2. Len(delivered') = current
    BY <2>1, Added DEF Inv
  <2>3. \A i \in 1 .. Len(content) : content[i] = <<current, HeaderLen + i>>
    BY <1>5, <2>1, DeliverIs DEF Inv
  <2>4. Len(content) \in Nat /\ Len(content) <= MaxSize /\ content \in Seq(Bytes)
        /\ buffer \in [1 .. MaxSize -> Bytes]
    <3>1. Len(content) <= seg_info.size /\ seg_info.size \in 0 .. MaxSize
      BY <1>5 DEF Deliver, Complete, Inv, Progress, Types
    <3> QED
      BY <3>1, LenProperties, MaxSizeIs DEF Inv, Types
  <2>5. Filled(content)[j] = IF j <= Len(content) THEN content[j] ELSE buffer[j]
    BY <2>4, FilledIs
  <2>6. CASE j <= Len(content)
    <3>1. j \in 1 .. Len(content)
      BY <2>4, <2>6
    <3>2. buffer'[j][1] = current
      BY <2>1, <2>3, <2>5, <2>6, <3>1
    <3> QED
      BY <1>2, <2>2, <3>2
  <2>7. CASE ~ (j <= Len(content))
    <3>1. buffer'[j] = buffer[j] /\ buffer[j][1] <= Len(delivered)
      BY <2>1, <2>5, <2>7 DEF Inv, BufferOld
    <3>2. buffer[j] \in Bytes
      BY <2>4
    <3>3. buffer[j][1] \in Nat
      BY <3>2, SizesAre DEF Bytes
    <3> QED
      BY <1>2, <2>2, <3>1, <3>3
  <2> QED
    BY <2>6, <2>7
<1> QED
  BY <1>1, <1>3, <1>4, <1>5

LEMMA FailureNext ==
  ASSUME Inv, Types', [Next]_vars, Failing'
  PROVE  FailureCostsOne'
<1> SUFFICES ASSUME failed' # 0 PROVE
      /\ Len(delivered') <= failed'
      /\ Len(delivered') = failed' /\ cut' = {} =>
           \A j \in 1 .. Len(delivered'[failed'].content) :
             delivered'[failed'].content[j][1] < failed'
  BY DEF FailureCostsOne
<1>1. Silent \/ Lost \/ Deliver
  BY StepIs DEF Inv
<1>2. Len(delivered) \in Nat /\ current = Len(delivered) + 1 /\ failed \in Nat /\ failed' \in Nat
      /\ Len(delivered') \in Nat
  <2>1. Len(delivered) \in Nat /\ Len(delivered') \in Nat
    BY LenProperties DEF Inv, Types
  <2> QED
    BY <2>1 DEF Inv, Types, current
<1>3. Len(delivered') <= failed'
  <2>1. Len(delivered') = failed' \/ Len(delivered') = failed' - 1
    BY DEF Failing
  <2>2. \A x, y \in Nat : x = y \/ x = y - 1 => x <= y
    OBVIOUS
  <2> QED
    BY <1>2, <2>1, <2>2
<1> SUFFICES ASSUME Len(delivered') = failed', cut' = {},
                    NEW j \in 1 .. Len(delivered'[failed'].content)
             PROVE  delivered'[failed'].content[j][1] < failed'
  BY <1>3
<1>4. CASE Silent
  <2>1. delivered' = delivered /\ cut = {} /\ failed' = failed
    BY <1>2, <1>4 DEF Silent
  <2> QED
    BY <2>1 DEF Inv, FailureCostsOne
<1>5. CASE Lost
  <2> DEFINE w == SubSeq(Filled(content), 1, seg_info.size)
  <2>1. /\ failed = 0 /\ failed' = current /\ cut = {} /\ content = << >>
        /\ delivered' = Append(delivered, [seq |-> seg_info.seq, content |-> w])
    BY <1>5 DEF Lost
  <2>2. delivered'[failed'].content = w
    <3> HIDE DEF w
    <3> QED
      BY <2>1, Added DEF Inv
  <2>3. /\ Filled(content) \in [1 .. MaxSize -> Bytes]
        /\ \A i \in 1 .. MaxSize : Filled(content)[i] = buffer[i]
    <3>1. content \in Seq(Bytes) /\ Len(content) = 0 /\ MaxSize \in Nat /\ Len(content) <= MaxSize
          /\ buffer \in [1 .. MaxSize -> Bytes]
      BY <2>1, MaxSizeIs DEF Inv, Types
    <3>2. /\ Filled(content) \in [1 .. MaxSize -> Bytes]
          /\ \A i \in 1 .. MaxSize :
               Filled(content)[i] = IF i <= Len(content) THEN content[i] ELSE buffer[i]
      BY <3>1, FilledIs
    <3> QED
      BY <3>1, <3>2
  <2>4. PICK f \in [1 .. MaxSize -> Bytes] : f = Filled(content)
    BY <2>3
  <2>5. f \in Seq(Bytes) /\ Len(f) = MaxSize /\ seg_info.size \in 0 .. Len(f)
    <3>1. MaxSize \in Nat
      BY MaxSizeIs
    <3> QED
      BY <3>1 DEF Inv, Types
  <2>6. Len(w) = seg_info.size /\ \A i \in 1 .. seg_info.size : w[i] = f[i]
    BY <2>4, <2>5, Front
  <2> HIDE DEF w
  <2>7. j \in 1 .. MaxSize /\ w[j] = buffer[j]
    <3>1. MaxSize \in Nat /\ j \in 1 .. seg_info.size /\ seg_info.size \in 0 .. MaxSize
      BY <2>2, <2>5, <2>6, MaxSizeIs
    <3>2. j \in 1 .. MaxSize
      BY <3>1
    <3> QED
      BY <2>3, <2>4, <2>6, <3>1, <3>2
  <2>8. buffer[j][1] <= Len(delivered)
    BY <2>1, <2>7 DEF Inv, BufferOld
  <2>9. buffer[j][1] \in Nat
    <3>1. buffer[j] \in Bytes
      BY <2>7 DEF Inv, Types
    <3> QED
      BY <3>1, SizesAre DEF Bytes
  <2>10. buffer[j][1] < failed'
    BY <1>2, <2>1, <2>8, <2>9
  <2> QED
    BY <2>2, <2>7, <2>10
<1>6. CASE Deliver
  <2>1. /\ failed' = failed /\ reader = "content" /\ Complete
        /\ delivered' = Append(delivered, [seq |-> seg_info.seq, content |-> content])
    BY <1>6 DEF Deliver, historyVars
  <2>2. content = << >> \/ Len(content) < seg_info.size
    BY <2>1 DEF Inv, Failing
  <2>3. content = << >>
    <3>1. Len(content) = seg_info.size /\ seg_info.size \in Nat
      BY <2>1, MaxSizeIs DEF Complete, Inv, Types
    <3> QED
      BY <2>2, <3>1
  <2>4. delivered'[failed'].content = content
    BY <2>1, Added DEF Inv
  <2> QED
    BY <2>3, <2>4
<1> QED
  BY <1>1, <1>4, <1>5, <1>6

-------------------------------------------------------------------------------
(* The invariant, and what follows from it. *)

LEMMA InvInit ==
  ASSUME Init
  PROVE  Inv
<1>1. Types
  <2>1. buffer \in [1 .. MaxSize -> Bytes]
    BY SizesAre, MaxSizeIs DEF Init, Bytes
  <2>2. seg_info \in [seq : Int, size : 0 .. MaxSize]
    BY DEF Init, Wrong
  <2>3. 0 \in 0 .. Len(Sizes)
    BY SizesAre
  <2>4. Init /\ buffer \in [1 .. MaxSize -> Bytes] /\ seg_info \in [seq : Int, size : 0 .. MaxSize]
    BY <2>1, <2>2
  <2>5. << >> \in Seq(Sent) /\ << >> \in Seq(Bytes) /\ << >> \in Seq(Delivered)
    OBVIOUS
  <2>6. /\ written = 0 /\ writing = FALSE /\ stream = << >> /\ ending = "open" /\ reader = "header"
        /\ str_len = 0 /\ content = << >> /\ delivered = << >> /\ cut = {} /\ failed = 0
    BY DEF Init
  <2>7. written \in 0 .. Len(Sizes) /\ writing \in BOOLEAN /\ (writing => written < Len(Sizes))
    BY <2>3, <2>6
  <2>8. /\ stream \in Seq(Sent) /\ content \in Seq(Bytes) /\ delivered \in Seq(Delivered)
        /\ str_len \in Int /\ cut \subseteq Nat /\ failed \in Nat
    BY <2>5, <2>6
  <2> QED
    BY <2>4, <2>6, <2>7, <2>8 DEF Types
<1>2. Len(delivered) = 0 /\ Len(stream) = 0 /\ current = 1
  BY DEF Init, current
<1>3. Progress /\ NotAhead /\ Failing /\ BufferOld /\ Known
  BY <1>2, MaxSizeIs DEF Init, Progress, NotAhead, Failing, BufferOld, Known
<1>4. Placed
  <2>1. Ahead = <<<<1, 1>>>>
    BY DEF Init, Ahead, WriterAt
  <2> QED
    BY <1>2, <2>1 DEF Init, Placed, InPlace, Run, StartsAt
<1>5. SegmentsIntact /\ PlaceIsKept /\ FailureCostsOne
  BY <1>2 DEF Init, SegmentsIntact, PlaceIsKept, FailureCostsOne
<1> QED
  BY <1>1, <1>3, <1>4, <1>5 DEF Inv

LEMMA InvNext ==
  ASSUME Inv, [Next]_vars
  PROVE  Inv'
<1>1. Types'
  BY TypesNext DEF Inv
<1>2. Progress' /\ NotAhead' /\ Failing' /\ Placed'
  BY <1>1, ProgressNext, NotAheadNext, FailingNext, PlacedNext DEF Inv
<1>3. BufferOld' /\ Known' /\ SegmentsIntact' /\ PlaceIsKept' /\ FailureCostsOne'
  BY <1>1, <1>2, BufferNext, KnownNext, IntactNext, PlaceNext, FailureNext
<1> QED
  BY <1>1, <1>2, <1>3 DEF Inv

\* All of it holds however writeSegmentInfo() and readSegmentInfo() are interleaved
\* (socket.c:28-70).
THEOREM InvCorrect == Spec => []Inv
<1>1. Init => Inv
  BY InvInit
<1>2. Inv /\ [Next]_vars => Inv'
  BY InvNext
<1> QED
  BY <1>1, <1>2, PTL DEF Spec

\* With headers in one piece the segments are returned as they were written, each under
\* its number and with its content, however the contents are cut up (readSegmentInfo(),
\* socket.c:55-70).
THEOREM SegmentsIntactCorrect == Spec => []SegmentsIntact
<1>1. Inv => SegmentsIntact
  BY DEF Inv
<1> QED
  BY <1>1, InvCorrect, PTL

\* A header that comes in parts does not make the reader lose its place: what it takes
\* for a segment's content is that segment's, for as long as the sizes are right
\* (socket.c:59-66).
THEOREM PlaceIsKeptCorrect == Spec => []PlaceIsKept
<1>1. Inv => PlaceIsKept
  BY DEF Inv
<1> QED
  BY <1>1, InvCorrect, PTL

\* A read() that fails costs the reader at most one segment, and no byte of that one is
\* new: it is what the array still held (recvStr(), socket.c:28-43).
THEOREM FailureCostsOneCorrect == Spec => []FailureCostsOne
<1>1. Inv => FailureCostsOne
  BY DEF Inv
<1> QED
  BY <1>1, InvCorrect, PTL

===============================================================================
