-------------------------- MODULE JFReceiverProofs --------------------------
(***************************************************************************)
(* Theorems about the receive loop of a JF plate, for any stream of bytes  *)
(* and any cuts.                                                           *)
(***************************************************************************)
EXTENDS JFReceiver, DataInduction, SequenceTheorems

-----------------------------------------------------------------------------
(* The loop of onReadyRead (jf_plate.cpp 187-205) as a recursion on the    *)
(* length of the buffer: it ends, and Decode is what its equation says.    *)

Packets == [cmd : Byte, data : Seq(Byte)]
Results == [packets : Seq(Packets), rest : Seq(Byte)]

\* Too short for a header, or for the frame that it begins.
OneFrame(buf) ==
    \/ Len(buf) < 7
    \/ HasHeader(buf) /\ Len(buf) < FrameLen(buf)

\* The first frame of a buffer, and what follows it.
Frame(buf) == SubSeq(buf, 1, FrameLen(buf))
Behind(buf) == SubSeq(buf, FrameLen(buf) + 1, Len(buf))

Loop ==
    [D |-> Seq(Byte),
     size |-> [buf \in Seq(Byte) |-> Len(buf)],
     Stop |-> {buf \in Seq(Byte) : OneFrame(buf)},
     base |-> [buf \in Seq(Byte) |-> [packets |-> <<>>, rest |-> buf]],
     step |-> [buf \in Seq(Byte) |->
                 [more \in Results |->
                    IF ~HasHeader(buf) THEN more
                    ELSE [more EXCEPT !.packets = <<Packet(Frame(buf))>> \o @]]],
     next |-> [buf \in Seq(Byte) |->
                 IF ~HasHeader(buf) THEN Tail(buf) ELSE Behind(buf)]]

\* A buffer that is long enough has bytes where the header is.
LEMMA HeaderBytes ==
  ASSUME NEW buf \in Seq(Byte), Len(buf) >= 7
  PROVE  /\ buf[1] \in Byte /\ buf[2] \in Byte /\ buf[4] \in Byte /\ buf[7] \in Byte
         /\ FrameLen(buf) \in 7 .. 262
<1>1. \A k \in 1 .. 7 : k \in 1 .. Len(buf)
  OBVIOUS
<1>2. \A k \in 1 .. 7 : buf[k] \in Byte
  BY <1>1, ElementOfSeq
<1>3. buf[7] \in 0 .. 255
  BY <1>2 DEF Byte
<1>4. FrameLen(buf) \in 7 .. 262
  <2>. DEFINE b == buf[7]
  <2>1. FrameLen(buf) = 7 + b /\ b \in 0 .. 255
    BY <1>3 DEF FrameLen
  <2>. HIDE DEF b
  <2>. QED
    BY <2>1
<1>. QED
  BY <1>2, <1>4

\* A buffer that is more than the beginning of a frame.
LEMMA MoreThanOneFrame ==
  ASSUME NEW buf \in Seq(Byte), ~OneFrame(buf)
  PROVE  /\ Len(buf) \in Nat /\ Len(buf) >= 7
         /\ FrameLen(buf) \in 7 .. 262
         /\ HasHeader(buf) => Len(buf) >= FrameLen(buf)
<1>1. Len(buf) \in Nat /\ ~(Len(buf) < 7) /\ ~(HasHeader(buf) /\ Len(buf) < FrameLen(buf))
  BY LenProperties DEF OneFrame
<1>. DEFINE n == FrameLen(buf)
<1>2. Len(buf) >= 7
  BY <1>1
<1>3. n \in 7 .. 262
  BY <1>2, HeaderBytes
<1>4. HasHeader(buf) => ~(Len(buf) < n)
  BY <1>1
<1>. HIDE DEF n
<1>5. HasHeader(buf) => Len(buf) >= n
  BY <1>1, <1>3, <1>4
<1>. QED
  BY <1>1, <1>2, <1>3, <1>5 DEF n

\* A whole frame is cut off: it is a packet, and what is left is shorter.
LEMMA WholeFrame ==
  ASSUME NEW buf \in Seq(Byte), Len(buf) >= 7, Len(buf) >= FrameLen(buf)
  PROVE  /\ Frame(buf) \in Seq(Byte) /\ Len(Frame(buf)) = FrameLen(buf)
         /\ Packet(Frame(buf)) \in Packets
         /\ Behind(buf) \in Seq(Byte)
         /\ Len(Behind(buf)) = Len(buf) - FrameLen(buf)
<1>. DEFINE n == FrameLen(buf)
<1>. HIDE DEF n
<1>0. n \in 7 .. 262 /\ n \in Int /\ Len(buf) \in Nat
  <2>1. n \in 7 .. 262
    BY HeaderBytes DEF n
  <2>2. Len(buf) \in Nat
    BY LenProperties
  <2>. QED
    BY <2>1, <2>2
<1>1. \A k \in 1 .. Len(buf) : buf[k] \in Byte
  BY ElementOfSeq
<1>2. /\ SubSeq(buf, 1, n) \in Seq(Byte) /\ Len(SubSeq(buf, 1, n)) = n
      /\ \A k \in 1 .. n : SubSeq(buf, 1, n)[k] = buf[k]
  <2>1. \A k \in 1 .. n : buf[k] \in Byte
    BY <1>0, <1>1 DEF n
  <2>. QED
    BY <1>0, <2>1, SubSeqProperties
<1>3. /\ SubSeq(buf, n + 1, Len(buf)) \in Seq(Byte)
      /\ Len(SubSeq(buf, n + 1, Len(buf))) = Len(buf) - n
  <2>1. \A k \in n + 1 .. Len(buf) : buf[k] \in Byte
    BY <1>0, <1>1
  <2>2. n + 1 \in Int /\ Len(buf) \in Int /\ n <= Len(buf)
    BY <1>0 DEF n
  <2>. QED
    BY <1>0, <2>1, <2>2, SubSeqProperties
<1>4. Packet(Frame(buf)) \in Packets
  <2>. DEFINE frame == SubSeq(buf, 1, n)
  <2>1. \A k \in 8 .. n : frame[k] \in Byte
    <3>. TAKE k \in 8 .. n
    <3>1. k \in 1 .. n /\ k \in 1 .. Len(buf)
      BY <1>0 DEF n
    <3>. QED
      BY <1>1, <1>2, <3>1
  <2>2. frame[4] \in Byte
    <3>1. 4 \in 1 .. n /\ 4 \in 1 .. Len(buf)
      BY <1>0
    <3>. QED
      BY <1>1, <1>2, <3>1
  <2>3. SubSeq(frame, 8, n) \in Seq(Byte)
    BY <1>0, <2>1, SubSeqProperties
  <2>4. frame = Frame(buf) /\ Len(frame) = n
    BY <1>2 DEF Frame, n
  <2>. HIDE DEF frame
  <2>. QED
    BY <2>2, <2>3, <2>4 DEF Packet, Packets
<1>. QED
  BY <1>2, <1>3, <1>4 DEF Frame, Behind, n

\* Every turn of the loop makes the buffer shorter.
LEMMA LoopEnds == Decreases(Loop)
<1>1. Loop.size \in [Loop.D -> Nat]
  BY LenProperties DEF Loop
<1>2. ASSUME NEW buf \in Loop.D \ Loop.Stop
      PROVE  Loop.next[buf] \in Loop.D /\ Loop.size[Loop.next[buf]] < Loop.size[buf]
  <2>1. buf \in Seq(Byte) /\ ~OneFrame(buf)
    BY <1>2 DEF Loop
  <2>2. /\ Len(buf) \in Nat /\ Len(buf) >= 7
        /\ FrameLen(buf) \in 7 .. 262
        /\ HasHeader(buf) => Len(buf) >= FrameLen(buf)
    BY <2>1, MoreThanOneFrame
  <2>3. CASE ~HasHeader(buf)
    <3>1. Tail(buf) \in Seq(Byte) /\ Len(Tail(buf)) = Len(buf) - 1
      BY <2>1, <2>2, HeadTailProperties
    <3>2. Loop.next[buf] = Tail(buf)
      BY <2>1, <2>3 DEF Loop
    <3>. QED
      BY <2>1, <2>2, <3>1, <3>2 DEF Loop
  <2>4. CASE HasHeader(buf)
    <3>1. Behind(buf) \in Seq(Byte) /\ Len(Behind(buf)) = Len(buf) - FrameLen(buf)
      BY <2>1, <2>2, <2>4, WholeFrame
    <3>2. Loop.next[buf] = Behind(buf)
      BY <2>1, <2>4 DEF Loop
    <3>3. Len(Behind(buf)) < Len(buf)
      <4>. DEFINE n == FrameLen(buf)
                  l == Len(buf)
                  k == Len(Behind(buf))
      <4>1. l \in Nat /\ n \in 7 .. 262 /\ k = l - n
        BY <2>2, <3>1
      <4>. HIDE DEF n, l, k
      <4>2. k < l
        BY <4>1
      <4>. QED
        BY <4>2 DEF k, l
    <3>4. Loop.D = Seq(Byte) /\ \A b \in Seq(Byte) : Loop.size[b] = Len(b)
      BY DEF Loop
    <3>. QED
      BY <2>1, <3>1, <3>2, <3>3, <3>4
  <2>. QED
    BY <2>3, <2>4
<1>. QED
  BY <1>1, <1>2 DEF Decreases

\* What is true of a buffer with one frame at most, and of any other when it is
\* true of what the next turn of the loop has, is true of every buffer.
LEMMA LoopInduction ==
  ASSUME NEW P,
         \A buf \in Seq(Byte) : OneFrame(buf) => buf \in P,
         \A buf \in Seq(Byte) :
            ~OneFrame(buf) /\ ~HasHeader(buf) /\ Tail(buf) \in P => buf \in P,
         \A buf \in Seq(Byte) :
            ~OneFrame(buf) /\ HasHeader(buf) /\ Behind(buf) \in P => buf \in P
  PROVE  \A buf \in Seq(Byte) : buf \in P
<1>1. Loop.D = Seq(Byte) /\ Loop.Stop = {buf \in Seq(Byte) : OneFrame(buf)}
  BY DEF Loop
<1>2. \A buf \in Seq(Byte) :
        Loop.next[buf] = IF ~HasHeader(buf) THEN Tail(buf) ELSE Behind(buf)
  BY DEF Loop
<1>3. \A buf \in Loop.D : buf \in Loop.Stop \/ Loop.next[buf] \in P => buf \in P
  BY <1>1, <1>2
<1>. HIDE DEF Loop
<1>. QED
  BY <1>1, <1>3, LoopEnds, InductionBySize

\* What a turn of the loop does with the result of the turns after it.
LEMMA LoopTypes ==
  /\ \A buf \in Loop.D \cap Loop.Stop : Loop.base[buf] \in Results
  /\ \A buf \in Loop.D \ Loop.Stop : Loop.step[buf] \in [Results -> Results]
<1>1. ASSUME NEW buf \in Seq(Byte) PROVE Loop.base[buf] \in Results
  <2>1. <<>> \in Seq(Packets)
    BY EmptySeq
  <2>. QED
    BY <2>1 DEF Loop, Results
<1>2. ASSUME NEW buf \in Seq(Byte), ~OneFrame(buf)
      PROVE  Loop.step[buf] \in [Results -> Results]
  <2>1. Len(buf) >= 7 /\ (HasHeader(buf) => Len(buf) >= FrameLen(buf))
    BY <1>2, MoreThanOneFrame
  <2>. DEFINE Added(more) == [more EXCEPT !.packets = <<Packet(Frame(buf))>> \o @]
  <2>2. ASSUME HasHeader(buf), NEW more \in Results PROVE Added(more) \in Results
    <3>3. Packet(Frame(buf)) \in Packets
      BY <2>1, <2>2, WholeFrame
    <3>4. <<Packet(Frame(buf))>> \in Seq(Packets)
      BY <3>3
    <3>5. more.packets \in Seq(Packets)
      BY DEF Results
    <3>6. <<Packet(Frame(buf))>> \o more.packets \in Seq(Packets)
      BY <3>4, <3>5, ConcatProperties
    <3>. QED
      BY <3>6 DEF Results
  <2>3. Loop.step[buf] =
          [more \in Results |-> IF ~HasHeader(buf) THEN more ELSE Added(more)]
    BY DEF Loop
  <2>. HIDE DEF Added
  <2>. QED
    BY <2>2, <2>3
<1>. QED
  BY <1>1, <1>2 DEF Loop

\* One turn of the loop.
Turn(f, buf) ==
    IF Len(buf) < 7
      THEN [packets |-> <<>>, rest |-> buf]
    ELSE IF ~HasHeader(buf)
      THEN f[Tail(buf)]
    ELSE IF Len(buf) < FrameLen(buf)
      THEN [packets |-> <<>>, rest |-> buf]
    ELSE LET more == f[SubSeq(buf, FrameLen(buf) + 1, Len(buf))]
         IN  [more EXCEPT !.packets = <<Packet(SubSeq(buf, 1, FrameLen(buf)))>> \o @]

\* Decode is a function from buffers to results, and obeys its equation.
LEMMA DecodeIsLoop ==
  /\ Decode \in [Seq(Byte) -> Results]
  /\ \A buf \in Seq(Byte) : Decode[buf] = Turn(Decode, buf)
<1>1. PICK f \in [Seq(Byte) -> Results] :
        \A buf \in Seq(Byte) : SolvesAt(Loop, f, buf)
  <2>1. Loop.D = Seq(Byte)
    BY DEF Loop
  <2>. HIDE DEF Loop
  <2>. QED
    BY <2>1, LoopEnds, LoopTypes, RecursionBySize
<1>2. ASSUME NEW buf \in Seq(Byte) PROVE f[buf] = Turn(f, buf)
  <2>1. /\ buf \in Loop.Stop <=> OneFrame(buf)
        /\ Loop.base[buf] = [packets |-> <<>>, rest |-> buf]
    BY DEF Loop
  <2>2. SolvesAt(Loop, f, buf)
    BY <1>1
  <2>3. CASE OneFrame(buf)
    <3>1. f[buf] = [packets |-> <<>>, rest |-> buf]
      BY <2>1, <2>2, <2>3 DEF SolvesAt
    <3>. QED
      BY <2>3, <3>1 DEF Turn, OneFrame
  <2>4. CASE ~OneFrame(buf)
    <3>1. f[buf] = Loop.step[buf][f[Loop.next[buf]]]
      BY <2>1, <2>2, <2>4 DEF SolvesAt
    <3>2. Loop.next[buf] \in Seq(Byte)
      BY <2>4, LoopEnds DEF Decreases, Loop
    <3>3. f[Loop.next[buf]] \in Results
      BY <3>2
    <3>4. CASE ~HasHeader(buf)
      <4>1. Loop.next[buf] = Tail(buf)
        BY <3>4 DEF Loop
      <4>2. \A more \in Results : Loop.step[buf][more] = more
        BY <3>4 DEF Loop
      <4>. QED
        BY <2>4, <3>1, <3>3, <3>4, <4>1, <4>2 DEF Turn, OneFrame
    <3>5. CASE HasHeader(buf)
      <4>1. Loop.next[buf] = Behind(buf)
        BY <3>5 DEF Loop
      <4>2. \A more \in Results : Loop.step[buf][more] =
              [more EXCEPT !.packets = <<Packet(Frame(buf))>> \o @]
        BY <3>5 DEF Loop
      <4>3. f[buf] = [f[Behind(buf)] EXCEPT !.packets = <<Packet(Frame(buf))>> \o @]
        BY <3>1, <3>3, <4>1, <4>2
      <4>. QED
        BY <2>4, <3>5, <4>3 DEF Turn, OneFrame, Frame, Behind
    <3>. QED
      BY <3>4, <3>5
  <2>. QED
    BY <2>3, <2>4
<1>3. f = [buf \in Seq(Byte) |-> Turn(f, buf)]
  BY <1>1, <1>2
<1>4. Decode = [buf \in Seq(Byte) |-> Turn(Decode, buf)]
  <2>1. \E g : g = [buf \in Seq(Byte) |-> Turn(g, buf)]
    BY <1>3
  <2>2. Decode = CHOOSE g : g = [buf \in Seq(Byte) |-> Turn(g, buf)]
    BY Zenon DEF Decode, Turn
  <2>. HIDE DEF Decode
  <2>. QED
    BY <2>1, <2>2, Zenon
<1>. HIDE DEF Decode
<1>5. \A buf \in Seq(Byte) : Decode[buf] = Turn(Decode, buf)
  BY <1>4
<1>6. \A buf \in Seq(Byte) : Decode[buf] = f[buf]
  <2>. DEFINE P == {buf \in Seq(Byte) : Decode[buf] = f[buf]}
  <2>1. ASSUME NEW buf \in Seq(Byte), OneFrame(buf) PROVE buf \in P
    BY <1>2, <1>5, <2>1 DEF Turn, OneFrame
  <2>2. ASSUME NEW buf \in Seq(Byte), ~OneFrame(buf), ~HasHeader(buf), Tail(buf) \in P
        PROVE  buf \in P
    BY <1>2, <1>5, <2>2 DEF Turn, OneFrame
  <2>3. ASSUME NEW buf \in Seq(Byte), ~OneFrame(buf), HasHeader(buf), Behind(buf) \in P
        PROVE  buf \in P
    BY <1>2, <1>5, <2>3 DEF Turn, OneFrame, Behind
  <2>4. \A buf \in Seq(Byte) : buf \in P
    <3>. HIDE DEF P
    <3>. QED BY <2>1, <2>2, <2>3, LoopInduction
  <2>. QED
    BY <2>4
<1>7. Decode = f
  BY <1>4, <1>6
<1>. QED
  BY <1>5, <1>7

\* The same, turn by turn.
LEMMA DecodeStops ==
  ASSUME NEW buf \in Seq(Byte), OneFrame(buf)
  PROVE  Decode[buf] = [packets |-> <<>>, rest |-> buf]
BY DecodeIsLoop DEF Turn, OneFrame

LEMMA DecodeSkips ==
  ASSUME NEW buf \in Seq(Byte), ~OneFrame(buf), ~HasHeader(buf)
  PROVE  Decode[buf] = Decode[Tail(buf)] /\ Tail(buf) \in Seq(Byte)
<1>1. Len(buf) >= 7
  BY MoreThanOneFrame
<1>2. Tail(buf) \in Seq(Byte)
  BY <1>1, HeadTailProperties, EmptySeq
<1>. QED
  BY <1>2, DecodeIsLoop DEF Turn, OneFrame

LEMMA DecodeTakes ==
  ASSUME NEW buf \in Seq(Byte), ~OneFrame(buf), HasHeader(buf)
  PROVE  /\ Behind(buf) \in Seq(Byte) /\ Packet(Frame(buf)) \in Packets
         /\ Decode[buf] = [packets |-> <<Packet(Frame(buf))>> \o Decode[Behind(buf)].packets,
                           rest |-> Decode[Behind(buf)].rest]
<1>1. Len(buf) >= 7 /\ Len(buf) >= FrameLen(buf)
  BY MoreThanOneFrame
<1>2. Behind(buf) \in Seq(Byte) /\ Packet(Frame(buf)) \in Packets
  BY <1>1, WholeFrame
<1>3. Decode[buf] = [Decode[Behind(buf)] EXCEPT !.packets = <<Packet(Frame(buf))>> \o @]
  BY DecodeIsLoop DEF Turn, OneFrame, Behind, Frame
<1>4. Decode[Behind(buf)] \in Results
  BY <1>2, DecodeIsLoop
<1>. QED
  BY <1>2, <1>3, <1>4 DEF Results

\* What the loop leaves in the buffer is the beginning of one frame.
LEMMA RestIsOneFrame ==
  \A buf \in Seq(Byte) : OneFrame(Decode[buf].rest)
<1>. DEFINE P == {buf \in Seq(Byte) : OneFrame(Decode[buf].rest)}
<1>1. ASSUME NEW buf \in Seq(Byte), OneFrame(buf) PROVE buf \in P
  <2>0. Decode[buf] = [packets |-> <<>>, rest |-> buf]
    BY <1>1, DecodeStops, Zenon
  <2>1. Decode[buf].rest = buf
    BY <2>0
  <2>. QED
    BY <1>1, <2>1
<1>2. ASSUME NEW buf \in Seq(Byte), ~OneFrame(buf), ~HasHeader(buf), Tail(buf) \in P
      PROVE  buf \in P
  BY <1>2, DecodeSkips
<1>3. ASSUME NEW buf \in Seq(Byte), ~OneFrame(buf), HasHeader(buf), Behind(buf) \in P
      PROVE  buf \in P
  <2>0. Decode[buf] = [packets |-> <<Packet(Frame(buf))>> \o Decode[Behind(buf)].packets,
                      rest |-> Decode[Behind(buf)].rest]
    BY <1>3, DecodeTakes, Zenon
  <2>1. Decode[buf].rest = Decode[Behind(buf)].rest
    BY <2>0
  <2>. QED
    BY <1>3, <2>1
<1>4. \A buf \in Seq(Byte) : buf \in P
  <2>. HIDE DEF P
  <2>. QED BY <1>1, <1>2, <1>3, LoopInduction
<1>. QED
  BY <1>4

\* What more bytes do to a buffer with a header: the header stays.
LEMMA HeaderStays ==
  ASSUME NEW a \in Seq(Byte), NEW b \in Seq(Byte), ~OneFrame(a)
  PROVE  /\ a \o b \in Seq(Byte) /\ ~OneFrame(a \o b)
         /\ HasHeader(a \o b) <=> HasHeader(a)
         /\ FrameLen(a \o b) = FrameLen(a)
<1>1. /\ Len(a) \in Nat /\ Len(a) >= 7 /\ FrameLen(a) \in 7 .. 262
      /\ HasHeader(a) => Len(a) >= FrameLen(a)
  BY MoreThanOneFrame
<1>2. /\ a \o b \in Seq(Byte)
      /\ Len(a \o b) = Len(a) + Len(b)
      /\ \A i \in 1 .. Len(a) + Len(b) :
           (a \o b)[i] = IF i <= Len(a) THEN a[i] ELSE b[i - Len(a)]
  BY ConcatProperties
<1>3. Len(b) \in Nat
  BY LenProperties
<1>4. \A i \in 1 .. 7 : i \in 1 .. Len(a) + Len(b) /\ i <= Len(a)
  BY <1>1, <1>3
<1>5. \A i \in 1 .. 7 : (a \o b)[i] = a[i]
  BY <1>2, <1>4
<1>6. (a \o b)[1] = a[1] /\ (a \o b)[2] = a[2] /\ (a \o b)[7] = a[7]
  <2>1. 1 \in 1 .. 7 /\ 2 \in 1 .. 7 /\ 7 \in 1 .. 7
    OBVIOUS
  <2>. QED
    BY <1>5, <2>1, Zenon
<1>7. (HasHeader(a \o b) <=> HasHeader(a)) /\ FrameLen(a \o b) = FrameLen(a)
  BY <1>6 DEF HasHeader, FrameLen
<1>8. ~OneFrame(a \o b)
  <2>. DEFINE n == FrameLen(a)
              k == Len(a)
              l == Len(b)
  <2>1. /\ n \in 7 .. 262 /\ k \in Nat /\ l \in Nat /\ k >= 7
        /\ HasHeader(a) => k >= n
        /\ Len(a \o b) = k + l /\ FrameLen(a \o b) = n
    BY <1>1, <1>2, <1>3, <1>7
  <2>. HIDE DEF n, k, l
  <2>. QED
    BY <1>7, <2>1 DEF OneFrame
<1>. QED
  BY <1>2, <1>7, <1>8

LEMMA TailOfConcat ==
  ASSUME NEW a \in Seq(Byte), NEW b \in Seq(Byte), a # <<>>
  PROVE  Tail(a \o b) = Tail(a) \o b
OBVIOUS

\* The first frame is the same and more bytes are behind it.
LEMMA FrameStays ==
  ASSUME NEW a \in Seq(Byte), NEW b \in Seq(Byte), ~OneFrame(a), HasHeader(a)
  PROVE  Frame(a \o b) = Frame(a) /\ Behind(a \o b) = Behind(a) \o b
<1>. DEFINE n == FrameLen(a)
            k == Len(a)
            l == Len(b)
            c == a \o b
<1>1. /\ n \in 7 .. 262 /\ k \in Nat /\ l \in Nat /\ k >= n
      /\ FrameLen(c) = n
  BY MoreThanOneFrame, HeaderStays, LenProperties
<1>2. /\ c \in Seq(Byte) /\ Len(c) = k + l
      /\ \A i \in 1 .. k + l : c[i] = IF i <= k THEN a[i] ELSE b[i - k]
  BY ConcatProperties
<1>3. /\ \A i \in 1 .. k : a[i] \in Byte
      /\ \A i \in 1 .. k + l : c[i] \in Byte
  <2>1. \A i \in 1 .. Len(c) : c[i] \in Byte
    <3>. HIDE DEF c
    <3>. QED BY <1>2, ElementOfSeq
  <2>. QED
    BY <1>2, <2>1, ElementOfSeq
<1>. HIDE DEF n, k, l, c
<1>4. Frame(c) = Frame(a)
  <2>1. /\ \A i \in 1 .. n : i \in 1 .. k /\ i \in 1 .. k + l /\ i <= k
        /\ n \in Int /\ 1 \in Int /\ 1 <= n /\ n - 1 + 1 = n
    BY <1>1
  <2>2. \A i \in 1 .. n : a[i] \in Byte /\ c[i] \in Byte /\ c[i] = a[i]
    BY <1>2, <1>3, <2>1
  <2>3. /\ SubSeq(a, 1, n) \in Seq(Byte) /\ Len(SubSeq(a, 1, n)) = n
        /\ \A i \in 1 .. n : SubSeq(a, 1, n)[i] = a[i]
    BY <2>1, <2>2, SubSeqProperties
  <2>4. /\ SubSeq(c, 1, n) \in Seq(Byte) /\ Len(SubSeq(c, 1, n)) = n
        /\ \A i \in 1 .. n : SubSeq(c, 1, n)[i] = c[i]
    BY <2>1, <2>2, SubSeqProperties
  <2>5. SubSeq(c, 1, n) = SubSeq(a, 1, n)
    BY <2>2, <2>3, <2>4, SeqEqual
  <2>. QED
    BY <1>1, <2>5 DEF Frame, n
<1>5. Behind(c) = Behind(a) \o b
  <2>. DEFINE s == SubSeq(a, n + 1, k)
              t == SubSeq(c, n + 1, k + l)
  <2>0. /\ \A i \in n + 1 .. k : i \in 1 .. k
        /\ \A i \in n + 1 .. k + l : i \in 1 .. k + l
    BY <1>1
  <2>1. \A i \in n + 1 .. k : a[i] \in Byte
    BY <1>3, <2>0
  <2>2. \A i \in n + 1 .. k + l : c[i] \in Byte
    BY <1>3, <2>0
  <2>3. /\ s \in Seq(Byte) /\ Len(s) = k - n
        /\ \A i \in 1 .. k - n : s[i] = a[n + i]
    <3>1. n + 1 \in Int /\ k \in Int /\ n <= k
      BY <1>1
    <3>2. /\ s \in Seq(Byte)
          /\ Len(s) = IF n + 1 <= k THEN k - (n + 1) + 1 ELSE 0
          /\ \A i \in 1 .. k - (n + 1) + 1 : s[i] = a[n + 1 + i - 1]
      BY <2>1, <3>1, SubSeqProperties
    <3>. HIDE DEF s
    <3>3. k - (n + 1) + 1 = k - n /\ \A i \in 1 .. k - n : n + 1 + i - 1 = n + i
      BY <1>1
    <3>4. (IF n + 1 <= k THEN k - n ELSE 0) = k - n
      BY <1>1
    <3>. QED
      BY <3>2, <3>3, <3>4
  <2>4. /\ t \in Seq(Byte) /\ Len(t) = (k + l) - n
        /\ \A i \in 1 .. (k + l) - n : t[i] = c[n + i]
    <3>. DEFINE m == k + l
    <3>1. m \in Nat /\ n + 1 \in Int /\ m \in Int /\ n <= m
      BY <1>1
    <3>2. \A i \in n + 1 .. m : c[i] \in Byte
      BY <2>2
    <3>3. t = SubSeq(c, n + 1, m)
      OBVIOUS
    <3>. HIDE DEF t, m
    <3>4. /\ t \in Seq(Byte)
          /\ Len(t) = IF n + 1 <= m THEN m - (n + 1) + 1 ELSE 0
          /\ \A i \in 1 .. m - (n + 1) + 1 : t[i] = c[n + 1 + i - 1]
      BY <3>1, <3>2, <3>3, SubSeqProperties
    <3>5. m - (n + 1) + 1 = m - n /\ \A i \in 1 .. m - n : n + 1 + i - 1 = n + i
      BY <1>1, <3>1
    <3>6. (IF n + 1 <= m THEN m - n ELSE 0) = m - n
      BY <1>1, <3>1
    <3>7. t \in Seq(Byte) /\ Len(t) = m - n /\ \A i \in 1 .. m - n : t[i] = c[n + i]
      BY <3>4, <3>5, <3>6
    <3>. QED
      BY <3>7, Zenon DEF m
  <2>. HIDE DEF s, t
  <2>5. /\ s \o b \in Seq(Byte) /\ Len(s \o b) = (k + l) - n
        /\ \A i \in 1 .. (k + l) - n : (s \o b)[i] = IF i <= k - n THEN s[i] ELSE b[i - (k - n)]
    <3>1. /\ s \o b \in Seq(Byte) /\ Len(s \o b) = Len(s) + Len(b)
          /\ \A i \in 1 .. Len(s) + Len(b) :
                (s \o b)[i] = IF i <= Len(s) THEN s[i] ELSE b[i - Len(s)]
      BY <2>3, ConcatProperties
    <3>2. Len(s) = k - n /\ Len(b) = l /\ (k - n) + l = (k + l) - n
      BY <1>1, <2>3 DEF l
    <3>. QED
      BY <3>1, <3>2
  <2>6. \A i \in 1 .. (k + l) - n : t[i] = (s \o b)[i]
    <3>. TAKE i \in 1 .. (k + l) - n
    <3>1. i \in Int /\ n + i \in 1 .. k + l
      BY <1>1
    <3>0. t[i] = c[n + i]
      BY <2>4, Zenon
    <3>2. CASE i <= k - n
      <4>1. n + i <= k /\ i \in 1 .. k - n
        BY <1>1, <3>1, <3>2
      <4>2. c[n + i] = a[n + i] /\ s[i] = a[n + i] /\ (s \o b)[i] = s[i]
        BY <1>2, <2>3, <2>5, <3>1, <3>2, <4>1
      <4>. QED
        BY <3>0, <4>2
    <3>3. CASE ~(i <= k - n)
      <4>1. ~(n + i <= k) /\ (n + i) - k = i - (k - n)
        BY <1>1, <3>1, <3>3
      <4>2. c[n + i] = b[(n + i) - k]
        BY <1>2, <3>1, <4>1, Zenon
      <4>3. (s \o b)[i] = b[i - (k - n)]
        BY <2>5, <3>3, Zenon
      <4>. QED
        BY <3>0, <4>1, <4>2, <4>3
    <3>. QED
      BY <3>2, <3>3
  <2>7. t = s \o b
    BY <2>4, <2>5, <2>6, SeqEqual
  <2>. QED
    BY <1>1, <1>2, <2>7 DEF Behind, n, k, s, t
<1>. QED
  BY <1>4, <1>5 DEF c

\* Reading a, then b after what a left, is reading both at once.
Joined(first, second) ==
    [packets |-> first.packets \o second.packets, rest |-> second.rest]

LEMMA DecodeConcat ==
  \A a, b \in Seq(Byte) :
     Decode[a \o b] = Joined(Decode[a], Decode[Decode[a].rest \o b])
<1>. SUFFICES ASSUME NEW b \in Seq(Byte)
     PROVE  \A a \in Seq(Byte) :
              Decode[a \o b] = Joined(Decode[a], Decode[Decode[a].rest \o b])
  OBVIOUS
<1>. DEFINE P == {a \in Seq(Byte) :
                   Decode[a \o b] = Joined(Decode[a], Decode[Decode[a].rest \o b])}
<1>0. \A a \in Seq(Byte) : /\ a \o b \in Seq(Byte) /\ Decode[a] \in Results
                           /\ Decode[a].packets \in Seq(Packets)
                           /\ Decode[a].rest \in Seq(Byte)
  <2>1. \A a \in Seq(Byte) : a \o b \in Seq(Byte) /\ Decode[a] \in Results
    BY ConcatProperties, DecodeIsLoop
  <2>. QED
    BY <2>1 DEF Results
<1>1. ASSUME NEW a \in Seq(Byte), OneFrame(a) PROVE a \in P
  <2>0. Decode[a] = [packets |-> <<>>, rest |-> a]
    BY <1>1, DecodeStops, Zenon
  <2>1. Decode[a].packets = <<>> /\ Decode[a].rest = a
    BY <2>0
  <2>2. <<>> \o Decode[a \o b].packets = Decode[a \o b].packets
    BY <1>0, ConcatEmptySeq
  <2>3. Decode[a \o b] = [packets |-> Decode[a \o b].packets, rest |-> Decode[a \o b].rest]
    BY <1>0 DEF Results
  <2>. QED
    BY <2>1, <2>2, <2>3 DEF Joined
<1>2. ASSUME NEW a \in Seq(Byte), ~OneFrame(a), ~HasHeader(a), Tail(a) \in P
      PROVE  a \in P
  <2>1. Decode[a] = Decode[Tail(a)]
    BY <1>2, DecodeSkips
  <2>2. Decode[a \o b] = Decode[Tail(a \o b)]
    BY <1>2, HeaderStays, DecodeSkips
  <2>3. a # <<>>
    BY <1>2, MoreThanOneFrame, EmptySeq
  <2>4. Tail(a \o b) = Tail(a) \o b
    BY <2>3, TailOfConcat
  <2>. QED
    BY <1>2, <2>1, <2>2, <2>4
<1>3. ASSUME NEW a \in Seq(Byte), ~OneFrame(a), HasHeader(a), Behind(a) \in P
      PROVE  a \in P
  <2>. DEFINE first == <<Packet(Frame(a))>>
              more == Decode[Behind(a)]
              then == Decode[more.rest \o b]
  <2>1. /\ Behind(a) \in Seq(Byte) /\ Packet(Frame(a)) \in Packets
        /\ Decode[a] = [packets |-> first \o more.packets, rest |-> more.rest]
    BY <1>3, DecodeTakes
  <2>2. /\ a \o b \in Seq(Byte) /\ ~OneFrame(a \o b) /\ HasHeader(a \o b)
        /\ Frame(a \o b) = Frame(a) /\ Behind(a \o b) = Behind(a) \o b
    BY <1>3, HeaderStays, FrameStays
  <2>3. Decode[a \o b] = [packets |-> first \o Decode[Behind(a) \o b].packets,
                          rest |-> Decode[Behind(a) \o b].rest]
    BY <2>2, DecodeTakes
  <2>4. Decode[Behind(a) \o b] = Joined(more, then)
    BY <1>3
  <2>5. /\ first \in Seq(Packets) /\ more.packets \in Seq(Packets)
        /\ then.packets \in Seq(Packets)
    <3>1. first \in Seq(Packets)
      BY <2>1
    <3>2. more.packets \in Seq(Packets) /\ more.rest \in Seq(Byte)
      BY <1>0, <2>1, Zenon
    <3>. HIDE DEF more, first
    <3>3. more.rest \o b \in Seq(Byte)
      BY <1>0, <3>2, Zenon
    <3>4. then.packets \in Seq(Packets)
      BY <1>0, <3>3, Zenon
    <3>. QED
      BY <3>1, <3>2, <3>4
  <2>. HIDE DEF first, more, then
  <2>6. (first \o more.packets) \o then.packets = first \o (more.packets \o then.packets)
    <3>. DEFINE p == more.packets
                q == then.packets
    <3>1. first \in Seq(Packets) /\ p \in Seq(Packets) /\ q \in Seq(Packets)
      BY <2>5
    <3>. HIDE DEF p, q
    <3>2. (first \o p) \o q = first \o (p \o q)
      BY <3>1, ConcatAssociative
    <3>. QED
      BY <3>2 DEF p, q
  <2>7. Decode[a].rest = more.rest /\ Decode[a].packets = first \o more.packets
    BY <2>1
  <2>8. Decode[a \o b] = [packets |-> first \o (more.packets \o then.packets),
                          rest |-> then.rest]
    BY <2>3, <2>4 DEF Joined
  <2>9. Decode[a \o b] = Joined(Decode[a], then)
    BY <2>6, <2>7, <2>8 DEF Joined
  <2>. QED
    BY <2>7, <2>9 DEF then
<1>4. \A a \in Seq(Byte) : a \in P
  <2>. HIDE DEF P
  <2>. QED BY <1>1, <1>2, <1>3, LoopInduction
<1>. QED
  BY <1>4

\* A frame of the board, alone in the buffer, is one packet and leaves nothing.
LEMMA DecodeSendMsg ==
  ASSUME NEW cmd \in Byte, NEW serial \in Nat, NEW data \in Seq(Byte), Len(data) <= 255
  PROVE  /\ SendMsg(cmd, serial, data) \in Seq(Byte)
         /\ Decode[SendMsg(cmd, serial, data)] =
               [packets |-> <<[cmd |-> cmd, data |-> data]>>, rest |-> <<>>]
<1>. DEFINE low == serial % 256
            high == (serial \div 256) % 256
            l == Len(data)
            h == <<234, 174, 1, cmd, low, high, l>>
            f == h \o data
<1>1. l \in Nat /\ l <= 255 /\ l % 256 = l
  BY LenProperties
<1>2. low \in Byte /\ high \in Byte /\ l \in Byte /\ {234, 174, 1} \subseteq Byte
  <2>1. \A n \in Nat : n % 256 \in 0 .. 255
    OBVIOUS
  <2>2. serial \div 256 \in Nat
    OBVIOUS
  <2>3. low \in 0 .. 255 /\ high \in 0 .. 255
    BY <2>1, <2>2
  <2>. HIDE DEF low, high, l
  <2>. QED
    BY <1>1, <2>3 DEF Byte
<1>3. SendMsg(cmd, serial, data) = f
  BY <1>1 DEF SendMsg
<1>. HIDE DEF low, high, l
<1>4. h \in Seq(Byte) /\ Len(h) = 7 /\ h[1] = 234 /\ h[2] = 174 /\ h[4] = cmd /\ h[7] = l
  BY <1>2
<1>. HIDE DEF h
<1>5. /\ f \in Seq(Byte) /\ Len(f) = 7 + l
      /\ \A i \in 1 .. 7 + l : f[i] = IF i <= 7 THEN h[i] ELSE data[i - 7]
  <2>1. Len(data) = l
    BY DEF l
  <2>2. /\ f \in Seq(Byte) /\ Len(f) = Len(h) + Len(data)
        /\ \A i \in 1 .. Len(h) + Len(data) :
              f[i] = IF i <= Len(h) THEN h[i] ELSE data[i - Len(h)]
    <3>1. h \in Seq(Byte)
      BY <1>4
    <3>. QED
      BY <3>1, ConcatProperties
  <2>3. Len(h) = 7
    BY <1>4
  <2>. HIDE DEF f
  <2>. QED
    BY <2>1, <2>2, <2>3, Zenon
<1>. HIDE DEF f
<1>6. f[1] = 234 /\ f[2] = 174 /\ f[4] = cmd /\ f[7] = l
  <2>1. \A i \in 1 .. 7 : i \in 1 .. 7 + l /\ i <= 7
    BY <1>1
  <2>2. \A i \in 1 .. 7 : f[i] = h[i]
    BY <1>5, <2>1
  <2>3. 1 \in 1 .. 7 /\ 2 \in 1 .. 7 /\ 4 \in 1 .. 7 /\ 7 \in 1 .. 7
    OBVIOUS
  <2>4. f[1] = h[1] /\ f[2] = h[2] /\ f[4] = h[4] /\ f[7] = h[7]
    BY <2>2, <2>3, Zenon
  <2>. QED
    BY <1>4, <2>4
<1>7. HasHeader(f) /\ FrameLen(f) = Len(f) /\ ~OneFrame(f)
  <2>1. FrameLen(f) = 7 + l
    BY <1>6 DEF FrameLen
  <2>2. ~(7 + l < 7)
    BY <1>1
  <2>. QED
    BY <1>5, <1>6, <2>1, <2>2 DEF HasHeader, OneFrame
<1>8. Behind(f) = <<>> /\ Frame(f) = f
  <2>1. Len(f) \in Int /\ Len(f) + 1 \in Int /\ Len(f) < Len(f) + 1
    BY <1>1, <1>5
  <2>2. SubSeq(f, Len(f) + 1, Len(f)) = <<>>
    BY <2>1, SubSeqEmpty
  <2>3. SubSeq(f, 1, Len(f)) = f
    BY <1>5, SubSeqFull
  <2>. QED
    BY <1>7, <2>2, <2>3 DEF Behind, Frame
<1>9. SubSeq(f, 8, Len(f)) = data
  <2>. DEFINE s == SubSeq(f, 8, 7 + l)
  <2>1. \A i \in 8 .. 7 + l : f[i] \in Byte
    <3>1. \A i \in 1 .. 7 + l : f[i] \in Byte
      BY <1>5, ElementOfSeq
    <3>2. \A i \in 8 .. 7 + l : i \in 1 .. 7 + l
      BY <1>1
    <3>. QED
      BY <3>1, <3>2
  <2>2. /\ s \in Seq(Byte) /\ Len(s) = l
        /\ \A i \in 1 .. l : s[i] = f[7 + i]
    <3>. DEFINE m == 7 + l
    <3>1. m \in Int /\ 8 \in Int
      BY <1>1
    <3>2. \A i \in 8 .. m : f[i] \in Byte
      BY <2>1
    <3>. HIDE DEF m
    <3>3. /\ SubSeq(f, 8, m) \in Seq(Byte)
          /\ Len(SubSeq(f, 8, m)) = IF 8 <= m THEN (m - 8) + 1 ELSE 0
          /\ \A i \in 1 .. (m - 8) + 1 : SubSeq(f, 8, m)[i] = f[(8 + i) - 1]
      BY <3>1, <3>2, SubSeqProperties
    <3>4. (m - 8) + 1 = l /\ (IF 8 <= m THEN (m - 8) + 1 ELSE 0) = l
      BY <1>1 DEF m
    <3>5. \A i \in 1 .. l : (8 + i) - 1 = 7 + i
      OBVIOUS
    <3>6. s = SubSeq(f, 8, m)
      BY DEF m
    <3>. HIDE DEF s
    <3>. QED
      BY <3>3, <3>4, <3>5, <3>6
  <2>3. \A i \in 1 .. l : f[7 + i] = data[i]
    <3>. TAKE i \in 1 .. l
    <3>1. 7 + i \in 1 .. 7 + l /\ ~(7 + i <= 7) /\ (7 + i) - 7 = i
      BY <1>1
    <3>2. f[7 + i] = data[(7 + i) - 7]
      BY <1>5, <3>1, Zenon
    <3>. QED
      BY <3>1, <3>2
  <2>. HIDE DEF s
  <2>4. s = data
    BY <2>2, <2>3, SeqEqual DEF l
  <2>. QED
    BY <1>5, <2>4 DEF s
<1>10. Packet(f) = [cmd |-> cmd, data |-> data]
  BY <1>6, <1>9 DEF Packet
<1>11. Decode[<<>>] = [packets |-> <<>>, rest |-> <<>>]
  <2>1. <<>> \in Seq(Byte) /\ OneFrame(<<>>)
    BY EmptySeq DEF OneFrame
  <2>. QED
    BY <2>1, DecodeStops, Zenon
<1>12. Decode[f] = [packets |-> <<Packet(f)>> \o <<>>, rest |-> <<>>]
  <2>1. Decode[f] = [packets |-> <<Packet(f)>> \o Decode[<<>>].packets, rest |-> Decode[<<>>].rest]
    <3>1. Decode[f] = [packets |-> <<Packet(Frame(f))>> \o Decode[Behind(f)].packets,
                      rest |-> Decode[Behind(f)].rest]
      BY <1>5, <1>7, DecodeTakes, Zenon
    <3>. QED
      BY <1>8, <3>1
  <2>2. Decode[<<>>].packets = <<>> /\ Decode[<<>>].rest = <<>>
    BY <1>11
  <2>. QED
    BY <2>1, <2>2
<1>13. <<Packet(f)>> \o <<>> = <<Packet(f)>>
  OBVIOUS
<1>. QED
  BY <1>3, <1>5, <1>10, <1>12, <1>13

-----------------------------------------------------------------------------
(* The receiver.                                                           *)

TypeInv ==
    /\ stream \in Seq(Byte) /\ seen \in Seq(Byte) /\ recvBuffer \in Seq(Byte)

ReceiverInv == TypeInv /\ CutsDoNotMatter

LEMMA ReceiverInit == Init => ReceiverInv
<1>1. <<>> \in Seq(Byte) /\ OneFrame(<<>>)
  BY EmptySeq DEF OneFrame
<1>2. Decode[<<>>] = [packets |-> <<>>, rest |-> <<>>]
  BY <1>1, DecodeStops
<1>. QED
  BY <1>1, <1>2 DEF Init, ReceiverInv, TypeInv, CutsDoNotMatter

\* A signal with any bytes to read keeps the invariant, as a send does.
LEMMA ReceiverStep == ReceiverInv /\ [Next]_vars => ReceiverInv'
<1>. SUFFICES ASSUME ReceiverInv, [Next]_vars PROVE ReceiverInv'
  OBVIOUS
<1>. USE DEF ReceiverInv, TypeInv, CutsDoNotMatter
<1>1. ASSUME NEW piece \in Pieces, Send(piece) PROVE ReceiverInv'
  <2>1. piece \in Seq(Byte)
    BY PiecesAssumption
  <2>. QED
    BY <1>1, <2>1, ConcatProperties DEF Send
<1>2. ASSUME NEW n \in 1 .. Len(stream), OnReadyRead(n) PROVE ReceiverInv'
  <2>. DEFINE chunk == SubSeq(stream, 1, n)
  <2>1. chunk \in Seq(Byte) /\ SubSeq(stream, n + 1, Len(stream)) \in Seq(Byte)
    <3>1. Len(stream) \in Nat /\ \A k \in 1 .. Len(stream) : stream[k] \in Byte
      BY LenProperties, ElementOfSeq
    <3>2. n \in Int /\ 1 \in Int /\ n + 1 \in Int /\ Len(stream) \in Int
      BY <3>1
    <3>3. \A k \in 1 .. n : stream[k] \in Byte
      BY <3>1
    <3>4. \A k \in n + 1 .. Len(stream) : stream[k] \in Byte
      BY <3>1
    <3>. QED
      BY <3>2, <3>3, <3>4, SubSeqProperties
  <2>. HIDE DEF chunk
  <2>2. /\ seen' = seen \o chunk
        /\ handled' = handled \o Decode[recvBuffer \o chunk].packets
        /\ recvBuffer' = Decode[recvBuffer \o chunk].rest
        /\ stream' = SubSeq(stream, n + 1, Len(stream))
    BY <1>2 DEF OnReadyRead, chunk
  <2>3. Decode[seen \o chunk] = Joined(Decode[seen], Decode[recvBuffer \o chunk])
    BY <2>1, DecodeConcat
  <2>. DEFINE found == Decode[recvBuffer \o chunk]
  <2>4. CutsDoNotMatter'
    <3>1. Decode[seen'] = Joined(Decode[seen], found)
      BY <2>2, <2>3
    <3>2. Decode[seen'].packets = Decode[seen].packets \o found.packets /\ Decode[seen'].rest = found.rest
      <4>. DEFINE all == Decode[seen']
                  old == Decode[seen]
      <4>1. all = [packets |-> old.packets \o found.packets, rest |-> found.rest]
        BY <3>1, Zenon DEF Joined
      <4>. HIDE DEF all, old, found
      <4>2. all.packets = old.packets \o found.packets /\ all.rest = found.rest
        BY <4>1
      <4>. QED BY <4>2 DEF all, old
    <3>3. handled' = Decode[seen].packets \o found.packets /\ recvBuffer' = found.rest
      BY <2>2
    <3>. QED
      BY <3>2, <3>3
  <2>5. /\ seen \o chunk \in Seq(Byte) /\ recvBuffer \o chunk \in Seq(Byte)
    BY <2>1, ConcatProperties
  <2>6. Decode[recvBuffer \o chunk].rest \in Seq(Byte)
    BY <2>5, DecodeIsLoop DEF Results
  <2>. QED
    BY <2>1, <2>2, <2>4, <2>5, <2>6
<1>3. CASE UNCHANGED vars
  BY <1>3 DEF vars
<1>. QED
  BY <1>1, <1>2, <1>3 DEF Next

\* How TCP cuts the stream does not matter (jf_plate.cpp 187-205): for any bytes
\* and any cuts the packets handled and the bytes kept are those of the whole.
THEOREM CutsAreHarmless == Spec => []CutsDoNotMatter
<1>1. ReceiverInv => CutsDoNotMatter
  BY DEF ReceiverInv
<1>. QED
  BY <1>1, ReceiverInit, ReceiverStep, PTL DEF Spec

\* Between two signals the buffer is the beginning of one frame and no more, so
\* it never holds more than 261 bytes, whatever the board sends.
THEOREM BufferStaysSmall == Spec => []BufferIsOneFrame
<1>1. ReceiverInv => BufferIsOneFrame
  BY RestIsOneFrame DEF ReceiverInv, TypeInv, CutsDoNotMatter, BufferIsOneFrame, OneFrame
<1>. QED
  BY <1>1, ReceiverInit, ReceiverStep, PTL DEF Spec

=============================================================================
