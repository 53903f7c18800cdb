--------------------------- MODULE JFPlateProofs ----------------------------
(***************************************************************************)
(* Theorems about the client of a JF plate, for any random code, any cuts  *)
(* of the stream, any number of connections and outputs.                   *)
(*                                                                         *)
(* The receive loop is in JFReceiverProofs: what Decode makes of one       *)
(* sequence after another, and of a frame.  The instance brings these      *)
(* lemmas here.  They are about JFFrame only, so what is put in the place  *)
(* of the constants and variables of JFReceiver does not matter.           *)
(***************************************************************************)
EXTENDS JFPlate, DataInduction, SequenceTheorems, FiniteSetTheorems

Receiver == INSTANCE JFReceiverProofs WITH
    Pieces <- {}, MaxPieces <- 0,
    pieces <- 0, stream <- <<>>, seen <- <<>>, handled <- <<>>

Packets == [cmd : Byte, data : Seq(Byte)]

-----------------------------------------------------------------------------
(* The receive loop.                                                       *)

LEMMA SameDecode == Receiver!Byte = Byte /\ Receiver!Decode = Decode
<1>1. Receiver!Byte = Byte
  BY DEF Byte, Receiver!Byte
<1>2. Receiver!Decode = Decode
  BY Zenon DEF Decode, Receiver!Decode, Byte, Receiver!Byte, HasHeader, Receiver!HasHeader,
               FrameLen, Receiver!FrameLen, Packet, Receiver!Packet
<1>. QED
  BY <1>1, <1>2

LEMMA DecodeTypes ==
  \A buf \in Seq(Byte) :
     /\ Decode[buf].packets \in Seq(Packets)
     /\ Decode[buf].rest \in Seq(Byte)
<1>1. Decode \in [Seq(Byte) -> [packets : Seq(Packets), rest : Seq(Byte)]]
  BY SameDecode, Receiver!DecodeIsLoop DEF Receiver!Results, Receiver!Packets, Packets
<1>. HIDE DEF Decode
<1>. QED
  BY <1>1

\* Bytes that come later are decoded after what the first ones left.
LEMMA DecodeLater ==
  ASSUME NEW a \in Seq(Byte), NEW b \in Seq(Byte)
  PROVE  /\ Decode[a \o b].packets =
              Decode[a].packets \o Decode[Decode[a].rest \o b].packets
         /\ Decode[a \o b].rest = Decode[Decode[a].rest \o b].rest
<1>. DEFINE first == Decode[a]
            then == Decode[Decode[a].rest \o b]
            all == Decode[a \o b]
<1>1. all = [packets |-> first.packets \o then.packets, rest |-> then.rest]
  BY SameDecode, Receiver!DecodeConcat DEF Receiver!Joined
<1>. HIDE DEF first, then, all
<1>2. all.packets = first.packets \o then.packets /\ all.rest = then.rest
  BY <1>1
<1>. QED
  BY <1>2 DEF first, then, all

\* A message of the board is one packet.
LEMMA DecodeMessage ==
  ASSUME NEW cmd \in Byte, NEW data \in Seq(Byte), Len(data) <= 255
  PROVE  /\ SendMsg(cmd, 0, data) \in Seq(Byte)
         /\ Decode[SendMsg(cmd, 0, data)].packets = <<[cmd |-> cmd, data |-> data]>>
         /\ Decode[SendMsg(cmd, 0, data)].rest = <<>>
<1>1. Receiver!SendMsg(cmd, 0, data) = SendMsg(cmd, 0, data)
  BY DEF SendMsg, Receiver!SendMsg
<1>. DEFINE msg == SendMsg(cmd, 0, data)
<1>2. /\ msg \in Seq(Byte)
      /\ Decode[msg] = [packets |-> <<[cmd |-> cmd, data |-> data]>>, rest |-> <<>>]
  BY <1>1, SameDecode, Receiver!DecodeSendMsg
<1>. HIDE DEF msg
<1>3. /\ Decode[msg].packets = <<[cmd |-> cmd, data |-> data]>>
      /\ Decode[msg].rest = <<>>
  BY <1>2
<1>. QED
  BY <1>2, <1>3 DEF msg

-----------------------------------------------------------------------------
(* Sequences.                                                              *)

\* No element of s is in M; exactly one is.
NoneOf(s, M) == \A k \in DOMAIN s : s[k] \notin M
OneOf(s, M) ==
    \E i \in DOMAIN s : s[i] \in M /\ \A k \in DOMAIN s : s[k] \in M => k = i

LEMMA OfEmpty == ASSUME NEW M PROVE NoneOf(<<>>, M) /\ ~OneOf(<<>>, M)
BY DEF NoneOf, OneOf

LEMMA OfSingleton ==
  ASSUME NEW M, NEW x
  PROVE  (NoneOf(<<x>>, M) <=> x \notin M) /\ (OneOf(<<x>>, M) <=> x \in M)
<1>1. DOMAIN <<x>> = {1} /\ <<x>>[1] = x
  OBVIOUS
<1>. QED
  BY <1>1 DEF NoneOf, OneOf

LEMMA NotBoth ==
  ASSUME NEW s, NEW M PROVE ~(NoneOf(s, M) /\ OneOf(s, M))
BY DEF NoneOf, OneOf

\* In a concatenation they are counted together.
LEMMA OfConcat ==
  ASSUME NEW S, NEW s \in Seq(S), NEW t \in Seq(S), NEW M
  PROVE  /\ NoneOf(s \o t, M) <=> NoneOf(s, M) /\ NoneOf(t, M)
         /\ OneOf(s \o t, M) <=> \/ OneOf(s, M) /\ NoneOf(t, M)
                                 \/ NoneOf(s, M) /\ OneOf(t, M)
<1>. DEFINE m == Len(s)
            n == Len(t)
            u == s \o t
<1>1. m \in Nat /\ n \in Nat /\ DOMAIN s = 1 .. m /\ DOMAIN t = 1 .. n
  BY LenProperties
<1>2. /\ u \in Seq(S) /\ Len(u) = m + n
      /\ \A k \in 1 .. m + n : u[k] = IF k <= m THEN s[k] ELSE t[k - m]
  BY ConcatProperties
<1>3. DOMAIN u = 1 .. m + n
  BY <1>2, LenProperties
<1>. HIDE DEF m, n, u
<1>4. \A k \in 1 .. m : k \in 1 .. m + n /\ u[k] = s[k]
  BY <1>1, <1>2
<1>5. \A k \in 1 .. n : m + k \in 1 .. m + n /\ u[m + k] = t[k]
  <2>. TAKE k \in 1 .. n
  <2>1. m + k \in 1 .. m + n /\ ~(m + k <= m) /\ (m + k) - m = k
    BY <1>1
  <2>2. u[m + k] = t[(m + k) - m]
    BY <1>2, <2>1, Zenon
  <2>. QED
    BY <2>1, <2>2
<1>6. \A k \in 1 .. m + n : k \in 1 .. m \/ \E j \in 1 .. n : k = m + j
  <2>. TAKE k \in 1 .. m + n
  <2>. SUFFICES ASSUME k \notin 1 .. m PROVE \E j \in 1 .. n : k = m + j
    OBVIOUS
  <2>1. k - m \in 1 .. n /\ k = m + (k - m)
    BY <1>1
  <2>. QED
    BY <2>1
<1>7. NoneOf(u, M) <=> NoneOf(s, M) /\ NoneOf(t, M)
  <2>1. NoneOf(u, M) => NoneOf(s, M) /\ NoneOf(t, M)
    BY <1>1, <1>3, <1>4, <1>5, Zenon DEF NoneOf
  <2>2. NoneOf(s, M) /\ NoneOf(t, M) => NoneOf(u, M)
    <3>. SUFFICES ASSUME NoneOf(s, M), NoneOf(t, M), NEW k \in 1 .. m + n
         PROVE  u[k] \notin M
      BY <1>3 DEF NoneOf
    <3>1. CASE k \in 1 .. m
      BY <1>1, <1>4, <3>1 DEF NoneOf
    <3>2. ASSUME NEW j \in 1 .. n, k = m + j PROVE u[k] \notin M
      BY <1>1, <1>5, <3>2 DEF NoneOf
    <3>. QED
      BY <1>6, <3>1, <3>2
  <2>. QED
    BY <2>1, <2>2
<1>8. ASSUME OneOf(s, M), NoneOf(t, M) PROVE OneOf(u, M)
  <2>1. PICK i \in 1 .. m : s[i] \in M /\ \A k \in 1 .. m : s[k] \in M => k = i
    BY <1>1, <1>8 DEF OneOf
  <2>2. ASSUME NEW k \in 1 .. m + n, u[k] \in M PROVE k = i
    BY <1>1, <1>4, <1>5, <1>6, <1>8, <2>1, <2>2, Zenon DEF NoneOf
  <2>. QED
    BY <1>3, <1>4, <2>1, <2>2 DEF OneOf
<1>9. ASSUME NoneOf(s, M), OneOf(t, M) PROVE OneOf(u, M)
  <2>1. PICK i \in 1 .. n : t[i] \in M /\ \A k \in 1 .. n : t[k] \in M => k = i
    BY <1>1, <1>9 DEF OneOf
  <2>2. ASSUME NEW k \in 1 .. m + n, u[k] \in M PROVE k = m + i
    BY <1>1, <1>4, <1>5, <1>6, <1>9, <2>1, <2>2, Zenon DEF NoneOf
  <2>3. m + i \in DOMAIN u /\ u[m + i] \in M
    BY <1>3, <1>5, <2>1
  <2>. QED
    BY <1>3, <2>2, <2>3 DEF OneOf
<1>10. ASSUME OneOf(u, M)
       PROVE  \/ OneOf(s, M) /\ NoneOf(t, M)
              \/ NoneOf(s, M) /\ OneOf(t, M)
  <2>1. PICK i \in 1 .. m + n :
          u[i] \in M /\ \A k \in 1 .. m + n : u[k] \in M => k = i
    BY <1>3, <1>10 DEF OneOf
  <2>2. CASE i \in 1 .. m
    <3>1. OneOf(s, M)
      BY <1>1, <1>4, <2>1, <2>2, Zenon DEF OneOf
    <3>2. ASSUME NEW j \in 1 .. n, t[j] \in M PROVE FALSE
      <4>1. m + j = i
        BY <1>5, <2>1, <3>2
      <4>. QED
        BY <1>1, <2>2, <4>1
    <3>. QED
      BY <1>1, <3>1, <3>2 DEF NoneOf
  <2>3. ASSUME NEW j \in 1 .. n, i = m + j
        PROVE  NoneOf(s, M) /\ OneOf(t, M)
    <3>1. t[j] \in M
      BY <1>5, <2>1, <2>3
    <3>2. ASSUME NEW k \in 1 .. n, t[k] \in M PROVE k = j
      <4>1. m + k = m + j
        BY <1>5, <2>1, <2>3, <3>2
      <4>. QED
        BY <1>1, <4>1
    <3>3. ASSUME NEW k \in 1 .. m, s[k] \in M PROVE FALSE
      <4>1. k = m + j
        BY <1>4, <2>1, <2>3, <3>3
      <4>. QED
        BY <1>1, <4>1
    <3>. QED
      BY <1>1, <3>1, <3>2, <3>3 DEF NoneOf, OneOf
  <2>. QED
    BY <1>6, <2>1, <2>2, <2>3
<1>. QED
  BY <1>7, <1>8, <1>9, <1>10 DEF u

\* The sequences in a sequence, one after the other, have its elements.
LEMMA FlattenType ==
  ASSUME NEW S, NEW seqs \in Seq(Seq(S))
  PROVE  FlattenSeq(seqs) \in Seq(S)
<1>. DEFINE n == Len(seqs)
<1>1. n \in Nat /\ \A i \in 1 .. n : seqs[i] \in Seq(S)
  BY LenProperties, ElementOfSeq
<1>2. CASE n = 0
  <2>1. seqs = <<>>
    BY <1>2, EmptySeq
  <2>2. FlattenSeq(seqs) = seqs
    BY <1>2 DEF FlattenSeq
  <2>. QED
    BY <2>1, <2>2, EmptySeq
<1>3. CASE n # 0
  <2>. DEFINE Value(f, i) == IF i = 1 THEN seqs[i] ELSE f[i - 1] \o seqs[i]
              R == [D |-> 1 .. n,
                    size |-> [i \in 1 .. n |-> i],
                    Stop |-> {1},
                    base |-> [i \in 1 .. n |-> seqs[i]],
                    step |-> [i \in 1 .. n |-> [s \in Seq(S) |-> s \o seqs[i]]],
                    next |-> [i \in 1 .. n |-> i - 1]]
              flatten == CHOOSE f : f = [i \in 1 .. n |-> Value(f, i)]
  <2>1. Decreases(R)
    <3>1. R.size \in [R.D -> Nat]
      OBVIOUS
    <3>2. \A d \in R.D \ R.Stop : R.next[d] \in R.D /\ R.size[R.next[d]] < R.size[d]
      <4>1. \A d \in 1 .. n : d # 1 => d - 1 \in 1 .. n /\ d - 1 < d
        BY <1>1
      <4>. QED
        BY <4>1
    <3>. HIDE DEF R
    <3>. QED
      BY <3>1, <3>2 DEF Decreases
  <2>2. \A d \in R.D \cap R.Stop : R.base[d] \in Seq(S)
    BY <1>1
  <2>3. \A d \in R.D \ R.Stop : R.step[d] \in [Seq(S) -> Seq(S)]
    <3>1. \A i \in 1 .. n : \A s \in Seq(S) : s \o seqs[i] \in Seq(S)
      BY <1>1, ConcatProperties
    <3>. HIDE DEF n
    <3>. QED
      BY <3>1
  <2>4. PICK f \in [R.D -> Seq(S)] : \A d \in R.D : SolvesAt(R, f, d)
    <3>. HIDE DEF R
    <3>. QED BY <2>1, <2>2, <2>3, RecursionBySize
  <2>5. ASSUME NEW i \in 1 .. n PROVE f[i] = Value(f, i)
    <3>1. f[i] = IF i = 1 THEN seqs[i] ELSE R.step[i][f[i - 1]]
      <4>1. SolvesAt(R, f, i)
        BY <2>4
      <4>. QED
        BY <4>1 DEF SolvesAt
    <3>2. ASSUME i # 1 PROVE R.step[i][f[i - 1]] = f[i - 1] \o seqs[i]
      <4>1. i - 1 \in 1 .. n
        BY <1>1, <3>2
      <4>2. f[i - 1] \in Seq(S)
        BY <2>4, <4>1
      <4>. QED
        BY <4>2
    <3>. QED
      BY <3>1, <3>2
  <2>6. f = [i \in 1 .. n |-> Value(f, i)]
    BY <2>4, <2>5
  <2>7. flatten = [i \in 1 .. n |-> Value(flatten, i)]
    <3>1. \E g : g = [i \in 1 .. n |-> Value(g, i)]
      BY <2>6
    <3>. HIDE DEF Value
    <3>. QED
      BY <3>1, Zenon
  <2>8. FlattenSeq(seqs) = flatten[n]
    BY <1>3, Zenon DEF FlattenSeq
  <2>. HIDE DEF flatten
  <2>9. ASSUME NEW i \in Nat, i \in 1 .. n => flatten[i] \in Seq(S), i + 1 \in 1 .. n
        PROVE  flatten[i + 1] \in Seq(S)
    <3>1. flatten[i + 1] = Value(flatten, i + 1)
      BY <2>7, <2>9
    <3>2. CASE i + 1 = 1
      BY <1>1, <2>9, <3>1, <3>2
    <3>3. CASE i + 1 # 1
      <4>1. i \in 1 .. n /\ (i + 1) - 1 = i
        BY <1>1, <2>9, <3>3
      <4>2. flatten[i + 1] = flatten[i] \o seqs[i + 1]
        BY <3>1, <3>3, <4>1
      <4>3. flatten[i] \in Seq(S) /\ seqs[i + 1] \in Seq(S)
        BY <1>1, <2>9, <4>1
      <4>. QED
        BY <4>2, <4>3, ConcatProperties
    <3>. QED
      BY <3>2, <3>3
  <2>10. \A i \in Nat : i \in 1 .. n => flatten[i] \in Seq(S)
    <3>. DEFINE P == {i \in Nat : i \in 1 .. n => flatten[i] \in Seq(S)}
    <3>1. 0 \in P
      OBVIOUS
    <3>2. \A i \in Nat : i \in P => i + 1 \in P
      BY <2>9
    <3>3. \A i \in Nat : i \in P
      <4>. HIDE DEF P
      <4>. QED BY <3>1, <3>2, SetInduction, Zenon
    <3>. QED
      BY <3>3
  <2>11. n \in Nat /\ n \in 1 .. n
    BY <1>1, <1>3
  <2>. QED
    BY <2>8, <2>10, <2>11
<1>. QED
  BY <1>2, <1>3

-----------------------------------------------------------------------------
(* Types.                                                                  *)

\* What is ever written to a board.
ReplyCommands == {Command(SetVerifyPassword), Command(SetGetDI), Command(SetGetDO)}
Commands ==
    ReplyCommands \cup [cmd : {SetCmd["DO"], SetCmd["Com"]}, right : BOOLEAN]

TypeInv ==
    /\ TypeOK
    /\ toPlate \in Seq(Commands)

LEMMA CommandNumbers ==
  /\ SetCmd["DO"] = 33 /\ SetCmd["Com"] = 40
  /\ AckCmd["DO"] = 145 /\ AckCmd["Com"] = 152
  /\ \A ch \in Channels : SetCmd[ch] \in {33, 40} /\ AckCmd[ch] \in {145, 152}
BY DEF SetCmd, AckCmd, Channels

LEMMA CommandBytes == \A c \in Commands : c.cmd \in Byte
<1>. TAKE c \in Commands
<1>1. c.cmd \in {1, 16, 17, 33, 40}
  BY CommandNumbers DEF Commands, ReplyCommands, Command, SetVerifyPassword, SetGetDI, SetGetDO
<1>2. \A n \in {1, 16, 17, 33, 40} : n \in Byte
  BY DEF Byte
<1>. QED
  BY <1>1, <1>2

LEMMA SomeBytes ==
  /\ {0, 1, 3, 16, 17, 33, 40, 128, 129, 145, 152, 174, 234} \subseteq Byte
BY DEF Byte

\* The board's answer to a command that it understands is one frame.
AnswerCmd(cmd) ==
    CASE cmd = SetVerifyPassword -> GetVerifyReply
      [] cmd = SetGetDI -> GetDI
      [] cmd = SetGetDO -> GetDO
      [] cmd = SetCmd["DO"] -> AckCmd["DO"]
      [] cmd = SetCmd["Com"] -> AckCmd["Com"]

LEMMA AnswerDecoded ==
  ASSUME NEW c \in Commands
  PROVE  /\ AnswerTo(c.cmd) \in Seq(Byte)
         /\ Decode[AnswerTo(c.cmd)].rest = <<>>
         /\ \E data \in Seq(Byte) :
              Decode[AnswerTo(c.cmd)].packets = <<[cmd |-> AnswerCmd(c.cmd), data |-> data]>>
<1>1. c.cmd \in {1, 16, 17, 33, 40}
  BY CommandNumbers DEF Commands, ReplyCommands, Command, SetVerifyPassword, SetGetDI, SetGetDO
<1>2. \E cmd \in Byte : \E data \in Seq(Byte) :
        /\ Len(data) <= 255
        /\ cmd = AnswerCmd(c.cmd)
        /\ AnswerTo(c.cmd) = SendMsg(cmd, 0, data)
  <2>. USE CommandNumbers DEF AnswerTo, AnswerCmd, SetVerifyPassword, SetGetDI, SetGetDO,
                               GetVerifyReply, GetDI, GetDO
  <2>0. <<>> \in Seq(Byte) /\ Len(<<>>) <= 255
    BY EmptySeq
  <2>1. \A b \in Byte : <<b>> \in Seq(Byte) /\ Len(<<b>>) <= 255
    OBVIOUS
  <2>2. CASE c.cmd = 1
    <3>1. AnswerCmd(c.cmd) = 3 /\ AnswerTo(c.cmd) = SendMsg(3, 0, <<>>) /\ 3 \in Byte
      BY <2>2, SomeBytes
    <3>. QED
      BY <2>0, <3>1, Zenon
  <2>3. CASE c.cmd = 16
    <3>1. AnswerCmd(c.cmd) = 128 /\ AnswerTo(c.cmd) = SendMsg(128, 0, <<234>>)
          /\ 128 \in Byte /\ 234 \in Byte
      BY <2>3, SomeBytes
    <3>. QED
      BY <2>1, <3>1, Zenon
  <2>4. CASE c.cmd = 17
    <3>1. AnswerCmd(c.cmd) = 129 /\ AnswerTo(c.cmd) = SendMsg(129, 0, <<174>>)
          /\ 129 \in Byte /\ 174 \in Byte
      BY <2>4, SomeBytes
    <3>. QED
      BY <2>1, <3>1, Zenon
  <2>5. CASE c.cmd = 33
    <3>1. AnswerCmd(c.cmd) = 145 /\ AnswerTo(c.cmd) = SendMsg(145, 0, <<>>) /\ 145 \in Byte
      BY <2>5, SomeBytes
    <3>. QED
      BY <2>0, <3>1, Zenon
  <2>6. CASE c.cmd = 40
    <3>1. AnswerCmd(c.cmd) = 152 /\ AnswerTo(c.cmd) = SendMsg(152, 0, <<>>) /\ 152 \in Byte
      BY <2>6, SomeBytes
    <3>. QED
      BY <2>0, <3>1, Zenon
  <2>. QED
    BY <1>1, <2>2, <2>3, <2>4, <2>5, <2>6
<1>. QED
  BY <1>2, DecodeMessage

\* It answers the command of a channel with the acknowledgement of this channel,
\* and no other command with it.
LEMMA AnswerByte == \A c \in Commands : AnswerCmd(c.cmd) \in Byte
<1>. TAKE c \in Commands
<1>1. c.cmd \in {1, 16, 17, 33, 40}
  BY CommandNumbers DEF Commands, ReplyCommands, Command, SetVerifyPassword, SetGetDI, SetGetDO
<1>2. AnswerCmd(c.cmd) \in {3, 128, 129, 145, 152}
  BY <1>1, CommandNumbers DEF AnswerCmd, SetVerifyPassword, SetGetDI, SetGetDO,
                              GetVerifyReply, GetDI, GetDO
<1>3. \A n \in {3, 128, 129, 145, 152} : n \in Byte
  BY DEF Byte
<1>. QED
  BY <1>2, <1>3

LEMMA AnswerIsAck ==
  \A c \in Commands : \A ch \in Channels :
     c.right => (AnswerCmd(c.cmd) = AckCmd[ch] <=> c = Command(SetCmd[ch]))
<1>. TAKE c \in Commands
<1>. TAKE ch \in Channels
<1>. SUFFICES ASSUME c.right PROVE AnswerCmd(c.cmd) = AckCmd[ch] <=> c = Command(SetCmd[ch])
  OBVIOUS
<1>1. c.cmd \in {1, 16, 17, 33, 40} /\ c = [cmd |-> c.cmd, right |-> c.right]
  BY CommandNumbers DEF Commands, ReplyCommands, Command, SetVerifyPassword, SetGetDI, SetGetDO
<1>2. c = Command(SetCmd[ch]) <=> c.cmd = SetCmd[ch]
  <2>1. c.right = TRUE
    BY CommandNumbers DEF Commands, ReplyCommands, Command
  <2>. QED
    BY <1>1, <2>1 DEF Command
<1>3. AnswerCmd(c.cmd) = AckCmd[ch] <=> c.cmd = SetCmd[ch]
  <2>1. CASE ch = "DO"
    BY <1>1, <2>1, CommandNumbers DEF AnswerCmd, SetVerifyPassword, SetGetDI, SetGetDO,
                                      GetVerifyReply, GetDI, GetDO
  <2>2. CASE ch = "Com"
    BY <1>1, <2>2, CommandNumbers DEF AnswerCmd, SetVerifyPassword, SetGetDI, SetGetDO,
                                      GetVerifyReply, GetDI, GetDO
  <2>. QED
    BY <2>1, <2>2 DEF Channels
<1>. QED
  BY <1>2, <1>3

\* A reply is one of the three commands of the login.
LEMMA RepliesType ==
  ASSUME NEW packets \in Seq(Packets)
  PROVE  FlattenSeq([k \in DOMAIN packets |-> Replies(packets[k])]) \in Seq(ReplyCommands)
<1>. DEFINE seqs == [k \in DOMAIN packets |-> Replies(packets[k])]
<1>1. \A packet : Replies(packet) \in Seq(ReplyCommands)
  <2>1. /\ <<>> \in Seq(ReplyCommands)
        /\ <<Command(SetVerifyPassword)>> \in Seq(ReplyCommands)
        /\ <<Command(SetGetDI), Command(SetGetDO)>> \in Seq(ReplyCommands)
    BY DEF ReplyCommands
  <2>. QED
    BY <2>1 DEF Replies
<1>2. DOMAIN packets = 1 .. Len(packets) /\ Len(packets) \in Nat
  BY LenProperties
<1>3. seqs \in [1 .. Len(packets) -> Seq(ReplyCommands)]
  BY <1>1, <1>2
<1>4. seqs \in Seq(Seq(ReplyCommands))
  <2>. HIDE DEF seqs
  <2>. QED BY <1>2, <1>3, SeqDef
<1>. HIDE DEF seqs
<1>5. FlattenSeq(seqs) \in Seq(ReplyCommands)
  BY <1>4, FlattenType
<1>. QED
  BY <1>5 DEF seqs

LEMMA TypeInit == Init => TypeInv
<1>1. <<>> \in Seq(Byte) /\ <<>> \in Seq(Commands) /\ DOMAIN <<>> = {}
  OBVIOUS
<1>2. SerialLimit \in Nat /\ FirstSerial \in 1 .. SerialLimit - 1 /\ MaxPairs \in Nat /\ MaxConnects \in Nat
  BY PlateAssumption
<1>. SUFFICES ASSUME Init PROVE TypeInv
  OBVIOUS
<1>3. /\ canSend \in [Channels -> BOOLEAN] /\ queued \in [Channels -> 0 .. MaxPairs]
      /\ deaf \subseteq Channels /\ connects \in 0 .. MaxConnects
      /\ initialized \in BOOLEAN /\ clean \in BOOLEAN /\ link \in Links
      /\ msgSerial \in 1 .. SerialLimit - 1
  <2>1. 0 \in 0 .. MaxPairs /\ 0 \in 0 .. MaxConnects
    BY <1>2
  <2>2. canSend \in [Channels -> BOOLEAN] /\ deaf \subseteq Channels
    BY DEF Init
  <2>3. queued = [ch \in Channels |-> 0]
    BY DEF Init
  <2>4. queued \in [Channels -> 0 .. MaxPairs]
    BY <2>1, <2>3
  <2>5. connects \in 0 .. MaxConnects /\ msgSerial \in 1 .. SerialLimit - 1
    BY <1>2, <2>1 DEF Init
  <2>6. initialized \in BOOLEAN /\ clean \in BOOLEAN /\ link \in Links
    BY DEF Init, Links
  <2>. QED
    BY <2>2, <2>4, <2>5, <2>6
<1>4. recvBuffer = <<>> /\ toPlate = <<>> /\ fromPlate = <<>>
  BY DEF Init
<1>. QED
  BY <1>1, <1>3, <1>4, Zenon DEF TypeInv, TypeOK

\* What a signal with n bytes leaves to be read.
LEMMA ReadTypes ==
  ASSUME TypeInv, NEW n \in 1 .. Len(fromPlate)
  PROVE  /\ SubSeq(fromPlate, 1, n) \in Seq(Byte)
         /\ SubSeq(fromPlate, n + 1, Len(fromPlate)) \in Seq(Byte)
         /\ SubSeq(fromPlate, 1, n) \o SubSeq(fromPlate, n + 1, Len(fromPlate)) = fromPlate
         /\ recvBuffer \o SubSeq(fromPlate, 1, n) \in Seq(Byte)
<1>. DEFINE s == fromPlate
            l == Len(s)
<1>0. s \in Seq(Byte) /\ recvBuffer \in Seq(Byte)
  BY DEF TypeInv, TypeOK
<1>. HIDE DEF s
<1>1. l \in Nat /\ n \in 1 .. l /\ \A k \in 1 .. l : s[k] \in Byte
  BY <1>0, LenProperties, ElementOfSeq DEF s
<1>. HIDE DEF l
<1>2. /\ n \in Int /\ 1 \in Int /\ n + 1 \in Int /\ l \in Int /\ l \in n .. l /\ 1 \in 1 .. l + 1
      /\ n \in 1 - 1 .. l
  BY <1>1
<1>3. (\A k \in 1 .. n : k \in 1 .. l) /\ (\A k \in n + 1 .. l : k \in 1 .. l)
  BY <1>1
<1>4. SubSeq(s, 1, n) \in Seq(Byte) /\ SubSeq(s, n + 1, l) \in Seq(Byte)
  BY <1>1, <1>2, <1>3, SubSeqProperties
<1>5. SubSeq(s, 1, n) \o SubSeq(s, n + 1, l) = SubSeq(s, 1, l)
  BY <1>0, <1>2, ConcatAdjacentSubSeq DEF l
<1>6. SubSeq(s, 1, l) = s
  BY <1>0, SubSeqFull DEF l
<1>7. recvBuffer \o SubSeq(s, 1, n) \in Seq(Byte)
  BY <1>0, <1>4, ConcatProperties
<1>. QED
  BY <1>4, <1>5, <1>6, <1>7 DEF s, l

LEMMA SerialType == \A n \in 1 .. SerialLimit - 1 : NextSerial(n) \in 1 .. SerialLimit - 1
<1>1. SerialLimit \in Nat /\ FirstSerial \in 1 .. SerialLimit - 1
  BY PlateAssumption
<1>. QED
  BY <1>1 DEF NextSerial

LEMMA BatchTypes == \A ch \in Channels : Batches(ch) \subseteq Commands
<1>. TAKE ch \in Channels
<1>1. SetCmd[ch] \in {SetCmd["DO"], SetCmd["Com"]}
  BY DEF Channels
<1>2. \A r \in BOOLEAN : [cmd |-> SetCmd[ch], right |-> r] \in Commands
  BY <1>1 DEF Commands
<1>. QED
  BY <1>2 DEF Batches

\* A batch goes to the board as a command, or nowhere.
LEMMA WriteTypes ==
  ASSUME TypeInv, NEW ch \in Channels, WriteBatch(ch)
  PROVE  /\ msgSerial' \in 1 .. SerialLimit - 1
         /\ canSend' \in [Channels -> BOOLEAN]
         /\ toPlate' \in Seq(Commands)
         /\ deaf' \subseteq Channels
<1>1. msgSerial' \in 1 .. SerialLimit - 1
  BY SerialType DEF WriteBatch, TypeInv, TypeOK
<1>2. canSend' \in [Channels -> BOOLEAN]
  BY DEF WriteBatch, TypeInv, TypeOK
<1>3. toPlate' \in Seq(Commands) /\ deaf' \subseteq Channels
  <2>1. CASE link # "up" /\ deaf' = deaf \cup {ch} /\ UNCHANGED toPlate
    BY <2>1 DEF TypeInv, TypeOK
  <2>2. ASSUME NEW batch \in Batches(ch), toPlate' = Append(toPlate, batch),
               deaf' = IF batch.right THEN deaf \ {ch} ELSE deaf \cup {ch}
        PROVE  toPlate' \in Seq(Commands) /\ deaf' \subseteq Channels
    <3>1. batch \in Commands /\ toPlate \in Seq(Commands)
      BY BatchTypes DEF TypeInv
    <3>2. toPlate' \in Seq(Commands)
      BY <2>2, <3>1
    <3>3. deaf' \subseteq Channels
      BY <2>2 DEF TypeInv, TypeOK
    <3>. QED
      BY <3>2, <3>3
  <2>. QED
    BY <2>1, <2>2 DEF WriteBatch
<1>. QED
  BY <1>1, <1>2, <1>3

\* Every step keeps the types, in particular the bounds on a batch and on m_msgSerial.
LEMMA TypeStep == TypeInv /\ [Next]_vars => TypeInv'
<1>. SUFFICES ASSUME TypeInv, [Next]_vars PROVE TypeInv'
  OBVIOUS
<1>0. toPlate' \in Seq(Commands) => \A k \in DOMAIN toPlate' : toPlate'[k].cmd \in Byte
  <2>. SUFFICES ASSUME toPlate' \in Seq(Commands), NEW k \in DOMAIN toPlate'
       PROVE  toPlate'[k].cmd \in Byte
    OBVIOUS
  <2>1. toPlate'[k] \in Commands
    BY LenProperties, ElementOfSeq
  <2>. QED
    BY <2>1, CommandBytes
<1>01. toPlate \in Seq(Commands) /\ recvBuffer \in Seq(Byte) /\ fromPlate \in Seq(Byte)
       /\ <<>> \in Seq(Byte) /\ <<>> \in Seq(Commands)
  BY DEF TypeInv, TypeOK
<1>1. CASE Initialize
  <2>1. toPlate' \in Seq(Commands)
    BY <1>01, <1>1 DEF Initialize
  <2>. QED
    BY <1>0, <1>1, <2>1 DEF Initialize, TypeInv, TypeOK, Links
<1>2. CASE Cleanup
  <2>1. toPlate' \in Seq(Commands) /\ fromPlate' \in Seq(Byte)
    BY <1>01, <1>2 DEF Cleanup
  <2>2. link' \in Links
    BY <1>2 DEF Cleanup, Links, TypeInv, TypeOK
  <2>. QED
    BY <1>0, <1>2, <2>1, <2>2 DEF Cleanup, TypeInv, TypeOK
<1>3. ASSUME NEW ch \in Channels, QueuePair(ch) PROVE TypeInv'
  <2>1. toPlate' \in Seq(Commands)
    BY <1>01, <1>3 DEF QueuePair
  <2>2. queued' \in [Channels -> 0 .. MaxPairs]
    <3>1. MaxPairs \in Nat /\ queued[ch] \in 0 .. MaxPairs /\ queued[ch] < MaxPairs
      BY <1>3, PlateAssumption DEF QueuePair, TypeInv, TypeOK
    <3>2. queued[ch] + 1 \in 0 .. MaxPairs
      BY <3>1
    <3>. QED
      BY <1>3, <3>2 DEF QueuePair, TypeInv, TypeOK
  <2>. QED
    BY <1>0, <1>3, <2>1, <2>2 DEF QueuePair, TypeInv, TypeOK
<1>4. ASSUME NEW ch \in Channels, Flush(ch) PROVE TypeInv'
  <2>1. /\ msgSerial' \in 1 .. SerialLimit - 1
        /\ canSend' \in [Channels -> BOOLEAN]
        /\ toPlate' \in Seq(Commands)
        /\ deaf' \subseteq Channels
    <3>1. CASE WriteBatch(ch)
      BY <3>1, WriteTypes
    <3>2. CASE UNCHANGED <<msgSerial, canSend, toPlate, deaf>>
      BY <3>2 DEF TypeInv, TypeOK
    <3>. QED
      BY <1>4, <3>1, <3>2 DEF Flush
  <2>2. queued' \in [Channels -> 0 .. MaxPairs]
    <3>1. 0 \in 0 .. MaxPairs
      BY PlateAssumption
    <3>. QED
      BY <1>4, <3>1 DEF Flush, TypeInv, TypeOK
  <2>. QED
    BY <1>0, <1>4, <2>1, <2>2 DEF Flush, TypeInv, TypeOK
<1>5. ASSUME NEW n \in 1 .. Len(fromPlate), OnReadyRead(n) PROVE TypeInv'
  <2>. DEFINE found == Decode[recvBuffer \o SubSeq(fromPlate, 1, n)]
              replies == FlattenSeq([k \in DOMAIN found.packets |-> Replies(found.packets[k])])
  <2>1. /\ found.packets \in Seq(Packets) /\ found.rest \in Seq(Byte)
        /\ SubSeq(fromPlate, n + 1, Len(fromPlate)) \in Seq(Byte)
    BY ReadTypes, DecodeTypes, Zenon
  <2>. HIDE DEF found
  <2>2. replies \in Seq(ReplyCommands)
    BY <2>1, RepliesType
  <2>. HIDE DEF replies
  <2>3. replies \in Seq(Commands)
    BY <2>2, SeqMonotonic DEF Commands
  <2>4. /\ recvBuffer' = found.rest
        /\ fromPlate' = SubSeq(fromPlate, n + 1, Len(fromPlate))
        /\ toPlate' = IF link = "up" THEN toPlate \o replies ELSE toPlate
    BY <1>5 DEF OnReadyRead, found, replies
  <2>5. toPlate' \in Seq(Commands)
    BY <1>01, <2>3, <2>4, ConcatProperties
  <2>6. canSend' \in [Channels -> BOOLEAN]
    BY <1>5 DEF OnReadyRead
  <2>7. recvBuffer' \in Seq(Byte) /\ fromPlate' \in Seq(Byte)
    BY <2>1, <2>4
  <2>8. UNCHANGED <<initialized, link, queued, msgSerial, connects, clean, deaf>>
    BY <1>5 DEF OnReadyRead
  <2>. QED
    BY <1>0, <2>5, <2>6, <2>7, <2>8 DEF TypeInv, TypeOK
<1>6. CASE Connected
  <2>1. fromPlate' \in Seq(Byte)
    <3>1. 0 \in Byte /\ RandomCode \in Seq(Byte) /\ Len(RandomCode) = 16 /\ 16 <= 255
      BY SomeBytes, PlateAssumption
    <3>2. SendMsg(0, 0, RandomCode) \in Seq(Byte)
      BY <3>1, DecodeMessage
    <3>. QED
      BY <1>6, <3>2 DEF Connected, GetRandomCode
  <2>2. connects' \in 0 .. MaxConnects
    BY <1>6, PlateAssumption DEF Connected, TypeInv, TypeOK
  <2>3. toPlate' \in Seq(Commands) /\ recvBuffer' \in Seq(Byte)
    BY <1>01, <1>6 DEF Connected
  <2>4. link' \in Links /\ clean' \in BOOLEAN
    BY <1>6 DEF Connected, Links
  <2>. QED
    BY <1>0, <1>6, <2>1, <2>2, <2>3, <2>4 DEF Connected, TypeInv, TypeOK
<1>7. CASE LinkLost
  <2>1. toPlate' \in Seq(Commands) /\ fromPlate' \in Seq(Byte)
    BY <1>01, <1>7 DEF LinkLost
  <2>. QED
    BY <1>0, <1>7, <2>1 DEF LinkLost, TypeInv, TypeOK, Links
<1>8. CASE PlateAnswers
  <2>1. /\ Head(toPlate) \in Commands /\ Tail(toPlate) \in Seq(Commands)
    BY <1>01, <1>8, HeadTailProperties DEF PlateAnswers
  <2>2. AnswerTo(Head(toPlate).cmd) \in Seq(Byte)
    BY <2>1, AnswerDecoded
  <2>3. fromPlate \o AnswerTo(Head(toPlate).cmd) \in Seq(Byte)
    BY <1>01, <2>2, ConcatProperties
  <2>4. toPlate' \in Seq(Commands) /\ fromPlate' \in Seq(Byte)
    BY <1>01, <1>8, <2>1, <2>3 DEF PlateAnswers
  <2>. QED
    BY <1>0, <1>8, <2>4 DEF PlateAnswers, TypeInv, TypeOK
<1>9. CASE UNCHANGED vars
  BY <1>9 DEF vars, TypeInv, TypeOK
<1>. QED
  BY <1>1, <1>2, <1>3, <1>4, <1>5, <1>6, <1>7, <1>8, <1>9 DEF Next, Receive

\* Every variable of JFPlate has its type, for any bounds: no batch outgrows its
\* limit and m_msgSerial wraps before it reaches its own (jf_plate.cpp 123-126).
THEOREM TypeCorrect == Spec => []TypeOK
<1>1. TypeInv => TypeOK
  BY DEF TypeInv
<1>. QED
  BY <1>1, TypeInit, TypeStep, PTL DEF Spec

-----------------------------------------------------------------------------
(* The link.                                                               *)

\* A link comes up with nothing on its way to the board and, since initialize()
\* has opened the channels, with every channel open or closed by a batch that
\* could not be written.
LinkInv ==
    /\ link \in {"up", "connecting"} => initialized
    /\ link \in {"down", "connecting"} => toPlate = <<>>
    /\ link = "connecting" => \A ch \in Channels : canSend[ch] \/ ch \in deaf

LEMMA LinkInit == Init => LinkInv
BY DEF Init, LinkInv

LEMMA LinkStep == TypeInv /\ LinkInv /\ [Next]_vars => LinkInv'
<1>. SUFFICES ASSUME TypeInv, LinkInv, [Next]_vars PROVE LinkInv'
  OBVIOUS
<1>. USE DEF LinkInv
<1>0. link \in Links
  BY DEF TypeInv, TypeOK
<1>1. CASE Initialize
  BY <1>0, <1>1 DEF Initialize, Links
<1>2. CASE Cleanup
  BY <1>2 DEF Cleanup
<1>3. ASSUME NEW ch \in Channels, QueuePair(ch) PROVE LinkInv'
  BY <1>3 DEF QueuePair
<1>4. ASSUME NEW ch \in Channels, Flush(ch) PROVE LinkInv'
  <2>1. /\ link' = link /\ initialized' = initialized
    BY <1>4 DEF Flush
  <2>2. CASE WriteBatch(ch)
    <3>1. link # "up" => toPlate' = toPlate /\ deaf' = deaf \cup {ch}
      BY <2>2 DEF WriteBatch
    <3>2. \A c \in Channels : c # ch => canSend'[c] = canSend[c]
      BY <2>2 DEF WriteBatch, TypeInv, TypeOK
    <3>. QED
      BY <2>1, <3>1, <3>2
  <2>3. CASE UNCHANGED <<msgSerial, canSend, toPlate, deaf>>
    BY <2>1, <2>3
  <2>. QED
    BY <1>4, <2>2, <2>3 DEF Flush
<1>5. ASSUME NEW n \in 1 .. Len(fromPlate), OnReadyRead(n) PROVE LinkInv'
  BY <1>5 DEF OnReadyRead
<1>6. CASE Connected
  BY <1>6 DEF Connected
<1>7. CASE LinkLost
  BY <1>7 DEF LinkLost
<1>8. CASE PlateAnswers
  BY <1>8 DEF PlateAnswers
<1>9. CASE UNCHANGED vars
  BY <1>9 DEF vars
<1>. QED
  BY <1>1, <1>2, <1>3, <1>4, <1>5, <1>6, <1>7, <1>8, <1>9 DEF Next, Receive

-----------------------------------------------------------------------------
(* The receiver in step, and the batches on their way.                     *)

Sent(ch) == {Command(SetCmd[ch])}
Acks(ch) == {packet \in Packets : packet.cmd = AckCmd[ch]}

\* No batch of the channel is on its way, to the board or as an answer; one is.
NoneOut(ch) == NoneOf(toPlate, Sent(ch)) /\ NoneOf(Unread.packets, Acks(ch))
OneOut(ch) ==
    \/ OneOf(toPlate, Sent(ch)) /\ NoneOf(Unread.packets, Acks(ch))
    \/ NoneOf(toPlate, Sent(ch)) /\ OneOf(Unread.packets, Acks(ch))

\* A channel whose batch the board cannot answer has none on its way either: that
\* is why an answer always belongs to the batch that closed the channel.
BatchInv ==
    clean /\ link = "up" =>
        /\ Unread.rest = <<>>
        /\ \A ch \in Channels :
              IF canSend[ch] \/ ch \in deaf THEN NoneOut(ch) ELSE OneOut(ch)

PlateInv == TypeInv /\ LinkInv /\ BatchInv

LEMMA UnreadTypes ==
  ASSUME TypeInv
  PROVE  /\ recvBuffer \o fromPlate \in Seq(Byte)
         /\ Unread.packets \in Seq(Packets) /\ Unread.rest \in Seq(Byte)
<1>1. recvBuffer \o fromPlate \in Seq(Byte)
  BY ConcatProperties DEF TypeInv, TypeOK
<1>. QED
  BY <1>1, DecodeTypes, Zenon DEF Unread

\* The board greets: with an empty buffer there is one packet to read, which
\* acknowledges nothing.
LEMMA ConnectedBatch ==
  ASSUME TypeInv, LinkInv, Connected
  PROVE  BatchInv'
<1>. SUFFICES ASSUME recvBuffer = <<>>
     PROVE  Unread'.rest = <<>> /\ \A ch \in Channels : NoneOut(ch)' /\ (canSend[ch]' \/ ch \in deaf')
  BY DEF Connected, BatchInv
<1>1. /\ recvBuffer' = <<>> /\ toPlate' = <<>> /\ fromPlate' = SendMsg(0, 0, RandomCode)
      /\ canSend' = canSend /\ deaf' = deaf
      /\ \A ch \in Channels : canSend[ch] \/ ch \in deaf
  BY DEF Connected, LinkInv, GetRandomCode
<1>2. 0 \in Byte /\ RandomCode \in Seq(Byte) /\ Len(RandomCode) <= 255
  BY SomeBytes, PlateAssumption
<1>3. /\ SendMsg(0, 0, RandomCode) \in Seq(Byte)
      /\ Decode[SendMsg(0, 0, RandomCode)].packets = <<[cmd |-> 0, data |-> RandomCode]>>
      /\ Decode[SendMsg(0, 0, RandomCode)].rest = <<>>
  BY <1>2, DecodeMessage
<1>4. Unread' = Decode[SendMsg(0, 0, RandomCode)]
  <2>1. <<>> \o SendMsg(0, 0, RandomCode) = SendMsg(0, 0, RandomCode)
    BY <1>3, ConcatEmptySeq
  <2>. QED
    BY <1>1, <2>1 DEF Unread
<1>5. ASSUME NEW ch \in Channels PROVE NoneOut(ch)'
  <2>1. [cmd |-> 0, data |-> RandomCode] \notin Acks(ch)
    BY CommandNumbers DEF Acks
  <2>2. NoneOf(Unread'.packets, Acks(ch))
    BY <1>3, <1>4, <2>1, OfSingleton
  <2>3. NoneOf(toPlate', Sent(ch))
    BY <1>1, OfEmpty
  <2>. QED
    BY <2>2, <2>3 DEF NoneOut
<1>. QED
  BY <1>1, <1>3, <1>4, <1>5

\* A batch is written when the channel is open, that is when none is out.
LEMMA FlushBatch ==
  ASSUME PlateInv, NEW ch \in Channels, WriteBatch(ch), canSend[ch],
         UNCHANGED <<link, clean, recvBuffer, fromPlate>>
  PROVE  BatchInv'
<1>. SUFFICES ASSUME clean, link = "up"
     PROVE /\ Unread'.rest = <<>>
           /\ \A c \in Channels :
                 IF canSend'[c] \/ c \in deaf' THEN NoneOut(c)' ELSE OneOut(c)'
  BY DEF BatchInv
<1>1. /\ Unread.rest = <<>> /\ Unread' = Unread
      /\ \A c \in Channels : IF canSend[c] \/ c \in deaf THEN NoneOut(c) ELSE OneOut(c)
  BY DEF PlateInv, BatchInv, Unread
<1>2. PICK batch \in Batches(ch) :
        /\ toPlate' = Append(toPlate, batch)
        /\ deaf' = IF batch.right THEN deaf \ {ch} ELSE deaf \cup {ch}
  BY DEF WriteBatch
<1>3. /\ canSend'[ch] = FALSE
      /\ \A c \in Channels : c # ch => canSend'[c] = canSend[c]
  BY DEF WriteBatch, PlateInv, TypeInv, TypeOK
<1>4. toPlate \in Seq(Commands) /\ batch \in Commands /\ <<batch>> \in Seq(Commands)
  BY BatchTypes DEF PlateInv, TypeInv
<1>5. toPlate' = toPlate \o <<batch>>
  BY <1>2, <1>4
<1>6. ASSUME NEW c \in Channels
      PROVE  /\ batch \in Sent(c) <=> c = ch /\ batch.right
             /\ NoneOf(toPlate', Sent(c)) <=> NoneOf(toPlate, Sent(c)) /\ batch \notin Sent(c)
             /\ OneOf(toPlate', Sent(c)) <=>
                   \/ OneOf(toPlate, Sent(c)) /\ batch \notin Sent(c)
                   \/ NoneOf(toPlate, Sent(c)) /\ batch \in Sent(c)
  <2>1. batch \in Sent(c) <=> c = ch /\ batch.right
    <3>0. PICK r \in IF ch = "Com" THEN BOOLEAN ELSE {TRUE} :
            batch = [cmd |-> SetCmd[ch], right |-> r]
      BY DEF Batches
    <3>1. batch = [cmd |-> SetCmd[ch], right |-> batch.right] /\ batch.right \in BOOLEAN
      <4>1. r \in BOOLEAN /\ batch.right = r
        BY <3>0
      <4>. QED
        BY <3>0, <4>1
    <3>2. SetCmd[c] = SetCmd[ch] <=> c = ch
      BY CommandNumbers DEF Channels
    <3>3. batch = Command(SetCmd[c]) <=> SetCmd[c] = SetCmd[ch] /\ batch.right
      BY <3>1 DEF Command
    <3>. QED
      BY <3>2, <3>3 DEF Sent
  <2>2. /\ NoneOf(<<batch>>, Sent(c)) <=> batch \notin Sent(c)
        /\ OneOf(<<batch>>, Sent(c)) <=> batch \in Sent(c)
    BY OfSingleton
  <2>3. /\ NoneOf(toPlate \o <<batch>>, Sent(c)) <=>
              NoneOf(toPlate, Sent(c)) /\ NoneOf(<<batch>>, Sent(c))
        /\ OneOf(toPlate \o <<batch>>, Sent(c)) <=>
              \/ OneOf(toPlate, Sent(c)) /\ NoneOf(<<batch>>, Sent(c))
              \/ NoneOf(toPlate, Sent(c)) /\ OneOf(<<batch>>, Sent(c))
    BY <1>4, OfConcat
  <2>. QED
    BY <1>5, <2>1, <2>2, <2>3
<1>7. ASSUME NEW c \in Channels
      PROVE  IF canSend'[c] \/ c \in deaf' THEN NoneOut(c)' ELSE OneOut(c)'
  <2>1. /\ NoneOut(c)' <=> NoneOf(toPlate', Sent(c)) /\ NoneOf(Unread.packets, Acks(c))
        /\ OneOut(c)' <=>
              \/ OneOf(toPlate', Sent(c)) /\ NoneOf(Unread.packets, Acks(c))
              \/ NoneOf(toPlate', Sent(c)) /\ OneOf(Unread.packets, Acks(c))
    BY <1>1 DEF NoneOut, OneOut
  <2>2. CASE c # ch
    <3>1. canSend'[c] = canSend[c] /\ (c \in deaf' <=> c \in deaf) /\ batch \notin Sent(c)
      BY <1>2, <1>3, <1>6, <2>2
    <3>2. (NoneOut(c)' <=> NoneOut(c)) /\ (OneOut(c)' <=> OneOut(c))
      BY <1>6, <2>1, <3>1 DEF NoneOut, OneOut
    <3>. QED
      BY <1>1, <3>1, <3>2
  <2>3. CASE c = ch
    <3>1. NoneOut(c)
      BY <1>1, <2>3
    <3>2. c \in deaf' <=> ~batch.right
      BY <1>2, <2>3
    <3>3. CASE batch.right
      BY <1>3, <1>6, <2>1, <2>3, <3>1, <3>2, <3>3 DEF NoneOut
    <3>4. CASE ~batch.right
      BY <1>3, <1>6, <2>1, <2>3, <3>1, <3>2, <3>4 DEF NoneOut
    <3>. QED
      BY <3>3, <3>4
  <2>. QED
    BY <2>2, <2>3
<1>. QED
  BY <1>1, <1>7

\* The packets that a signal hands on are the first of those still to be read; an
\* acknowledgement among them opens its channel, and the replies are no batches.
LEMMA ReadBatch ==
  ASSUME PlateInv, NEW n \in 1 .. Len(fromPlate), OnReadyRead(n)
  PROVE  BatchInv'
<1>. DEFINE start == recvBuffer \o SubSeq(fromPlate, 1, n)
            later == SubSeq(fromPlate, n + 1, Len(fromPlate))
            found == Decode[start]
            replies == FlattenSeq([k \in DOMAIN found.packets |-> Replies(found.packets[k])])
<1>. SUFFICES ASSUME clean, link = "up"
     PROVE /\ Unread'.rest = <<>>
           /\ \A c \in Channels :
                 IF canSend'[c] \/ c \in deaf' THEN NoneOut(c)' ELSE OneOut(c)'
  BY DEF BatchInv, OnReadyRead
<1>1. /\ Unread.rest = <<>>
      /\ \A c \in Channels : IF canSend[c] \/ c \in deaf THEN NoneOut(c) ELSE OneOut(c)
  BY DEF PlateInv, BatchInv
<1>2. /\ start \in Seq(Byte) /\ later \in Seq(Byte) /\ start \o later = recvBuffer \o fromPlate
      /\ found.packets \in Seq(Packets) /\ found.rest \in Seq(Byte)
  <2>1. /\ SubSeq(fromPlate, 1, n) \in Seq(Byte) /\ later \in Seq(Byte)
        /\ SubSeq(fromPlate, 1, n) \o later = fromPlate /\ start \in Seq(Byte)
        /\ recvBuffer \in Seq(Byte)
    BY ReadTypes DEF PlateInv, TypeInv, TypeOK
  <2>. HIDE DEF later
  <2>2. (recvBuffer \o SubSeq(fromPlate, 1, n)) \o later
          = recvBuffer \o (SubSeq(fromPlate, 1, n) \o later)
    BY <2>1, ConcatAssociative
  <2>3. start \o later = recvBuffer \o fromPlate
    BY <2>1, <2>2
  <2>. HIDE DEF start
  <2>. QED
    BY <2>1, <2>3, DecodeTypes
<1>3. /\ recvBuffer' = found.rest /\ fromPlate' = later /\ toPlate' = toPlate \o replies
      /\ canSend' = [ch \in Channels |->
                        \/ canSend[ch]
                        \/ \E packet \in ToSet(found.packets) : packet.cmd = AckCmd[ch]]
      /\ deaf' = deaf
  BY DEF OnReadyRead
<1>4. replies \in Seq(ReplyCommands)
  BY <1>2, RepliesType
<1>. HIDE DEF start, later, found, replies
<1>5. /\ Unread.packets = found.packets \o Unread'.packets
      /\ Unread.rest = Unread'.rest /\ Unread'.packets \in Seq(Packets)
  <2>1. /\ Decode[start \o later].packets =
             Decode[start].packets \o Decode[Decode[start].rest \o later].packets
        /\ Decode[start \o later].rest = Decode[Decode[start].rest \o later].rest
    BY <1>2, DecodeLater
  <2>2. Unread = Decode[start \o later] /\ Unread' = Decode[found.rest \o later]
    BY <1>2, <1>3 DEF Unread
  <2>3. found.rest \o later \in Seq(Byte)
    BY <1>2, ConcatProperties
  <2>. QED
    BY <2>1, <2>2, <2>3, DecodeTypes DEF found
<1>6. ASSUME NEW c \in Channels
      PROVE  /\ NoneOf(toPlate', Sent(c)) <=> NoneOf(toPlate, Sent(c))
             /\ OneOf(toPlate', Sent(c)) <=> OneOf(toPlate, Sent(c))
  <2>1. NoneOf(replies, Sent(c))
    <3>1. Command(SetCmd[c]) \notin ReplyCommands
      BY CommandNumbers DEF Command, ReplyCommands, SetVerifyPassword, SetGetDI, SetGetDO
    <3>2. \A k \in DOMAIN replies : replies[k] \in ReplyCommands
      BY <1>4, LenProperties, ElementOfSeq
    <3>. QED
      BY <3>1, <3>2 DEF NoneOf, Sent
  <2>2. toPlate \in Seq(Commands) /\ replies \in Seq(Commands)
    BY <1>4, SeqMonotonic DEF Commands, PlateInv, TypeInv
  <2>3. ~OneOf(replies, Sent(c))
    BY <2>1, NotBoth
  <2>4. /\ NoneOf(toPlate \o replies, Sent(c)) <=> NoneOf(toPlate, Sent(c)) /\ NoneOf(replies, Sent(c))
        /\ OneOf(toPlate \o replies, Sent(c)) <=>
              \/ OneOf(toPlate, Sent(c)) /\ NoneOf(replies, Sent(c))
              \/ NoneOf(toPlate, Sent(c)) /\ OneOf(replies, Sent(c))
    BY <2>2, OfConcat
  <2>. QED
    BY <1>3, <2>1, <2>3, <2>4
<1>7. ASSUME NEW c \in Channels
      PROVE  /\ NoneOf(Unread.packets, Acks(c)) <=>
                   NoneOf(found.packets, Acks(c)) /\ NoneOf(Unread'.packets, Acks(c))
             /\ OneOf(Unread.packets, Acks(c)) <=>
                   \/ OneOf(found.packets, Acks(c)) /\ NoneOf(Unread'.packets, Acks(c))
                   \/ NoneOf(found.packets, Acks(c)) /\ OneOf(Unread'.packets, Acks(c))
  <2>. DEFINE now == found.packets
              rest == Unread'.packets
  <2>1. now \in Seq(Packets) /\ rest \in Seq(Packets) /\ Unread.packets = now \o rest
    BY <1>2, <1>5
  <2>. HIDE DEF now, rest
  <2>2. /\ NoneOf(now \o rest, Acks(c)) <=> NoneOf(now, Acks(c)) /\ NoneOf(rest, Acks(c))
        /\ OneOf(now \o rest, Acks(c)) <=>
              \/ OneOf(now, Acks(c)) /\ NoneOf(rest, Acks(c))
              \/ NoneOf(now, Acks(c)) /\ OneOf(rest, Acks(c))
    BY <2>1, OfConcat
  <2>. QED
    BY <2>1, <2>2 DEF now, rest
<1>8. ASSUME NEW c \in Channels
      PROVE  canSend'[c] <=> canSend[c] \/ ~NoneOf(found.packets, Acks(c))
  <2>1. canSend'[c] <=>
          canSend[c] \/ \E packet \in ToSet(found.packets) : packet.cmd = AckCmd[c]
    BY <1>3
  <2>2. \A k \in DOMAIN found.packets : found.packets[k] \in Packets
    BY <1>2, LenProperties, ElementOfSeq
  <2>3. ToSet(found.packets) = {found.packets[k] : k \in DOMAIN found.packets}
    BY DEF ToSet
  <2>. QED
    BY <2>1, <2>2, <2>3 DEF NoneOf, Acks
<1>9. ASSUME NEW c \in Channels
      PROVE  IF canSend'[c] \/ c \in deaf' THEN NoneOut(c)' ELSE OneOut(c)'
  <2>0. /\ NoneOut(c)' <=> NoneOf(toPlate', Sent(c)) /\ NoneOf(Unread'.packets, Acks(c))
        /\ OneOut(c)' <=>
              \/ OneOf(toPlate', Sent(c)) /\ NoneOf(Unread'.packets, Acks(c))
              \/ NoneOf(toPlate', Sent(c)) /\ OneOf(Unread'.packets, Acks(c))
    BY DEF NoneOut, OneOut
  <2>1. CASE canSend[c] \/ c \in deaf
    <3>1. NoneOut(c)
      BY <1>1, <2>1
    <3>2. NoneOut(c)'
      BY <1>6, <1>7, <2>0, <3>1 DEF NoneOut
    <3>3. NoneOf(found.packets, Acks(c))
      BY <1>7, <3>1 DEF NoneOut
    <3>. QED
      BY <1>3, <1>8, <2>1, <3>2, <3>3
  <2>2. CASE ~(canSend[c] \/ c \in deaf)
    <3>1. OneOut(c)
      BY <1>1, <2>2
    <3>2. CASE NoneOf(found.packets, Acks(c))
      <4>1. ~OneOf(found.packets, Acks(c))
        BY <3>2, NotBoth
      <4>2. OneOut(c)'
        BY <1>6, <1>7, <2>0, <3>1, <3>2, <4>1 DEF OneOut
      <4>. QED
        BY <1>3, <1>8, <2>2, <3>2, <4>2
    <3>3. CASE ~NoneOf(found.packets, Acks(c))
      <4>1. NoneOut(c)'
        BY <1>6, <1>7, <2>0, <3>1, <3>3 DEF OneOut
      <4>. QED
        BY <1>8, <3>3, <4>1
    <3>. QED
      BY <3>2, <3>3
  <2>. QED
    BY <2>1, <2>2
<1>. QED
  BY <1>1, <1>5, <1>9

\* The board answers the first command on its way: the answer is one packet, and
\* it acknowledges the channel whose batch the command was.
LEMMA AnswerBatch ==
  ASSUME PlateInv, PlateAnswers
  PROVE  BatchInv'
<1>. DEFINE first == Head(toPlate)
            others == Tail(toPlate)
            answer == AnswerTo(first.cmd)
<1>. SUFFICES ASSUME clean, link = "up"
     PROVE /\ Unread'.rest = <<>>
           /\ \A c \in Channels :
                 IF canSend'[c] \/ c \in deaf' THEN NoneOut(c)' ELSE OneOut(c)'
  BY DEF BatchInv, PlateAnswers
<1>1. /\ Unread.rest = <<>>
      /\ \A c \in Channels : IF canSend[c] \/ c \in deaf THEN NoneOut(c) ELSE OneOut(c)
  BY DEF PlateInv, BatchInv
<1>2. toPlate \in Seq(Commands) /\ toPlate # <<>>
  BY DEF PlateInv, TypeInv, PlateAnswers
<1>3. /\ first \in Commands /\ others \in Seq(Commands)
      /\ <<first>> \in Seq(Commands) /\ toPlate = <<first>> \o others
  BY <1>2, HeadTailProperties
<1>4. /\ toPlate' = others
      /\ fromPlate' = IF first.right THEN fromPlate \o answer ELSE fromPlate
      /\ recvBuffer' = recvBuffer /\ canSend' = canSend /\ deaf' = deaf
  BY DEF PlateAnswers
<1>5. /\ answer \in Seq(Byte) /\ Decode[answer].rest = <<>>
      /\ \E data \in Seq(Byte) :
           Decode[answer].packets = <<[cmd |-> AnswerCmd(first.cmd), data |-> data]>>
  BY <1>3, AnswerDecoded
<1>. HIDE DEF first, others, answer
<1>6. ASSUME NEW c \in Channels
      PROVE  /\ NoneOf(toPlate, Sent(c)) <=> first \notin Sent(c) /\ NoneOf(toPlate', Sent(c))
             /\ OneOf(toPlate, Sent(c)) <=>
                   \/ first \in Sent(c) /\ NoneOf(toPlate', Sent(c))
                   \/ first \notin Sent(c) /\ OneOf(toPlate', Sent(c))
  <2>1. /\ NoneOf(<<first>>, Sent(c)) <=> first \notin Sent(c)
        /\ OneOf(<<first>>, Sent(c)) <=> first \in Sent(c)
    BY OfSingleton
  <2>2. /\ NoneOf(<<first>> \o others, Sent(c)) <=>
              NoneOf(<<first>>, Sent(c)) /\ NoneOf(others, Sent(c))
        /\ OneOf(<<first>> \o others, Sent(c)) <=>
              \/ OneOf(<<first>>, Sent(c)) /\ NoneOf(others, Sent(c))
              \/ NoneOf(<<first>>, Sent(c)) /\ OneOf(others, Sent(c))
    BY <1>3, OfConcat
  <2>. QED
    BY <1>3, <1>4, <2>1, <2>2
<1>7. CASE ~first.right
  <2>1. Unread' = Unread
    BY <1>4, <1>7 DEF Unread
  <2>2. ASSUME NEW c \in Channels
        PROVE  (NoneOut(c)' <=> NoneOut(c)) /\ (OneOut(c)' <=> OneOut(c))
    <3>1. first \notin Sent(c)
      BY <1>7 DEF Sent, Command
    <3>. QED
      BY <1>6, <2>1, <3>1 DEF NoneOut, OneOut
  <2>. QED
    BY <1>1, <1>4, <2>1, <2>2
<1>8. CASE first.right
  <2>1. PICK data \in Seq(Byte) :
          Decode[answer].packets = <<[cmd |-> AnswerCmd(first.cmd), data |-> data]>>
    BY <1>5
  <2>. DEFINE packet == [cmd |-> AnswerCmd(first.cmd), data |-> data]
  <2>2. packet \in Packets
    <3>1. AnswerCmd(first.cmd) \in Byte
      BY <1>3, AnswerByte
    <3>. QED
      BY <3>1 DEF Packets
  <2>3. ASSUME NEW c \in Channels PROVE packet \in Acks(c) <=> first \in Sent(c)
    <3>1. AnswerCmd(first.cmd) = AckCmd[c] <=> first = Command(SetCmd[c])
      BY <1>3, <1>8, AnswerIsAck
    <3>. QED
      BY <2>2, <3>1 DEF Acks, Sent
  <2>. HIDE DEF packet
  <2>4. Unread'.packets = Unread.packets \o <<packet>> /\ Unread'.rest = <<>>
    <3>. DEFINE all == recvBuffer \o fromPlate
    <3>1. recvBuffer \in Seq(Byte) /\ fromPlate \in Seq(Byte) /\ all \in Seq(Byte)
      BY ConcatProperties DEF PlateInv, TypeInv, TypeOK
    <3>2. recvBuffer' \o fromPlate' = all \o answer
      <4>1. (recvBuffer \o fromPlate) \o answer = recvBuffer \o (fromPlate \o answer)
        BY <1>5, <3>1, ConcatAssociative
      <4>. QED
        BY <1>4, <1>8, <4>1
    <3>3. Unread = Decode[all]
      BY DEF Unread
    <3>. HIDE DEF all
    <3>4. Unread' = Decode[all \o answer]
      BY <3>2 DEF Unread
    <3>5. <<>> \o answer = answer
      BY <1>5, ConcatEmptySeq
    <3>6. /\ Decode[all \o answer].packets = Decode[all].packets \o Decode[<<>> \o answer].packets
          /\ Decode[all \o answer].rest = Decode[<<>> \o answer].rest
      <4>1. Decode[all].rest = <<>>
        BY <1>1, <3>3
      <4>2. /\ Decode[all \o answer].packets =
                  Decode[all].packets \o Decode[Decode[all].rest \o answer].packets
            /\ Decode[all \o answer].rest = Decode[Decode[all].rest \o answer].rest
        BY <1>5, <3>1, DecodeLater
      <4>. QED
        BY <4>1, <4>2, Zenon
    <3>. QED
      BY <1>5, <2>1, <3>3, <3>4, <3>5, <3>6 DEF packet
  <2>5. Unread.packets \in Seq(Packets) /\ <<packet>> \in Seq(Packets)
    BY <2>2, UnreadTypes DEF PlateInv
  <2>6. ASSUME NEW c \in Channels
        PROVE  (NoneOut(c)' <=> NoneOut(c)) /\ (OneOut(c)' <=> OneOut(c))
    <3>. DEFINE before == Unread.packets
                after == Unread'.packets
    <3>1. before \in Seq(Packets) /\ after = before \o <<packet>>
      BY <2>4, <2>5
    <3>2. /\ NoneOut(c) <=> NoneOf(toPlate, Sent(c)) /\ NoneOf(before, Acks(c))
          /\ OneOut(c) <=> \/ OneOf(toPlate, Sent(c)) /\ NoneOf(before, Acks(c))
                           \/ NoneOf(toPlate, Sent(c)) /\ OneOf(before, Acks(c))
          /\ NoneOut(c)' <=> NoneOf(toPlate', Sent(c)) /\ NoneOf(after, Acks(c))
          /\ OneOut(c)' <=> \/ OneOf(toPlate', Sent(c)) /\ NoneOf(after, Acks(c))
                            \/ NoneOf(toPlate', Sent(c)) /\ OneOf(after, Acks(c))
      BY DEF NoneOut, OneOut
    <3>. HIDE DEF before, after
    <3>3. /\ NoneOf(<<packet>>, Acks(c)) <=> packet \notin Acks(c)
          /\ OneOf(<<packet>>, Acks(c)) <=> packet \in Acks(c)
      BY OfSingleton
    <3>4. /\ NoneOf(before \o <<packet>>, Acks(c)) <=>
                NoneOf(before, Acks(c)) /\ NoneOf(<<packet>>, Acks(c))
          /\ OneOf(before \o <<packet>>, Acks(c)) <=>
                \/ OneOf(before, Acks(c)) /\ NoneOf(<<packet>>, Acks(c))
                \/ NoneOf(before, Acks(c)) /\ OneOf(<<packet>>, Acks(c))
      BY <2>5, <3>1, OfConcat
    <3>5. /\ NoneOf(after, Acks(c)) <=> NoneOf(before, Acks(c)) /\ first \notin Sent(c)
          /\ OneOf(after, Acks(c)) <=>
                \/ OneOf(before, Acks(c)) /\ first \notin Sent(c)
                \/ NoneOf(before, Acks(c)) /\ first \in Sent(c)
      BY <2>3, <3>1, <3>3, <3>4
    <3>6. /\ ~(NoneOf(before, Acks(c)) /\ OneOf(before, Acks(c)))
          /\ ~(NoneOf(toPlate', Sent(c)) /\ OneOf(toPlate', Sent(c)))
      BY NotBoth
    <3>. QED
      BY <1>1, <1>6, <3>2, <3>5, <3>6
  <2>. QED
    BY <1>1, <1>4, <2>4, <2>6
<1>. QED
  BY <1>7, <1>8

LEMMA BatchInit == Init => BatchInv
BY DEF Init, BatchInv

LEMMA BatchStep == PlateInv /\ [Next]_vars => BatchInv'
<1>. SUFFICES ASSUME PlateInv, [Next]_vars PROVE BatchInv'
  OBVIOUS
<1>1. ASSUME UNCHANGED <<link, clean, canSend, recvBuffer, toPlate, fromPlate, deaf>>
      PROVE  BatchInv'
  <2>1. /\ Unread' = Unread /\ clean' = clean /\ link' = link /\ canSend' = canSend
        /\ toPlate' = toPlate /\ deaf' = deaf
    BY <1>1 DEF Unread
  <2>. QED
    BY <2>1 DEF PlateInv, BatchInv, NoneOut, OneOut
<1>2. ASSUME link' # "up" PROVE BatchInv'
  BY <1>2 DEF BatchInv
<1>3. CASE Initialize
  BY <1>2, <1>3 DEF Initialize, PlateInv, LinkInv
<1>4. CASE Cleanup
  BY <1>1, <1>2, <1>4 DEF Cleanup
<1>5. ASSUME NEW ch \in Channels, QueuePair(ch) PROVE BatchInv'
  BY <1>1, <1>5 DEF QueuePair
<1>6. ASSUME NEW ch \in Channels, Flush(ch) PROVE BatchInv'
  <2>1. UNCHANGED <<link, clean, recvBuffer, fromPlate>>
    BY <1>6 DEF Flush
  <2>2. CASE WriteBatch(ch) /\ canSend[ch]
    BY <2>1, <2>2, FlushBatch
  <2>3. CASE UNCHANGED <<msgSerial, canSend, toPlate, deaf>>
    BY <1>1, <2>1, <2>3
  <2>. QED
    BY <1>6, <2>2, <2>3 DEF Flush
<1>7. ASSUME NEW n \in 1 .. Len(fromPlate), OnReadyRead(n) PROVE BatchInv'
  BY <1>7, ReadBatch
<1>8. CASE Connected
  BY <1>8, ConnectedBatch DEF PlateInv
<1>9. CASE LinkLost
  BY <1>2, <1>9 DEF LinkLost
<1>10. CASE PlateAnswers
  BY <1>10, AnswerBatch
<1>11. CASE UNCHANGED vars
  BY <1>1, <1>11 DEF vars
<1>. QED
  BY <1>3, <1>4, <1>5, <1>6, <1>7, <1>8, <1>9, <1>10, <1>11 DEF Next, Receive

LEMMA PlateInvariant == Spec => []PlateInv
<1>1. Init => PlateInv
  BY TypeInit, LinkInit, BatchInit DEF PlateInv
<1>2. PlateInv /\ [Next]_vars => PlateInv'
  BY TypeStep, LinkStep, BatchStep DEF PlateInv
<1>. QED
  BY <1>1, <1>2, PTL DEF Spec

\* On a connection that began with an empty buffer what is left to read is whole
\* frames, at every moment, for any cuts of the stream (jf_plate.cpp 187-203).
THEOREM StaysInStep == Spec => []InStep
<1>1. PlateInv => InStep
  BY DEF PlateInv, BatchInv, InStep
<1>. QED
  BY <1>1, PlateInvariant, PTL

\* What OneBatchOutstanding counts.
LEMMA CountNone == ASSUME NEW s, NEW M, NoneOf(s, M)
  PROVE  Cardinality({k \in DOMAIN s : s[k] \in M}) = 0
<1>1. {k \in DOMAIN s : s[k] \in M} = {}
  BY DEF NoneOf
<1>. QED
  BY <1>1, FS_EmptySet

LEMMA CountOne == ASSUME NEW s, NEW M, OneOf(s, M)
  PROVE  Cardinality({k \in DOMAIN s : s[k] \in M}) = 1
<1>1. PICK i \in DOMAIN s : s[i] \in M /\ \A k \in DOMAIN s : s[k] \in M => k = i
  BY DEF OneOf
<1>2. {k \in DOMAIN s : s[k] \in M} = {i}
  BY <1>1
<1>. QED
  BY <1>2, FS_Singleton

\* A channel is closed for exactly one batch on its way, and an open channel has
\* none: canSend is cleared with each batch that is written and set only by its
\* acknowledgement (jf_plate.cpp 123-130, 156-163, 236-239).
THEOREM OneBatch == Spec => []OneBatchOutstanding
<1>1. ASSUME PlateInv PROVE OneBatchOutstanding
  <2>. SUFFICES ASSUME NEW ch \in Channels, clean, link = "up", ch \notin deaf
       PROVE Outstanding(ch) = IF canSend[ch] THEN 0 ELSE 1
    BY DEF OneBatchOutstanding
  <2>. DEFINE waiting == Unread.packets
  <2>1. IF canSend[ch]
          THEN NoneOf(toPlate, Sent(ch)) /\ NoneOf(waiting, Acks(ch))
          ELSE \/ OneOf(toPlate, Sent(ch)) /\ NoneOf(waiting, Acks(ch))
               \/ NoneOf(toPlate, Sent(ch)) /\ OneOf(waiting, Acks(ch))
    BY <1>1 DEF PlateInv, BatchInv, NoneOut, OneOut
  <2>2. {k \in DOMAIN toPlate : toPlate[k] = Command(SetCmd[ch])}
          = {k \in DOMAIN toPlate : toPlate[k] \in Sent(ch)}
    BY DEF Sent
  <2>3. {k \in DOMAIN waiting : waiting[k].cmd = AckCmd[ch]}
          = {k \in DOMAIN waiting : waiting[k] \in Acks(ch)}
    <3>1. waiting \in Seq(Packets)
      BY <1>1, UnreadTypes DEF PlateInv
    <3>. HIDE DEF waiting
    <3>2. \A k \in DOMAIN waiting : waiting[k] \in Packets
      BY <3>1, LenProperties, ElementOfSeq
    <3>. QED
      BY <3>2 DEF Acks
  <2>4. Outstanding(ch) =
          Cardinality({k \in DOMAIN toPlate : toPlate[k] \in Sent(ch)})
          + Cardinality({k \in DOMAIN waiting : waiting[k] \in Acks(ch)})
    BY <2>2, <2>3 DEF Outstanding
  <2>. HIDE DEF waiting
  <2>5. CASE canSend[ch]
    <3>1. /\ Cardinality({k \in DOMAIN toPlate : toPlate[k] \in Sent(ch)}) = 0
          /\ Cardinality({k \in DOMAIN waiting : waiting[k] \in Acks(ch)}) = 0
      BY <2>1, <2>5, CountNone
    <3>. QED
      BY <2>4, <2>5, <3>1
  <2>6. CASE ~canSend[ch]
    <3>1. CASE OneOf(toPlate, Sent(ch)) /\ NoneOf(waiting, Acks(ch))
      <4>1. /\ Cardinality({k \in DOMAIN toPlate : toPlate[k] \in Sent(ch)}) = 1
            /\ Cardinality({k \in DOMAIN waiting : waiting[k] \in Acks(ch)}) = 0
        BY <3>1, CountNone, CountOne
      <4>. QED
        BY <2>4, <2>6, <4>1
    <3>2. CASE NoneOf(toPlate, Sent(ch)) /\ OneOf(waiting, Acks(ch))
      <4>1. /\ Cardinality({k \in DOMAIN toPlate : toPlate[k] \in Sent(ch)}) = 0
            /\ Cardinality({k \in DOMAIN waiting : waiting[k] \in Acks(ch)}) = 1
        BY <3>2, CountNone, CountOne
      <4>. QED
        BY <2>4, <2>6, <4>1
    <3>. QED
      BY <2>1, <2>6, <3>1, <3>2
  <2>. QED
    BY <2>5, <2>6
<1>. QED
  BY <1>1, PlateInvariant, PTL

=============================================================================
