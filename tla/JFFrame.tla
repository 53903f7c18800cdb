------------------------------- MODULE JFFrame ------------------------------
(***************************************************************************)
(* Frames of the JF plate protocol (hardware/jf_plate.cpp): how they are   *)
(* built, and how onReadyRead finds them in a stream of bytes.             *)
(***************************************************************************)
EXTENDS Naturals, Sequences

Byte == 0 .. 255

\* createSendMsg: the length is one byte, whatever the size of the data.
SendMsg(cmd, serial, data) ==
    <<234, 174, 1, cmd, serial % 256, (serial \div 256) % 256, Len(data) % 256>>
        \o data

HasHeader(buf) == buf[1] = 234 /\ buf[2] = 174

FrameLen(buf) == 7 + buf[7]

\* handlePlatePacket: the command and the data of a whole frame.
Packet(frame) == [cmd |-> frame[4], data |-> SubSeq(frame, 8, Len(frame))]

\* The loop of onReadyRead: the packets it hands on, and what stays in
\* m_recvBuffer.  A byte that begins no header is skipped.
Decode[buf \in Seq(Byte)] ==
    IF Len(buf) < 7
      THEN [packets |-> <<>>, rest |-> buf]
    ELSE IF ~HasHeader(buf)
      THEN Decode[Tail(buf)]
    ELSE IF Len(buf) < FrameLen(buf)
      THEN [packets |-> <<>>, rest |-> buf]
    ELSE LET more == Decode[SubSeq(buf, FrameLen(buf) + 1, Len(buf))]
         IN  [more EXCEPT !.packets = <<Packet(SubSeq(buf, 1, FrameLen(buf)))>> \o @]

=============================================================================
