----------------------------- MODULE JFReceiver -----------------------------
(***************************************************************************)
(* JFPlate::onReadyRead on an arbitrary stream: frames, pieces of frames   *)
(* and noise, cut by TCP into any parts.                                   *)
(***************************************************************************)
EXTENDS JFFrame

CONSTANTS
    Pieces,     \* what the plate may send: sequences of bytes
    MaxPieces   \* bound: pieces that are sent

ASSUME PiecesAssumption == Pieces \subseteq Seq(Byte) /\ MaxPieces \in Nat

VARIABLES
    pieces,     \* how many have been sent
    stream,     \* bytes sent and not received yet
    seen,       \* bytes received so far
    recvBuffer, \* m_recvBuffer
    handled     \* the packets given to handleCommand so far

vars == <<pieces, stream, seen, recvBuffer, handled>>

Init ==
    /\ pieces = 0
    /\ stream = <<>> /\ seen = <<>> /\ recvBuffer = <<>> /\ handled = <<>>

Send(piece) ==
    /\ pieces < MaxPieces
    /\ pieces' = pieces + 1
    /\ stream' = stream \o piece
    /\ UNCHANGED <<seen, recvBuffer, handled>>

\* Mutant of OnReadyRead: an incomplete frame is thrown away.
OnReadyReadForgets(n) ==
    LET chunk == SubSeq(stream, 1, n)
        found == Decode[recvBuffer \o chunk]
    IN  /\ handled' = handled \o found.packets
        /\ recvBuffer' = <<>>
        /\ seen' = seen \o chunk
        /\ stream' = SubSeq(stream, n + 1, Len(stream))
        /\ UNCHANGED pieces

\* Mutant of OnReadyRead: one frame at most for a signal.
OnReadyReadOnce(n) ==
    LET chunk == SubSeq(stream, 1, n)
        buf == recvBuffer \o chunk
        whole == Len(buf) >= 7 /\ HasHeader(buf) /\ Len(buf) >= FrameLen(buf)
    IN  /\ handled' = IF whole
                        THEN Append(handled, Packet(SubSeq(buf, 1, FrameLen(buf))))
                        ELSE handled
        /\ recvBuffer' = IF whole THEN SubSeq(buf, FrameLen(buf) + 1, Len(buf))
                                  ELSE Decode[buf].rest
        /\ seen' = seen \o chunk
        /\ stream' = SubSeq(stream, n + 1, Len(stream))
        /\ UNCHANGED pieces

\* readyRead with n bytes to read.
OnReadyRead(n) ==
    LET chunk == SubSeq(stream, 1, n)
        found == Decode[recvBuffer \o chunk]
    IN  /\ handled' = handled \o found.packets
        /\ recvBuffer' = found.rest
        /\ seen' = seen \o chunk
        /\ stream' = SubSeq(stream, n + 1, Len(stream))
        /\ UNCHANGED pieces

Next ==
    \/ \E piece \in Pieces : Send(piece)
    \/ \E n \in 1 .. Len(stream) : OnReadyRead(n)

Spec == Init /\ [][Next]_vars

-----------------------------------------------------------------------------

\* How TCP cuts the stream does not matter: the packets handled and the bytes
\* kept are those of the whole stream read at once (jf_plate.cpp 187-205).
CutsDoNotMatter ==
    /\ handled = Decode[seen].packets
    /\ recvBuffer = Decode[seen].rest

\* Between two signals the buffer is the beginning of one frame and no more, so
\* it never outgrows the largest frame.
BufferIsOneFrame ==
    \/ Len(recvBuffer) < 7
    \/ HasHeader(recvBuffer) /\ Len(recvBuffer) < FrameLen(recvBuffer)

=============================================================================
