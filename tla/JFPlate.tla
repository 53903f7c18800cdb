------------------------------- MODULE JFPlate ------------------------------
(***************************************************************************)
(* JFPlate (hardware/jf_plate.cpp): the TCP client of one acquisition      *)
(* board.  Its caller collects outputs and flushes them as one batch; a    *)
(* batch is written only when the board has acknowledged the one before.   *)
(* Everything runs in one thread, between signals of the socket.           *)
(*                                                                         *)
(* There are two channels of outputs, the board's own (setEachDO) and its  *)
(* slave's (setSlaveEachDO), with the same code.  What is written to the   *)
(* board is abstracted to commands, what comes from it is bytes.  Board    *)
(* and network are external; the board greets with a random code and       *)
(* answers every command it understands.                                   *)
(***************************************************************************)
EXTENDS JFFrame, FiniteSets, SequencesExt

CONSTANTS
    RandomCode,     \* the 16 bytes the board greets with
    SerialLimit,    \* 9999 in the code: a serial number is below it
    FirstSerial,    \* 1125 in the code
    Cuts,           \* bound: the bytes that TCP hands over, if not all there are
    MaxPairs,       \* bound: outputs in a batch
    MaxConnects     \* bound: connections in a behaviour

ASSUME PlateAssumption ==
    /\ RandomCode \in Seq(Byte) /\ Len(RandomCode) = 16
    /\ SerialLimit \in Nat /\ FirstSerial \in 1 .. SerialLimit - 1
    /\ Cuts \subseteq Nat \ {0}
    /\ MaxPairs \in 1 .. 127    \* the size of a batch fits its length byte
    /\ MaxConnects \in Nat

VARIABLES
    initialized,    \* m_initialized
    link,           \* the state of m_socket
    canSend,        \* m_canSend and m_scanSend
    queued,         \* pairs in m_waitSendList and m_waitSendList1
    msgSerial,      \* m_msgSerial
    recvBuffer,     \* m_recvBuffer
    toPlate,        \* commands on their way to the board
    fromPlate,      \* bytes on their way from the board
    connects,       \* connections so far
    clean,          \* history: m_recvBuffer was empty when the link came up
    deaf            \* history: channels whose last batch the board cannot answer

vars == <<initialized, link, canSend, queued, msgSerial, recvBuffer, toPlate,
          fromPlate, connects, clean, deaf>>

-----------------------------------------------------------------------------

Channels == {"DO", "Com"}

Links == {"down", "connecting", "up",
          "closing"}    \* disconnectFromHost is waiting to be done

\* JFPlateFlag, the members in use.
GetRandomCode == 0
SetVerifyPassword == 1
GetVerifyReply == 3
SetGetDI == 16
SetGetDO == 17
GetDI == 128
GetDO == 129
SetCmd == [DO |-> 33, Com |-> 40]       \* setDO, setCom
AckCmd == [DO |-> 145, Com |-> 152]     \* getSetDO, getSetCom

\* A command as the board gets it; right: the board understands it.
Command(cmd) == [cmd |-> cmd, right |-> TRUE]

\* createSlaveSendMsg adds the last byte, which resize left uninitialized, to
\* the checksum it stores there: it comes out right or wrong.
Batches(ch) ==
    {[cmd |-> SetCmd[ch], right |-> r] :
        r \in IF ch = "Com" THEN BOOLEAN ELSE {TRUE}}

\* Mutant of NextSerial: the number is not reset.
NextSerialForEver(n) == n + 1

NextSerial(n) == IF n + 1 >= SerialLimit THEN 1 ELSE n + 1

Init ==
    /\ initialized = FALSE
    /\ link = "down"
    /\ canSend = [ch \in Channels |-> TRUE]
    /\ queued = [ch \in Channels |-> 0]
    /\ msgSerial = FirstSerial
    /\ recvBuffer = <<>> /\ toPlate = <<>> /\ fromPlate = <<>>
    /\ connects = 0
    /\ clean = TRUE
    /\ deaf = {}

-----------------------------------------------------------------------------
(* The caller.                                                             *)

\* connectToHost refuses to work on a socket that is still closing.  The board
\* has an address; without one the link never comes up, as when it is lost.
Initialize ==
    /\ ~initialized
    /\ initialized' = TRUE
    /\ canSend' = [ch \in Channels |-> TRUE]
    /\ deaf' = {}
    /\ link' = IF link = "down" THEN "connecting" ELSE link
    /\ UNCHANGED <<queued, msgSerial, recvBuffer, toPlate, fromPlate, connects,
                   clean>>

\* disconnectFromHost; m_recvBuffer and the lists stay as they are.
Cleanup ==
    /\ initialized
    /\ initialized' = FALSE
    /\ \/ link = "up" /\ toPlate = <<>> /\ link' = "down" /\ fromPlate' = <<>>
       \/ link # "down" /\ link' = "closing" /\ UNCHANGED fromPlate
       \/ link = "down" /\ UNCHANGED <<link, fromPlate>>
    /\ UNCHANGED <<canSend, queued, msgSerial, recvBuffer, toPlate, connects,
                   clean, deaf>>

\* setEachDO(false, high, low), setSlaveEachDO(false, high, low)
QueuePair(ch) ==
    /\ initialized
    /\ queued[ch] < MaxPairs
    /\ queued' = [queued EXCEPT ![ch] = @ + 1]
    /\ UNCHANGED <<initialized, link, canSend, msgSerial, recvBuffer, toPlate,
                   fromPlate, connects, clean, deaf>>

\* The batch is written, which fails when the socket is not connected; the
\* channel is closed until the board answers in either case.
WriteBatch(ch) ==
    /\ msgSerial' = NextSerial(msgSerial)
    /\ canSend' = [canSend EXCEPT ![ch] = FALSE]
    /\ \/ /\ link = "up"
          /\ \E batch \in Batches(ch) :
                /\ toPlate' = Append(toPlate, batch)
                /\ deaf' = IF batch.right THEN deaf \ {ch} ELSE deaf \cup {ch}
       \/ /\ link # "up"
          /\ deaf' = deaf \cup {ch}
          /\ UNCHANGED toPlate

\* Mutant of Flush: the batch does not wait for the one before.
FlushAtOnce(ch) ==
    /\ initialized
    /\ IF queued[ch] > 0
         THEN WriteBatch(ch)
         ELSE UNCHANGED <<msgSerial, canSend, toPlate, deaf>>
    /\ queued' = [queued EXCEPT ![ch] = 0]
    /\ UNCHANGED <<initialized, link, recvBuffer, fromPlate, connects, clean>>

\* setEachDO(true, ...), setSlaveEachDO(true, ...): a batch that may not be
\* written is thrown away.
Flush(ch) ==
    /\ initialized
    /\ IF queued[ch] > 0 /\ canSend[ch]
         THEN WriteBatch(ch)
         ELSE UNCHANGED <<msgSerial, canSend, toPlate, deaf>>
    /\ queued' = [queued EXCEPT ![ch] = 0]
    /\ UNCHANGED <<initialized, link, recvBuffer, fromPlate, connects, clean>>

-----------------------------------------------------------------------------
(* Signals of the socket.                                                  *)

\* What handleCommand and plateLogin write in reply to a packet.
Replies(packet) ==
    IF packet.cmd = GetRandomCode /\ Len(packet.data) = 16
      THEN <<Command(SetVerifyPassword)>>
    ELSE IF packet.cmd = GetVerifyReply
      THEN <<Command(SetGetDI), Command(SetGetDO)>>
    ELSE <<>>

\* Mutant of OnReadyRead: an incomplete frame is thrown away.
OnReadyReadForgets(n) ==
    LET found == Decode[recvBuffer \o SubSeq(fromPlate, 1, n)] IN
    /\ link \in {"up", "closing"}
    /\ recvBuffer' = <<>>
    /\ fromPlate' = SubSeq(fromPlate, n + 1, Len(fromPlate))
    /\ canSend' = [ch \in Channels |->
                      \/ canSend[ch]
                      \/ \E packet \in ToSet(found.packets) : packet.cmd = AckCmd[ch]]
    /\ toPlate' = IF link = "up"
                    THEN toPlate \o FlattenSeq([k \in DOMAIN found.packets |->
                                                   Replies(found.packets[k])])
                    ELSE toPlate
    /\ UNCHANGED <<initialized, link, queued, msgSerial, connects, clean, deaf>>

\* readyRead with n bytes: every whole frame is handled, in order.
OnReadyRead(n) ==
    LET found == Decode[recvBuffer \o SubSeq(fromPlate, 1, n)] IN
    /\ link \in {"up", "closing"}
    /\ recvBuffer' = found.rest
    /\ fromPlate' = SubSeq(fromPlate, n + 1, Len(fromPlate))
    /\ canSend' = [ch \in Channels |->
                      \/ canSend[ch]
                      \/ \E packet \in ToSet(found.packets) : packet.cmd = AckCmd[ch]]
    /\ toPlate' = IF link = "up"
                    THEN toPlate \o FlattenSeq([k \in DOMAIN found.packets |->
                                                   Replies(found.packets[k])])
                    ELSE toPlate
    /\ UNCHANGED <<initialized, link, queued, msgSerial, connects, clean, deaf>>

-----------------------------------------------------------------------------
(* The board and the network.                                              *)

\* connected is only logged.  The board greets.
Connected ==
    /\ link = "connecting" /\ connects < MaxConnects
    /\ link' = "up"
    /\ connects' = connects + 1
    /\ clean' = (recvBuffer = <<>>)
    /\ fromPlate' = SendMsg(GetRandomCode, 0, RandomCode)
    /\ UNCHANGED <<initialized, canSend, queued, msgSerial, recvBuffer, toPlate,
                   deaf>>

\* disconnected and errorOccurred are only logged: nobody connects again until
\* the caller has called cleanup() and initialize().
LinkLost ==
    /\ link # "down"
    /\ link' = "down"
    /\ toPlate' = <<>> /\ fromPlate' = <<>>
    /\ UNCHANGED <<initialized, canSend, queued, msgSerial, recvBuffer,
                   connects, clean, deaf>>

\* The board's answer to a command it understands.
AnswerTo(cmd) ==
    CASE cmd = SetVerifyPassword -> SendMsg(GetVerifyReply, 0, <<>>)
      [] cmd = SetGetDI -> SendMsg(GetDI, 0, <<234>>)
      [] cmd = SetGetDO -> SendMsg(GetDO, 0, <<174>>)
      [] cmd = SetCmd["DO"] -> SendMsg(AckCmd["DO"], 0, <<>>)
      [] cmd = SetCmd["Com"] -> SendMsg(AckCmd["Com"], 0, <<>>)

PlateAnswers ==
    /\ link = "up"
    /\ toPlate # <<>>
    /\ toPlate' = Tail(toPlate)
    /\ fromPlate' = IF Head(toPlate).right
                      THEN fromPlate \o AnswerTo(Head(toPlate).cmd)
                      ELSE fromPlate
    /\ UNCHANGED <<initialized, link, canSend, queued, msgSerial, recvBuffer,
                   connects, clean, deaf>>

-----------------------------------------------------------------------------

Receive ==
    \E n \in Cuts \cup {Len(fromPlate)} :
        n \in 1 .. Len(fromPlate) /\ OnReadyRead(n)

Next ==
    \/ Initialize \/ Cleanup
    \/ \E ch \in Channels : QueuePair(ch) \/ Flush(ch)
    \/ Receive \/ Connected \/ LinkLost \/ PlateAnswers

Spec == Init /\ [][Next]_vars

\* The thread serves its socket, and the board answers while the link is up.
FairSpec == Spec /\ WF_vars(Receive) /\ WF_vars(PlateAnswers)

-----------------------------------------------------------------------------

\* Every variable has its type.  In particular no batch grows past its bound and
\* m_msgSerial wraps before it reaches the limit (jf_plate.cpp 123-126).
TypeOK ==
    /\ initialized \in BOOLEAN /\ clean \in BOOLEAN
    /\ link \in Links
    /\ canSend \in [Channels -> BOOLEAN]
    /\ queued \in [Channels -> 0 .. MaxPairs]
    /\ msgSerial \in 1 .. SerialLimit - 1
    /\ recvBuffer \in Seq(Byte) /\ fromPlate \in Seq(Byte)
    /\ \A k \in DOMAIN toPlate : toPlate[k].cmd \in Byte
    /\ connects \in 0 .. MaxConnects
    /\ deaf \subseteq Channels

\* What is still to come on a connection, after what the buffer holds.
Unread == Decode[recvBuffer \o fromPlate]

\* On a connection that began with an empty buffer the receiver never falls out
\* of step, however TCP cuts the bytes and whatever bytes the data are made of:
\* what is left to read is whole frames, to the last byte.
InStep == clean /\ link = "up" => Unread.rest = <<>>

\* Batches of a channel that are written and whose answer is not handled yet.
Outstanding(ch) ==
    Cardinality({k \in DOMAIN toPlate : toPlate[k] = Command(SetCmd[ch])})
    + Cardinality({k \in DOMAIN Unread.packets : Unread.packets[k].cmd = AckCmd[ch]})

\* No batch overtakes its predecessor's answer, and no answer is lost: on such a
\* connection a channel is closed for exactly one batch that is on its way.
OneBatchOutstanding ==
    \A ch \in Channels :
        clean /\ link = "up" /\ ch \notin deaf
            => Outstanding(ch) = IF canSend[ch] THEN 0 ELSE 1

\* While the link is up a batch of outputs that was written is acknowledged in
\* the end, and the next one can be.
ChannelOpensAgain ==
    (clean /\ link = "up" /\ "DO" \notin deaf)
        ~> (canSend["DO"] \/ link # "up")

=============================================================================
