------------------------------ MODULE NENetProofs ------------------------------
(***************************************************************************)
(* Theorems about NENet, for any two ports and any number of datagrams,    *)
(* without assuming fairness.                                              *)
(*                                                                         *)
(* The proofs of UdpInterfaceProofs are used as they stand: Agreed says    *)
(* that every step of the program is one of UdpInterface or leaves it      *)
(* alone, so that the invariant IndInv of the transport holds here too.    *)
(* On top of it                                                            *)
(*                                                                         *)
(*   ClientInv  a thread has something left to send only while it may,     *)
(*   StageInv   what main() has done by the stage it is at,                *)
(*   ExitInv    which workers the clean-up has behind it, in port order,   *)
(*   SendInv    through which ports a thread sends,                        *)
(*   FirstInv   what holds when the interface port is the smaller one.     *)
(*                                                                         *)
(* Udp is NENet's own instance of the transport, UP the one that has the   *)
(* theorems; SameState to SameNext say that they are one.                  *)
(***************************************************************************)
EXTENDS NENet, SequenceTheorems, TLAPS

UP == INSTANCE UdpInterfaceProofs

\* A port is a positive number of 16 bits, and so none is the main thread's 0.
LEMMA PortNumbers ==
  /\ Ports \subseteq Nat /\ Main \in Nat \ Ports /\ MaxDatagrams \in Nat
  /\ \A c \in Configs : quint16(c.nec) \in Ports /\ quint16(c.interface) \in Ports
<1>1. ASSUME NEW c \in Configs
      PROVE  quint16(c.nec) \in Nat \ {0} /\ quint16(c.interface) \in Nat \ {0}
  <2>1. /\ c.nec \in Int /\ c.interface \in Int
        /\ quint16(c.nec) # 0 /\ quint16(c.interface) # 0
    BY PortAssumption
  <2>2. \A n \in Int : n % 65536 \in Nat
    OBVIOUS
  <2>. QED
    BY <2>1, <2>2 DEF quint16
<1>2. MaxDatagrams \in Nat
  BY PortAssumption
<1>. QED
  BY <1>1, <1>2 DEF Ports, Main

\* Both instances of the transport begin alike and have the same types.
LEMMA SameState ==
    /\ Udp!Init = UP!Init /\ Udp!vars = UP!vars /\ Udp!TypeOK = UP!TypeOK
    /\ Udp!NoOp = UP!NoOp /\ Udp!NoCall = UP!NoCall
    /\ Threads = UP!Threads
<1>1. Udp!NoOp = UP!NoOp /\ Udp!NoCall = UP!NoCall
  BY DEF Udp!NoOp, UP!NoOp, Udp!NoCall, UP!NoCall
<1>2. Udp!Init = UP!Init
  BY DEF Udp!Init, UP!Init, Udp!NoCall, UP!NoCall, Udp!NoOp, UP!NoOp, Udp!Threads, UP!Threads
<1>3. Udp!vars = UP!vars
  BY DEF Udp!vars, UP!vars
<1>4. Udp!TypeOK = UP!TypeOK
  BY DEF Udp!TypeOK, UP!TypeOK, Udp!ThreadStates, UP!ThreadStates, Udp!SocketStates,
         UP!SocketStates, Udp!Calls, UP!Calls, Udp!Ops, UP!Ops, Udp!Threads, UP!Threads,
         Udp!CallSteps, UP!CallSteps, Udp!OpKinds, UP!OpKinds, Udp!OpSteps, UP!OpSteps
<1>. QED
  BY <1>1, <1>2, <1>3, <1>4 DEF Threads, UP!Threads

\* The operations of the main thread are the same in both.
LEMMA SameMainSteps ==
    /\ Udp!OpStep = UP!OpStep /\ Udp!Cleanup = UP!Cleanup
    /\ Udp!ConnectClient = UP!ConnectClient
    /\ \A p : Udp!BindToPort(p) = UP!BindToPort(p)
<1>1. Udp!OpStep = UP!OpStep
  BY DEF Udp!OpStep, UP!OpStep, Udp!StoreWorker, UP!StoreWorker, Udp!StopWorker,
         UP!StopWorker, Udp!WaitWorker, UP!WaitWorker, Udp!DeleteWorker, UP!DeleteWorker,
         Udp!RemoveKey, UP!RemoveKey, Udp!ClearMap, UP!ClearMap, Udp!NoOp, UP!NoOp,
         Udp!IsNext, UP!IsNext, Udp!Joined, UP!Joined, Udp!Threads, UP!Threads
<1>2. Udp!Cleanup = UP!Cleanup
  BY DEF Udp!Cleanup, UP!Cleanup, Udp!NoOp, UP!NoOp
<1>3. Udp!ConnectClient = UP!ConnectClient
  BY DEF Udp!ConnectClient, UP!ConnectClient, Udp!NoOp, UP!NoOp
<1>4. ASSUME NEW p PROVE Udp!BindToPort(p) = UP!BindToPort(p)
  BY DEF Udp!BindToPort, UP!BindToPort, Udp!NoOp, UP!NoOp
<1>. QED
  BY <1>1, <1>2, <1>3, <1>4

\* So are the steps of a worker thread,
LEMMA SameWorkerSteps ==
  ASSUME NEW p
  PROVE  /\ Udp!RunBind(p) = UP!RunBind(p)
         /\ Udp!RunBindFails(p) = UP!RunBindFails(p)
         /\ Udp!RunConnectSlots(p) = UP!RunConnectSlots(p)
         /\ Udp!ReadyRead(p) = UP!ReadyRead(p)
         /\ Udp!ReadDatagram(p) = UP!ReadDatagram(p)
         /\ Udp!HandlerReturns(p) = UP!HandlerReturns(p)
         /\ Udp!ReadDone(p) = UP!ReadDone(p)
         /\ Udp!LoopQuits(p) = UP!LoopQuits(p)
         /\ Udp!CloseSocket(p) = UP!CloseSocket(p)
         /\ Udp!DeleteSocket(p) = UP!DeleteSocket(p)
         /\ Udp!NullSocket(p) = UP!NullSocket(p)
         /\ Udp!Arrive(p) = UP!Arrive(p)
<1>. USE DEF Udp!Goes, UP!Goes, Udp!NoCall, UP!NoCall
<1>1. Udp!RunBind(p) = UP!RunBind(p) /\ Udp!RunBindFails(p) = UP!RunBindFails(p)
  BY DEF Udp!RunBind, UP!RunBind, Udp!RunBindFails, UP!RunBindFails
<1>2. Udp!RunConnectSlots(p) = UP!RunConnectSlots(p) /\ Udp!ReadyRead(p) = UP!ReadyRead(p)
  BY DEF Udp!RunConnectSlots, UP!RunConnectSlots, Udp!ReadyRead, UP!ReadyRead
<1>3. Udp!ReadDatagram(p) = UP!ReadDatagram(p) /\ Udp!ReadDone(p) = UP!ReadDone(p)
  BY DEF Udp!ReadDatagram, UP!ReadDatagram, Udp!ReadDone, UP!ReadDone
<1>4. Udp!HandlerReturns(p) = UP!HandlerReturns(p) /\ Udp!LoopQuits(p) = UP!LoopQuits(p)
  BY DEF Udp!HandlerReturns, UP!HandlerReturns, Udp!LoopQuits, UP!LoopQuits
<1>5. Udp!CloseSocket(p) = UP!CloseSocket(p) /\ Udp!DeleteSocket(p) = UP!DeleteSocket(p)
  BY DEF Udp!CloseSocket, UP!CloseSocket, Udp!DeleteSocket, UP!DeleteSocket
<1>6. Udp!NullSocket(p) = UP!NullSocket(p) /\ Udp!Arrive(p) = UP!Arrive(p)
  BY DEF Udp!NullSocket, UP!NullSocket, Udp!Arrive, UP!Arrive
<1>. QED
  BY <1>1, <1>2, <1>3, <1>4, <1>5, <1>6

\* and those of a send.
LEMMA SameCallSteps ==
  ASSUME NEW t
  PROVE  /\ Udp!CallStep(t) = UP!CallStep(t)
         /\ \A p : Udp!SendBytesByPort(t, p) = UP!SendBytesByPort(t, p)
<1>. USE DEF Udp!MoveCall, UP!MoveCall, Udp!NoCall, UP!NoCall
<1>1. Udp!CallStep(t) = UP!CallStep(t)
  BY DEF Udp!CallStep, UP!CallStep, Udp!LookupWorker, UP!LookupWorker, Udp!EmitRequest,
         UP!EmitRequest, Udp!CheckSocket, UP!CheckSocket, Udp!WriteDatagram,
         UP!WriteDatagram, Udp!UseDeletedWorker, UP!UseDeletedWorker
<1>2. ASSUME NEW p PROVE Udp!SendBytesByPort(t, p) = UP!SendBytesByPort(t, p)
  BY DEF Udp!SendBytesByPort, UP!SendBytesByPort
<1>. QED
  BY <1>1, <1>2

\* The steps of main() that do nothing in the transport.
MainAlone ==
    \/ LoadConfig \/ OpenDatabase \/ LoadFails \/ LoadLists \/ BindInterfaceRefused
    \/ Initialized \/ Quit \/ CloseData \/ KeyPressed \/ DestroyMeta \/ DestroyData

\* They leave it alone and are taken between two calls; main() has sent both its
\* messages (meta_manage.cpp 77-81) when it goes on.
LEMMA MainAloneFrame ==
  ASSUME MainAlone
  PROVE  /\ UNCHANGED udpVars /\ UNCHANGED <<config, script>>
         /\ op = UP!NoOp /\ call[Main] = UP!NoCall
         /\ stage = "announce" => script[Main] = <<>>
BY SameState DEF MainAlone, MainDoes, MainGoes, LoadConfig, OpenDatabase, LoadFails, LoadLists,
   BindInterfaceRefused, Initialized, Quit, CloseData, KeyPressed, DestroyMeta, DestroyData

\* Every step is one of these, whatever the thread.
LEMMA Cases ==
  ASSUME [Next]_vars
  PROVE  \/ MainAlone \/ BindNec \/ BindInterface \/ Connect \/ StopUdp \/ DestroyUdp
         \/ OpStep
         \/ \E p \in Ports : Receive(p) \/ HandlerEnds(p) \/ WorkerStep(p) \/ Arrive(p)
         \/ \E t \in Threads : SendNext(t) \/ CallStep(t)
         \/ UNCHANGED vars
BY Zenon DEF Next, MainStep, ThreadStep, SendStep, MainAlone

\* Only main() while it announces NENet, and a thread in a handler, after the
\* signals have been connected (meta_manage.cpp 60-72), have something left to send.
ClientInv ==
    /\ config \in Configs
    /\ script \in [Threads -> Seq(Ports)]
    /\ script[Main] # <<>> => stage = "announce" /\ op = UP!NoOp
    /\ \A p \in Ports : script[p] # <<>> => connected /\ thread[p] = "handling"

\* Every step of the program is one that UdpInterface allows its client, or leaves
\* the transport alone.
LEMMA Agreed ==
  ASSUME UP!IndInv, ClientInv, [Next]_vars
  PROVE  [UP!Next]_(UP!vars)
<1>. USE DEF ClientInv
<1>0. Main \in Threads /\ NecPort \in Ports /\ InterfacePort \in Ports /\ Threads = UP!Threads
  BY PortNumbers, SameState DEF Threads, NecPort, InterfacePort
<1>1. CASE UNCHANGED udpVars
  BY <1>1 DEF udpVars, UP!vars
<1>2. CASE MainAlone
  BY <1>1, <1>2, MainAloneFrame
<1>3. CASE ~crashed
  <2>1. CASE BindNec \/ BindInterface
    <3>1. call[Main] = UP!NoCall /\ \E p \in Ports : UP!BindToPort(p)
      BY <1>0, <2>1, SameState, SameMainSteps DEF BindNec, BindInterface, MainGoes
    <3>. QED
      BY <1>3, <3>1 DEF UP!Next, UP!MainStarts
  <2>2. CASE Connect \/ StopUdp \/ DestroyUdp
    <3>1. call[Main] = UP!NoCall /\ (UP!ConnectClient \/ UP!Cleanup)
      BY <2>2, SameState, SameMainSteps
         DEF Connect, StopUdp, StopUdpWith, DestroyUdp, MainGoes
    <3>. QED
      BY <1>3, <3>1 DEF UP!Next, UP!MainStarts
  <2>3. CASE OpStep
    <3>1. UP!OpStep
      BY <2>3, SameMainSteps DEF OpStep
    <3>2. op.at # "idle"
      BY <3>1 DEF UP!OpStep, UP!StoreWorker, UP!StopWorker, UP!WaitWorker, UP!DeleteWorker,
                  UP!RemoveKey, UP!ClearMap
    <3>3. call[Main] = UP!NoCall
      BY <3>2 DEF UP!IndInv, UP!CallInv, UP!NoOp
    <3>. QED
      BY <1>3, <3>1, <3>3 DEF UP!Next
  <2>4. ASSUME NEW p \in Ports, Receive(p) \/ HandlerEnds(p) \/ WorkerStep(p) \/ Arrive(p)
        PROVE  [UP!Next]_(UP!vars)
    <3>1. UP!RunStep(p) \/ UP!Arrive(p)
      BY <2>4, SameWorkerSteps DEF Receive, HandlerEnds, WorkerStep, Arrive, UP!RunStep
    <3>. QED
      BY <1>3, <3>1 DEF UP!Next
  <2>5. ASSUME NEW t \in Threads, SendNext(t) PROVE [UP!Next]_(UP!vars)
    <3>1. script[t] # <<>> /\ UP!SendBytesByPort(t, Head(script[t]))
      BY <2>5, SameCallSteps DEF SendNext
    <3>2. Head(script[t]) \in Ports
      BY <3>1
    <3>3. UP!RunsClient(t)
      BY <2>5, <3>1 DEF UP!RunsClient, Threads
    <3>. QED
      BY <1>0, <1>3, <3>1, <3>2, <3>3 DEF UP!Next, UP!ClientSends
  <2>6. ASSUME NEW t \in Threads, CallStep(t) PROVE [UP!Next]_(UP!vars)
    BY <1>0, <1>3, <2>6, SameCallSteps DEF CallStep, UP!Next
  <2>. QED
    BY <1>1, <1>2, <2>1, <2>2, <2>3, <2>4, <2>5, <2>6, Cases DEF vars
<1>4. CASE crashed
  BY <1>1, <1>4 DEF Next, vars
<1>. QED
  BY <1>3, <1>4

\* A worker that is in UDPWorker::cleanup, its loop ended.
Closing == {"closing", "deleting", "nulling"}

\* What a step of the worker thread of p may change: its own thread and socket.  It
\* cleans up after quit() only, and a socket that is open stays so until then.
ThreadMoves(p) ==
    /\ UNCHANGED <<mapped, alive, exited, connected, call, op, config, stage, ready>>
    /\ \A q \in Ports \ {p} : thread'[q] = thread[q] /\ socket'[q] = socket[q]
    /\ thread[p] # "none" /\ thread'[p] # "none"
    /\ thread'[p] \in Closing => thread[p] \in Closing \/ p \in exited
    /\ \/ socket'[p] = socket[p]
       \/ socket'[p] = "open"
       \/ thread[p] \in Closing

\* The steps of a worker outside a handler change no more, and begin no handler.
LEMMA WorkerFrame ==
  ASSUME UP!TypeOK, NEW p \in Ports, WorkerStep(p)
  PROVE  ThreadMoves(p) /\ UNCHANGED script
         /\ thread[p] # "handling" /\ thread'[p] # "handling"
<1>. USE DEF Udp!Goes, Closing
<1>0. /\ thread \in [Ports -> UP!ThreadStates] /\ socket \in [Ports -> UP!SocketStates]
      /\ UNCHANGED <<config, stage, ready, script>>
  BY DEF UP!TypeOK, WorkerStep
<1>1. CASE Udp!RunBind(p) \/ Udp!RunBindFails(p) \/ Udp!RunConnectSlots(p)
  BY <1>0, <1>1 DEF Udp!RunBind, Udp!RunBindFails, Udp!RunConnectSlots, ThreadMoves
<1>2. CASE Udp!ReadyRead(p) \/ Udp!ReadDone(p) \/ Udp!LoopQuits(p)
  BY <1>0, <1>2 DEF Udp!ReadyRead, Udp!ReadDone, Udp!LoopQuits, ThreadMoves
<1>3. CASE Udp!CloseSocket(p) \/ Udp!DeleteSocket(p) \/ Udp!NullSocket(p)
  BY <1>0, <1>3 DEF Udp!CloseSocket, Udp!DeleteSocket, Udp!NullSocket, ThreadMoves
<1>. QED
  BY <1>1, <1>2, <1>3 DEF WorkerStep

\* Nor do the beginning and the end of a handler.
LEMMA HandlerFrame ==
  ASSUME UP!TypeOK, NEW p \in Ports, Receive(p) \/ HandlerEnds(p)
  PROVE  ThreadMoves(p) /\ socket' = socket /\ thread[p] \in {"reading", "handling"}
BY DEF UP!TypeOK, Receive, HandlerEnds, Udp!ReadDatagram, Udp!HandlerReturns, Udp!Goes,
       ThreadMoves, Closing

\* What a step of a send of t may change: the call of t.
CallMoves(t) ==
    /\ UNCHANGED <<mapped, alive, thread, socket, slot, exited, connected, op>>
    /\ UNCHANGED <<config, stage, ready>>
    /\ \A s \in Threads \ {t} : call'[s] = call[s]

\* The steps of a send change no more.
LEMMA CallFrame ==
  ASSUME UP!TypeOK, NEW t \in Threads, SendNext(t) \/ CallStep(t)
  PROVE  CallMoves(t)
<1>. USE DEF Udp!MoveCall
<1>1. DOMAIN call = Threads
  BY SameState DEF UP!TypeOK
<1>2. CASE SendNext(t)
  BY <1>1, <1>2 DEF SendNext, Udp!SendBytesByPort, CallMoves
<1>3. CASE CallStep(t)
  BY <1>1, <1>3 DEF CallStep, Udp!CallStep, Udp!LookupWorker, Udp!EmitRequest,
     Udp!CheckSocket, Udp!WriteDatagram, Udp!UseDeletedWorker, CallMoves
<1>. QED
  BY <1>2, <1>3

\* A datagram that arrives changes its inbox only.
LEMMA ArriveFrame ==
  ASSUME NEW p \in Ports, Arrive(p)
  PROVE  /\ UNCHANGED <<mapped, alive, thread, socket, slot, exited, connected, op, call>>
         /\ UNCHANGED <<config, stage, ready, script>>
BY DEF Arrive, Udp!Arrive

\* An operation of the main thread changes neither main()'s stage nor what is sent.
OpKeeps ==
    /\ UNCHANGED <<connected, config, stage, ready, script>>
    /\ op.kind # "none" /\ call[Main] = UP!NoCall

\* The worker of p, its thread joined, is deleted; sends that hold it lose it.
Deletes(p) ==
    /\ op.at = "delete" /\ Udp!IsNext(p) /\ Udp!Joined(p)
    /\ mapped' = mapped /\ alive' = alive \ {p} /\ exited' = exited \cup {p}
    /\ thread' = [thread EXCEPT ![p] = "none"] /\ socket' = [socket EXCEPT ![p] = "null"]
    /\ call' = [t \in Threads |->
                   IF call[t].port = p THEN [call[t] EXCEPT !.live = FALSE] ELSE call[t]]
    /\ op.kind = "cleanup" => op'.kind = "cleanup" /\ op'.todo = op.todo \ {p}

\* What a step of an operation does: it deletes a worker, stores one, stops one or
\* joins its thread (udp_interface.cpp 26-44), or ends the operation.
LEMMA OpCases ==
  ASSUME UP!IndInv, OpStep
  PROVE  /\ OpKeeps
         /\ \/ \E p \in Ports : Deletes(p)
            \/ UNCHANGED <<alive, thread, socket, call>> /\
               \/ /\ op.kind = "bind" /\ op' = UP!NoOp /\ exited' = exited
                  /\ mapped' = mapped \cup op.todo
               \/ /\ mapped' = mapped /\ op'.kind = op.kind /\ op'.todo = op.todo
                  /\ op.kind # "bind"
                  /\ \/ exited' = exited
                     \/ \E p \in Ports : Udp!IsNext(p) /\ exited' = exited \cup {p}
               \/ /\ op.kind = "unbind" /\ op' = UP!NoOp
               \/ /\ op.kind = "cleanup" /\ op.todo = {} /\ op' = UP!NoOp /\ mapped' = {}
                  /\ exited' = exited
<1>. DEFINE Goal ==
         /\ OpKeeps
         /\ \/ \E p \in Ports : Deletes(p)
            \/ UNCHANGED <<alive, thread, socket, call>> /\
               \/ /\ op.kind = "bind" /\ op' = UP!NoOp /\ exited' = exited
                  /\ mapped' = mapped \cup op.todo
               \/ /\ mapped' = mapped /\ op'.kind = op.kind /\ op'.todo = op.todo
                  /\ op.kind # "bind"
                  /\ \/ exited' = exited
                     \/ \E p \in Ports : Udp!IsNext(p) /\ exited' = exited \cup {p}
               \/ /\ op.kind = "unbind" /\ op' = UP!NoOp
               \/ /\ op.kind = "cleanup" /\ op.todo = {} /\ op' = UP!NoOp /\ mapped' = {}
                  /\ exited' = exited
<1>0. /\ UP!OpInv /\ UP!CallInv /\ UP!TypeOK /\ Udp!NoOp = UP!NoOp
  BY SameState DEF UP!IndInv
<1>t. op \in [kind : UP!OpKinds, at : UP!OpSteps, todo : SUBSET Ports]
  BY <1>0 DEF UP!TypeOK, UP!Ops
<1>1. OpKeeps
  <2>1. op.at # "idle" /\ connected' = connected
    BY DEF OpStep, Udp!OpStep, Udp!StoreWorker, Udp!StopWorker, Udp!WaitWorker,
           Udp!DeleteWorker, Udp!RemoveKey, Udp!ClearMap
  <2>2. op.kind # "none"
    BY <1>0, <2>1 DEF UP!OpInv, UP!NoOp
  <2>. QED
    BY <1>0, <2>1, <2>2 DEF OpKeeps, OpStep, UP!CallInv, UP!NoOp
<1>2. ASSUME NEW p \in Ports, Udp!StoreWorker(p) PROVE Goal
  <2>1. op.kind = "bind" /\ op.todo = {p}
    BY <1>0, <1>t, <1>1, <1>2 DEF UP!OpInv, Udp!StoreWorker, UP!OpKinds, OpKeeps
  <2>. QED
    BY <1>0, <1>1, <1>2, <2>1 DEF Udp!StoreWorker
<1>3. ASSUME NEW p \in Ports, Udp!StopWorker(p) PROVE Goal
  BY <1>0, <1>1, <1>t, <1>3 DEF Udp!StopWorker, UP!OpInv
<1>4. ASSUME NEW p \in Ports, Udp!WaitWorker(p) PROVE Goal
  BY <1>0, <1>1, <1>t, <1>4 DEF Udp!WaitWorker, UP!OpInv
<1>5. ASSUME NEW p \in Ports, Udp!DeleteWorker(p) PROVE Goal
  <2>1. op.kind = "cleanup" => op'.kind = "cleanup" /\ op'.todo = op.todo \ {p}
    BY <1>t, <1>5 DEF Udp!DeleteWorker
  <2>2. Deletes(p)
    BY <1>5, <2>1, SameState DEF Udp!DeleteWorker, Deletes, Udp!Threads, Threads
  <2>. QED
    BY <1>1, <2>2
<1>6. ASSUME NEW p \in Ports, Udp!RemoveKey(p) PROVE Goal
  <2>1. op.kind = "unbind"
    BY <1>0, <1>t, <1>1, <1>6 DEF UP!OpInv, Udp!RemoveKey, UP!OpKinds, OpKeeps
  <2>. QED
    BY <1>0, <1>1, <1>6, <2>1 DEF Udp!RemoveKey
<1>7. ASSUME Udp!ClearMap PROVE Goal
  <2>1. op.kind = "cleanup" /\ op.todo = {}
    BY <1>0, <1>t, <1>1, <1>7 DEF UP!OpInv, Udp!ClearMap, UP!OpKinds, OpKeeps
  <2>. QED
    BY <1>0, <1>1, <1>7, <2>1 DEF Udp!ClearMap
<1>. QED
  BY <1>2, <1>3, <1>4, <1>5, <1>6, <1>7 DEF OpStep, Udp!OpStep

\* It holds initially.
LEMMA ClientInit == Init => ClientInv
BY SameState DEF Init, ClientInv, Udp!Init, Threads

\* A handler sends through bound ports.
LEMMA ScriptTypes ==
  ASSUME config \in Configs, NEW p \in Ports
  PROVE  Scripts(p) \subseteq Seq(Ports)
<1>1. NecPort \in Ports /\ InterfacePort \in Ports
  BY PortNumbers DEF NecPort, InterfacePort
<1>2. \A a, b \in Ports : {<<>>, <<a>>, <<a, b>>} \subseteq Seq(Ports)
  OBVIOUS
<1>. QED
  BY <1>1, <1>2 DEF Scripts

\* Every step keeps it.
LEMMA ClientStep == UP!IndInv /\ ClientInv /\ [Next]_vars => ClientInv'
<1>. SUFFICES ASSUME UP!IndInv, ClientInv, [Next]_vars PROVE ClientInv'
  OBVIOUS
<1>0. /\ UP!TypeOK /\ thread \in [Ports -> UP!ThreadStates]
      /\ Main \in Threads /\ Main \notin Ports /\ Ports \subseteq Threads
      /\ NecPort \in Ports /\ InterfacePort \in Ports
  BY PortNumbers DEF UP!IndInv, UP!TypeOK, Threads, NecPort, InterfacePort, ClientInv
<1>1. CASE MainAlone
  <2>1. /\ UNCHANGED <<connected, thread, op, config, script>>
        /\ stage = "announce" => script[Main] = <<>>
    BY <1>1, MainAloneFrame DEF udpVars
  <2>. QED
    BY <2>1 DEF ClientInv
<1>2. CASE BindNec \/ BindInterface
  <2>1. /\ UNCHANGED <<connected, config, script>> /\ ~connected /\ stage # "announce"
    BY <1>2 DEF BindNec, BindInterface, MainGoes, Udp!BindToPort
  <2>. QED
    BY <2>1 DEF ClientInv
<1>3. CASE Connect
  <2>1. /\ ~connected /\ stage' = "announce" /\ config' = config /\ op' = UP!NoOp
        /\ script' = [script EXCEPT ![Main] = <<NecPort, NecPort>>]
    BY <1>3, SameState DEF Connect, MainGoes, Udp!ConnectClient
  <2>2. \A p \in Ports : script'[p] = <<>>
    BY <1>0, <2>1 DEF ClientInv
  <2>3. script' \in [Threads -> Seq(Ports)]
    BY <1>0, <2>1 DEF ClientInv
  <2>. QED
    BY <2>1, <2>2, <2>3 DEF ClientInv
<1>4. CASE StopUdp \/ DestroyUdp
  <2>1. /\ UNCHANGED <<connected, config, script, thread>> /\ stage # "announce"
    BY <1>4 DEF StopUdp, StopUdpWith, DestroyUdp, MainGoes, Udp!Cleanup
  <2>. QED
    BY <2>1 DEF ClientInv
<1>5. CASE OpStep
  <2>1. UNCHANGED <<connected, config, script>> /\ op.kind # "none"
    BY <1>5, OpCases DEF OpKeeps
  <2>2. \A p \in Ports : thread'[p] = thread[p] \/ thread[p] # "handling"
    BY <1>0, <1>5, OpCases DEF Deletes, Udp!Joined
  <2>. QED
    BY <2>1, <2>2 DEF ClientInv, UP!NoOp
<1>6. ASSUME NEW p \in Ports, Receive(p) PROVE ClientInv'
  <2>1. ThreadMoves(p) /\ thread[p] = "reading"
    BY <1>0, <1>6, HandlerFrame DEF Receive, Udp!ReadDatagram, Udp!Goes
  <2>2. \/ script' = script
        \/ /\ connected /\ thread'[p] = "handling"
           /\ \E s \in Seq(Ports) : script' = [script EXCEPT ![p] = s]
    BY <1>6, ScriptTypes DEF Receive, ClientInv
  <2>3. script[p] = <<>>
    BY <2>1 DEF ClientInv
  <2>4. script' \in [Threads -> Seq(Ports)] /\ script'[Main] = script[Main]
    BY <1>0, <2>2 DEF ClientInv
  <2>5. \A q \in Ports : script'[q] # <<>> => connected' /\ thread'[q] = "handling"
    BY <1>0, <2>1, <2>2, <2>3 DEF ClientInv, ThreadMoves
  <2>. QED
    BY <2>1, <2>4, <2>5 DEF ClientInv, ThreadMoves
<1>7. ASSUME NEW p \in Ports, HandlerEnds(p) \/ WorkerStep(p) PROVE ClientInv'
  <2>1. ThreadMoves(p) /\ script' = script /\ script[p] = <<>>
    BY <1>0, <1>7, HandlerFrame, WorkerFrame DEF HandlerEnds, ClientInv
  <2>. QED
    BY <2>1 DEF ClientInv, ThreadMoves
<1>8. ASSUME NEW p \in Ports, Arrive(p) PROVE ClientInv'
  BY <1>8, ArriveFrame DEF ClientInv
<1>9. ASSUME NEW t \in Threads, SendNext(t) PROVE ClientInv'
  <2>1. CallMoves(t) /\ script[t] # <<>> /\ script' = [script EXCEPT ![t] = Tail(script[t])]
    BY <1>0, <1>9, CallFrame DEF SendNext
  <2>2. Tail(script[t]) \in Seq(Ports)
    BY <2>1 DEF ClientInv
  <2>. QED
    BY <1>0, <2>1, <2>2 DEF ClientInv, CallMoves
<1>10. ASSUME NEW t \in Threads, CallStep(t) PROVE ClientInv'
  BY <1>0, <1>10, CallFrame DEF ClientInv, CallMoves, CallStep
<1>11. CASE UNCHANGED vars
  BY <1>11 DEF ClientInv, vars, udpVars
<1>. QED
  BY <1>1, <1>2, <1>3, <1>4, <1>5, <1>6, <1>7, <1>8, <1>9, <1>10, <1>11, Cases

\* The invariant of the transport holds in the program.
LEMMA TransportInvariant == Spec => [](UP!IndInv /\ ClientInv)
<1>1. Init => UP!IndInv /\ ClientInv
  BY ClientInit, SameState, UP!InitIndInv, PortNumbers, Zenon DEF Init
<1>2. UP!IndInv /\ ClientInv /\ [Next]_vars => (UP!IndInv /\ ClientInv)'
  BY ClientStep, Agreed, UP!Inductive, PortNumbers, Zenon
<1>. QED
  BY <1>1, <1>2, PTL DEF Spec

\* Both instances take the same steps.
LEMMA SameNext == Udp!Next = UP!Next
<1>1. \A p \in Ports : Udp!RunStep(p) = UP!RunStep(p) /\ Udp!Arrive(p) = UP!Arrive(p)
  BY SameWorkerSteps DEF Udp!RunStep, UP!RunStep
<1>2. \A p \in Ports : Udp!UnbindFromPort(p) = UP!UnbindFromPort(p)
  BY SameState DEF Udp!UnbindFromPort, UP!UnbindFromPort
<1>3. Udp!MainStarts = UP!MainStarts
  BY <1>2, SameMainSteps DEF Udp!MainStarts, UP!MainStarts
<1>4. \A t : Udp!SendBytes(t) = UP!SendBytes(t)
  BY SameCallSteps DEF Udp!SendBytes, UP!SendBytes
<1>5. \A t : Udp!RunsClient(t) = UP!RunsClient(t)
  BY SameState DEF Udp!RunsClient, UP!RunsClient
<1>6. \A t : Udp!ClientSends(t) = UP!ClientSends(t)
  BY <1>4, <1>5, SameCallSteps DEF Udp!ClientSends, UP!ClientSends
<1>. QED
  BY <1>1, <1>3, <1>6, SameState, SameMainSteps, SameCallSteps
     DEF Udp!Next, UP!Next, Udp!Threads, UP!Threads

\* The program keeps to what UdpInterface asks of its client (meta_manage.cpp 40-81,
\* startup.cpp 13-84): what is proved of the transport for any such client holds
\* of it.
THEOREM UsesTransport == Spec => UsesUdpAsAgreed
<1>1. UP!IndInv /\ ClientInv /\ [Next]_vars => [Udp!Next]_(Udp!vars)
  BY Agreed, SameNext DEF Udp!vars, UP!vars
<1>2. Init => Udp!Init
  BY DEF Init
<1>. QED
  BY <1>1, <1>2, TransportInvariant, PTL DEF Spec, UsesUdpAsAgreed, Udp!Spec

\* The stages with the lists loaded and nothing of them freed.
Loaded == {"bindNec", "bindInterface", "connect", "announce", "cli", "stopping", "closing"}
\* The stages after main() has returned.
Over == {"returned", "udpDestroyed", "metaDestroyed", "ended"}

\* What there is, and which operation may run, at each stage; once the clean-up of
\* the workers is over the map is empty.  After a failed start main() returns with
\* a worker in the map, but then no signal is connected.
StageInv ==
    /\ stage \in Stages
    /\ stage = "config" => ready = {}
    /\ stage = "database" => ready = {"config"}
    /\ stage = "lists" => ready = {"config", "database"}
    /\ stage \in Loaded => ready = Data
    /\ ready \subseteq Data
    /\ connected => stage \in {"announce", "cli", "stopping", "closing"} \cup Over
    /\ op.kind = "bind" => stage \in {"bindInterface", "connect"}
    /\ op.kind # "unbind"
    /\ op.kind = "cleanup" => stage \in {"closing", "udpDestroyed"}
    /\ stage \in Over /\ connected => mapped = {}
    /\ stage \in {"closing", "udpDestroyed", "metaDestroyed", "ended"} /\ op.kind = "none"
          => mapped = {}

\* It holds initially.
LEMMA StageInit == Init => StageInv
BY DEF Init, StageInv, Udp!Init, Udp!NoOp, Stages, Loaded, Over, Data

\* Every step keeps it.
LEMMA StageStep == UP!IndInv /\ StageInv /\ [Next]_vars => StageInv'
<1>. SUFFICES ASSUME UP!IndInv, StageInv, [Next]_vars PROVE StageInv'
  OBVIOUS
<1>0. /\ UP!TypeOK /\ UP!OpInv /\ UP!NoOp.kind = "none" /\ Udp!NoOp = UP!NoOp
  BY SameState DEF UP!IndInv, UP!NoOp
<1>1. CASE MainAlone
  <2>1. UNCHANGED <<mapped, connected, op>> /\ op.kind = "none"
    BY <1>0, <1>1, MainAloneFrame DEF udpVars
  <2>. USE <2>1 DEF MainDoes, MainGoes, StageInv, Stages, Loaded, Over, Data
  <2>2. CASE LoadConfig \/ OpenDatabase
    BY <2>2 DEF LoadConfig, OpenDatabase
  <2>3. CASE LoadFails \/ LoadLists
    BY <2>3 DEF LoadFails, LoadLists
  <2>4. CASE BindInterfaceRefused \/ Initialized \/ Quit
    BY <2>4 DEF BindInterfaceRefused, Initialized, Quit
  <2>5. CASE CloseData \/ KeyPressed
    BY <2>5 DEF CloseData, KeyPressed
  <2>6. CASE DestroyMeta \/ DestroyData
    BY <2>6 DEF DestroyMeta, DestroyData
  <2>. QED
    BY <1>1, <2>2, <2>3, <2>4, <2>5, <2>6 DEF MainAlone
<1>2. CASE BindNec \/ BindInterface
  <2>1. /\ ~connected /\ connected' = connected /\ op'.kind = "bind" /\ ready' = ready
        /\ \/ stage = "bindNec" /\ stage' = "bindInterface"
           \/ stage = "bindInterface" /\ stage' = "connect"
    BY <1>2 DEF BindNec, BindInterface, MainGoes, Udp!BindToPort
  <2>. QED
    BY <2>1 DEF StageInv, Stages, Loaded, Over
<1>3. CASE Connect
  <2>1. /\ op' = UP!NoOp /\ ready' = ready /\ mapped' = mapped
        /\ stage = "connect" /\ stage' = "announce"
    BY <1>0, <1>3 DEF Connect, MainGoes, Udp!ConnectClient
  <2>. QED
    BY <1>0, <2>1 DEF StageInv, Stages, Loaded, Over
<1>4. CASE StopUdp \/ DestroyUdp
  <2>1. /\ op'.kind = "cleanup" /\ ready' = ready /\ mapped' = mapped /\ connected' = connected
        /\ \/ stage = "stopping" /\ stage' = "closing"
           \/ stage = "returned" /\ stage' = "udpDestroyed"
    BY <1>4 DEF StopUdp, StopUdpWith, DestroyUdp, MainGoes, Udp!Cleanup
  <2>. QED
    BY <2>1 DEF StageInv, Stages, Loaded, Over
<1>5. CASE OpStep
  <2>1. UNCHANGED <<connected, stage, ready>> /\ op.kind # "none"
    BY <1>5, OpCases DEF OpKeeps
  <2>2. op.kind \in {"bind", "cleanup"}
    BY <1>0, <2>1 DEF StageInv, UP!TypeOK, UP!Ops, UP!OpKinds
  <2>3. CASE op.kind = "bind"
    <3>1. stage \in {"bindInterface", "connect"} /\ ~connected
      BY <2>3 DEF StageInv, Over
    <3>2. op'.kind \in {"bind", "none"}
      BY <1>0, <1>5, <2>3, OpCases DEF Deletes, UP!OpInv
    <3>. QED
      BY <2>1, <3>1, <3>2 DEF StageInv, Over
  <2>4. CASE op.kind = "cleanup"
    <3>1. stage \in {"closing", "udpDestroyed"}
      BY <2>4 DEF StageInv
    <3>2. \/ op'.kind = "cleanup" /\ mapped' = mapped
          \/ op'.kind = "none" /\ mapped' = {}
      BY <1>0, <1>5, <2>4, OpCases DEF Deletes
    <3>. QED
      BY <2>1, <3>1, <3>2 DEF StageInv, Over
  <2>. QED
    BY <2>2, <2>3, <2>4
<1>6. ASSUME NEW p \in Ports, Receive(p) \/ HandlerEnds(p) \/ WorkerStep(p) PROVE StageInv'
  <2>1. ThreadMoves(p)
    BY <1>0, <1>6, HandlerFrame, WorkerFrame
  <2>. QED
    BY <2>1 DEF ThreadMoves, StageInv
<1>7. ASSUME NEW p \in Ports, Arrive(p) PROVE StageInv'
  BY <1>7, ArriveFrame DEF StageInv
<1>8. ASSUME NEW t \in Threads, SendNext(t) \/ CallStep(t) PROVE StageInv'
  BY <1>0, <1>8, CallFrame DEF StageInv, CallMoves
<1>9. CASE UNCHANGED vars
  BY <1>9 DEF StageInv, vars, udpVars
<1>. QED
  BY <1>1, <1>2, <1>3, <1>4, <1>5, <1>6, <1>7, <1>8, <1>9, Cases

\* The transport, its client and the stages together.
Base == UP!IndInv /\ ClientInv /\ StageInv

\* They hold in every reachable state.
LEMMA BaseInvariant == Spec => []Base
<1>1. Init => Base
  BY ClientInit, StageInit, SameState, UP!InitIndInv, PortNumbers, Zenon DEF Init, Base
<1>2. Base /\ [Next]_vars => Base'
  BY ClientStep, StageStep, Agreed, UP!Inductive, PortNumbers, Zenon DEF Base
<1>. QED
  BY <1>1, <1>2, PTL DEF Spec

\* Every variable has its type in every reachable state, those of the transport
\* included.
THEOREM TypeCorrect == Spec => []TypeOK
<1>1. Base => TypeOK
  BY SameState DEF Base, UP!IndInv, ClientInv, StageInv, TypeOK
<1>. QED
  BY <1>1, BaseInvariant, PTL

\* No handler runs before the lists and the database are there (startup.cpp 13-84)
\* or after Startup::cleanup has closed them: it joins the workers first.
THEOREM HandlersFindData == Spec => []DataOutlivesHandlers
<1>1. ASSUME Base, NEW p \in Ports, connected, thread[p] = "handling"
      PROVE  ready = Data
  <2>1. p \in alive
    BY <1>1 DEF Base, UP!IndInv, UP!SocketInv
  <2>2. stage \notin Over
    <3>1. ASSUME stage \in Over PROVE mapped = {} /\ op.kind \in {"none", "cleanup"}
      BY <1>1, <3>1 DEF Base, StageInv, Over, UP!IndInv, UP!TypeOK, UP!Ops, UP!OpKinds
    <3>2. ASSUME mapped = {}, op.kind \in {"none", "cleanup"} PROVE alive = {}
      BY <1>1, <3>2 DEF Base, UP!IndInv, UP!OpInv
    <3>. QED
      BY <2>1, <3>1, <3>2
  <2>. QED
    BY <1>1, <2>2 DEF Base, StageInv, Loaded
<1>2. Base => DataOutlivesHandlers
  BY <1>1 DEF DataOutlivesHandlers
<1>. QED
  BY <1>2, BaseInvariant, PTL

\* Once ~UDPInterface has run no worker is left, on every way out of main(), so that
\* ~MetaManage finds nothing to stop in the destroyed object (meta_manage.cpp
\* 91-93).
THEOREM NoWorkerIsLeft == Spec => []EndMeansJoined
<1>1. ASSUME Base, stage \in {"udpDestroyed", "metaDestroyed", "ended"}, op = Udp!NoOp
      PROVE  mapped = {} /\ alive = {} /\ \A p \in Ports : thread[p] = "none"
  <2>1. op.kind = "none" /\ mapped = {}
    BY <1>1 DEF Udp!NoOp, Base, StageInv
  <2>2. alive = {}
    BY <1>1, <2>1 DEF Base, UP!IndInv, UP!OpInv
  <2>. QED
    BY <1>1, <2>1, <2>2 DEF Base, UP!IndInv, UP!SocketInv
<1>2. Base => EndMeansJoined
  BY <1>1 DEF EndMeansJoined
<1>. QED
  BY <1>2, BaseInvariant, PTL

\* The configured ports do not change once they are read.
LEMMA PortsStay ==
  ASSUME UP!IndInv, [Next]_vars
  PROVE  NecPort' = NecPort /\ InterfacePort' = InterfacePort
<1>0. UP!TypeOK
  BY DEF UP!IndInv
<1>1. CASE MainAlone
  BY <1>1, MainAloneFrame DEF NecPort, InterfacePort
<1>2. CASE BindNec \/ BindInterface \/ Connect \/ StopUdp \/ DestroyUdp
  BY <1>2 DEF NecPort, InterfacePort, BindNec, BindInterface, Connect, StopUdp, StopUdpWith,
              DestroyUdp, MainGoes
<1>3. CASE OpStep
  BY <1>3 DEF OpStep, NecPort, InterfacePort
<1>4. ASSUME NEW p \in Ports, Receive(p) \/ HandlerEnds(p) \/ WorkerStep(p) \/ Arrive(p)
      PROVE  config' = config
  BY <1>4 DEF Receive, HandlerEnds, WorkerStep, Arrive
<1>5. ASSUME NEW t \in Threads, SendNext(t) \/ CallStep(t) PROVE config' = config
  BY <1>5 DEF SendNext, CallStep
<1>6. CASE UNCHANGED vars
  BY <1>6 DEF vars, NecPort, InterfacePort
<1>. QED
  BY <1>1, <1>2, <1>3, <1>4, <1>5, <1>6, Cases DEF NecPort, InterfacePort

\* The stages before Startup::cleanup stops the workers.
Early == {"config", "database", "lists", "bindNec", "bindInterface", "connect", "announce",
          "cli", "stopping"}

\* A worker cleans up only after its quit(), no quit() is called before the end,
\* only the two configured ports have workers, and cleanup() has been through the
\* smaller ports when it comes to a greater one (udp_interface.cpp 26-44: the
\* order of a QMap).
ExitInv ==
    /\ \A p \in Ports : thread[p] \in Closing => p \in exited
    /\ stage \in Early => exited = {}
    /\ alive \cup mapped \subseteq {NecPort, InterfacePort}
    /\ op.kind = "cleanup" =>
          /\ op.todo = alive
          /\ \A q \in mapped \ op.todo : \A r \in op.todo : q < r

\* It holds initially.
LEMMA ExitInit == Init => ExitInv
BY DEF Init, ExitInv, Udp!Init, Udp!NoOp, Closing

\* Every step keeps it.
LEMMA ExitStep == Base /\ ExitInv /\ [Next]_vars => ExitInv'
<1>. SUFFICES ASSUME Base, ExitInv, [Next]_vars PROVE ExitInv'
  OBVIOUS
<1>0. /\ UP!IndInv /\ UP!TypeOK /\ UP!OpInv /\ UP!NoOp.kind = "none" /\ Udp!NoOp = UP!NoOp
      /\ NecPort' = NecPort /\ InterfacePort' = InterfacePort /\ StageInv
      /\ mapped \in SUBSET Ports /\ Ports \subseteq Nat
  BY SameState, PortsStay, PortNumbers DEF Base, UP!IndInv, UP!NoOp, UP!TypeOK
<1>t. thread \in [Ports -> UP!ThreadStates] /\ op \in UP!Ops
  BY <1>0 DEF UP!TypeOK
<1>1. CASE MainAlone
  <2>1. UNCHANGED <<mapped, alive, thread, exited, op>> /\ op.kind = "none"
    BY <1>0, <1>1, MainAloneFrame DEF udpVars
  <2>2. stage' \in Early => stage \in Early
    BY <1>1 DEF MainAlone, MainDoes, MainGoes, LoadConfig, OpenDatabase, LoadFails, LoadLists,
       BindInterfaceRefused, Initialized, Quit, CloseData, KeyPressed, DestroyMeta,
       DestroyData, Early
  <2>. QED
    BY <1>0, <2>1, <2>2 DEF ExitInv
<1>2. ASSUME NEW p \in {NecPort, InterfacePort}, BindNec \/ BindInterface, Udp!BindToPort(p)
      PROVE  ExitInv'
  <2>1. /\ op'.kind = "bind" /\ mapped' = mapped /\ alive' = alive \cup {p}
        /\ exited' = exited \ {p} /\ thread' = [thread EXCEPT ![p] = "started"]
    BY <1>2 DEF Udp!BindToPort
  <2>2. exited = {}
    BY <1>2 DEF BindNec, BindInterface, MainGoes, ExitInv, Early
  <2>. QED
    BY <1>0, <1>t, <2>1, <2>2 DEF ExitInv, Closing
<1>3. CASE Connect
  <2>1. /\ UNCHANGED <<mapped, alive, thread, exited, op>> /\ stage = "connect"
    BY <1>3 DEF Connect, MainGoes, Udp!ConnectClient
  <2>. QED
    BY <1>0, <2>1 DEF ExitInv, Early
<1>4. CASE StopUdp \/ DestroyUdp
  <2>1. /\ UNCHANGED <<mapped, alive, thread, exited>> /\ stage' \notin Early
        /\ op = UP!NoOp /\ op'.todo = mapped
    BY <1>0, <1>4 DEF StopUdp, StopUdpWith, DestroyUdp, MainGoes, Udp!Cleanup, Early
  <2>2. alive = mapped
    BY <1>0, <2>1 DEF UP!OpInv
  <2>. QED
    BY <1>0, <2>1, <2>2 DEF ExitInv
<1>5. CASE OpStep
  <2>1. stage' = stage /\ op.kind # "none"
    BY <1>0, <1>5, OpCases DEF OpKeeps
  <2>2. op.kind \in {"bind", "cleanup"}
    BY <1>0, <1>t, <2>1 DEF StageInv, UP!Ops, UP!OpKinds
  <2>3. CASE op.kind = "bind"
    <3>1. op.at = "insert" /\ op.todo \subseteq alive
      BY <1>0, <2>3 DEF UP!OpInv
    <3>2. /\ UNCHANGED <<alive, thread>>
      BY <1>0, <1>5, <3>1, OpCases DEF Deletes
    <3>3. mapped' \subseteq mapped \cup alive /\ op'.kind # "cleanup" /\ exited' = exited
      <4>1. Udp!OpStep
        BY <1>5 DEF OpStep
      <4>. QED
        BY <1>0, <3>1, <4>1 DEF Udp!OpStep, Udp!StoreWorker, Udp!StopWorker, Udp!WaitWorker,
           Udp!DeleteWorker, Udp!RemoveKey, Udp!ClearMap
    <3>. QED
      BY <1>0, <2>1, <3>2, <3>3 DEF ExitInv
  <2>4. CASE op.kind = "cleanup"
    <3>1. stage \notin Early
      BY <1>0, <2>4 DEF StageInv, Early
    <3>2. ASSUME NEW p \in Ports, Deletes(p) PROVE ExitInv'
      <4>1. /\ mapped' = mapped /\ alive' = alive \ {p} /\ exited' = exited \cup {p}
            /\ thread' = [thread EXCEPT ![p] = "none"]
            /\ op'.kind = "cleanup" /\ op'.todo = op.todo \ {p}
            /\ p \in op.todo /\ \A q \in op.todo : p <= q
        BY <2>4, <3>2 DEF Deletes, Udp!IsNext
      <4>2. \A q \in mapped \ op'.todo : \A r \in op'.todo : q < r
        <5>1. TAKE q \in mapped \ op'.todo
        <5>2. TAKE r \in op'.todo
        <5>3. r \in op.todo /\ r # p /\ p <= r /\ op.todo \subseteq Ports
          BY <1>t, <4>1 DEF UP!Ops
        <5>4. q = p \/ q \in mapped \ op.todo
          BY <4>1
        <5>5. q \in Nat /\ r \in Nat /\ p \in Nat
          BY <1>0, <5>3
        <5>6. CASE q = p
          BY <5>3, <5>5, <5>6
        <5>7. CASE q \in mapped \ op.todo
          BY <2>4, <5>3, <5>7 DEF ExitInv
        <5>. QED
          BY <5>4, <5>6, <5>7
      <4>3. \A q \in Ports : thread'[q] \in Closing => q \in exited'
        BY <1>t, <4>1 DEF ExitInv, Closing
      <4>. QED
        BY <1>0, <2>1, <2>4, <3>1, <4>1, <4>2, <4>3 DEF ExitInv
    <3>3. ASSUME UNCHANGED <<alive, thread>>, exited \subseteq exited', mapped' \subseteq mapped,
                 \/ op' = UP!NoOp
                 \/ mapped' = mapped /\ op'.todo = op.todo
          PROVE  ExitInv'
      BY <1>0, <2>1, <2>4, <3>1, <3>3 DEF ExitInv
    <3>. QED
      BY <1>0, <1>5, <2>4, <3>2, <3>3, OpCases
  <2>. QED
    BY <2>2, <2>3, <2>4
<1>6. ASSUME NEW p \in Ports, Receive(p) \/ HandlerEnds(p) \/ WorkerStep(p) PROVE ExitInv'
  <2>1. ThreadMoves(p)
    BY <1>0, <1>6, HandlerFrame, WorkerFrame
  <2>. QED
    BY <1>0, <2>1 DEF ThreadMoves, ExitInv
<1>7. ASSUME NEW p \in Ports, Arrive(p) PROVE ExitInv'
  BY <1>0, <1>7, ArriveFrame DEF ExitInv
<1>8. ASSUME NEW t \in Threads, SendNext(t) \/ CallStep(t) PROVE ExitInv'
  BY <1>0, <1>8, CallFrame DEF ExitInv, CallMoves
<1>9. CASE UNCHANGED vars
  BY <1>0, <1>9 DEF ExitInv, vars, udpVars
<1>10. CASE BindNec \/ BindInterface
  BY <1>2, <1>10 DEF BindNec, BindInterface
<1>. QED
  BY <1>1, <1>3, <1>4, <1>5, <1>6, <1>7, <1>8, <1>9, <1>10, Cases

\* A handler sends through the two configured ports, NEC's through its own only;
\* main() sends while it announces NENet, when no worker can have been stopped: its
\* worker lives, and the socket it tested stays open.
SendInv ==
    /\ \A t \in Threads : script[t] \in Seq({NecPort, InterfacePort})
    /\ script[NecPort] \in Seq({NecPort})
    /\ \A t \in Threads : call[t] # UP!NoCall => call[t].port \in {NecPort, InterfacePort}
    /\ call[NecPort] # UP!NoCall => call[NecPort].port = NecPort
    /\ call[Main] # UP!NoCall => stage = "announce" /\ call[Main].live
    /\ call[Main].at = "write" => socket[call[Main].port] = "open"

\* It holds initially.
LEMMA SendInit == Init => SendInv
<1>. SUFFICES ASSUME Init PROVE SendInv
  OBVIOUS
<1>1. Main \in Threads /\ NecPort \in Threads
  BY PortNumbers DEF Threads, NecPort, Init
<1>2. \A t \in Threads : call[t] = UP!NoCall /\ script[t] = <<>>
  BY SameState DEF Init, Udp!Init, Udp!Threads, Threads
<1>3. <<>> \in Seq({NecPort}) /\ <<>> \in Seq({NecPort, InterfacePort})
  OBVIOUS
<1>. HIDE DEF Init
<1>4. UP!NoCall.at = "idle"
  BY DEF UP!NoCall
<1>5. script[NecPort] = <<>> /\ call[NecPort] = UP!NoCall /\ call[Main] = UP!NoCall
  BY <1>1, <1>2
<1>6. \A t \in Threads : script[t] \in Seq({NecPort, InterfacePort})
  BY <1>2, <1>3
<1>. QED
  BY <1>2, <1>3, <1>4, <1>5, <1>6 DEF SendInv

\* What a step of a send makes of the call.
LEMMA CallCases ==
  ASSUME UP!TypeOK, NEW t \in Threads, CallStep(t)
  PROVE  \/ call'[t] = UP!NoCall
         \/ /\ call'[t].port = call[t].port /\ call[t] # UP!NoCall
            /\ \/ /\ call'[t].at = "emit" /\ call'[t].live = (call[t].port \in alive)
                  /\ call[t].port \in mapped
               \/ call'[t].at = "check" /\ call'[t].live = call[t].live
               \/ /\ call'[t].at = "write" /\ call'[t].live = call[t].live
                  /\ socket[call[t].port] # "null"
<1>. USE SameState DEF Udp!MoveCall
<1>1. call \in [Threads -> UP!Calls]
  BY DEF UP!TypeOK
<1>2. call[t] \in [at : UP!CallSteps, port : Threads, live : BOOLEAN] /\ UP!NoCall.at = "idle"
  BY <1>1 DEF UP!Calls, UP!NoCall
<1>3. CASE Udp!LookupWorker(t)
  BY <1>1, <1>2, <1>3 DEF Udp!LookupWorker
<1>4. CASE Udp!EmitRequest(t)
  BY <1>1, <1>2, <1>4 DEF Udp!EmitRequest
<1>5. CASE Udp!CheckSocket(t)
  BY <1>1, <1>2, <1>5 DEF Udp!CheckSocket
<1>6. CASE Udp!WriteDatagram(t) \/ Udp!UseDeletedWorker(t)
  BY <1>1, <1>2, <1>6 DEF Udp!WriteDatagram, Udp!UseDeletedWorker
<1>. QED
  BY <1>3, <1>4, <1>5, <1>6 DEF CallStep, Udp!CallStep

\* Before UDPWorker::cleanup a socket that is not null is open.
LEMMA OpenUnlessClosing ==
  ASSUME Base, NEW p \in Ports, thread[p] \notin Closing, socket[p] # "null"
  PROVE  socket[p] = "open"
<1>1. thread[p] \in UP!ThreadStates /\ UP!SocketInv
  BY DEF Base, UP!IndInv, UP!TypeOK
<1>. QED
  BY <1>1 DEF UP!ThreadStates, UP!SocketInv, Closing

\* Every step keeps it.
LEMMA SendInvStep == Base /\ ExitInv /\ SendInv /\ [Next]_vars => SendInv'
<1>. SUFFICES ASSUME Base, ExitInv, SendInv, [Next]_vars PROVE SendInv'
  OBVIOUS
<1>0. /\ UP!IndInv /\ UP!TypeOK /\ UP!OpInv /\ UP!CallInv /\ Udp!NoOp = UP!NoOp
      /\ Udp!NoCall = UP!NoCall /\ UP!NoCall.at = "idle"
      /\ NecPort' = NecPort /\ InterfacePort' = InterfacePort /\ ClientInv /\ StageInv
  BY SameState, PortsStay DEF Base, UP!IndInv, UP!NoCall
<1>p. /\ NecPort \in Ports /\ InterfacePort \in Ports /\ Main \notin Ports
      /\ Main \in Threads /\ NecPort \in Threads /\ Ports \subseteq Threads
      /\ Main # NecPort
  BY <1>0, PortNumbers DEF ClientInv, NecPort, InterfacePort, Threads
<1>t. /\ call \in [Threads -> UP!Calls] /\ script \in [Threads -> Seq(Ports)]
      /\ socket \in [Ports -> UP!SocketStates] /\ thread \in [Ports -> UP!ThreadStates]
  BY <1>0, SameState DEF UP!TypeOK, ClientInv
<1>1. CASE MainAlone
  <2>1. UNCHANGED <<script, call, socket>> /\ call[Main] = UP!NoCall
    BY <1>1, MainAloneFrame DEF udpVars
  <2>. QED
    BY <1>0, <2>1 DEF SendInv
<1>2. CASE BindNec \/ BindInterface \/ StopUdp \/ DestroyUdp
  <2>1. UNCHANGED <<script, call, socket>> /\ call[Main] = UP!NoCall
    BY <1>0, <1>2 DEF BindNec, BindInterface, StopUdp, StopUdpWith, DestroyUdp, MainGoes,
       Udp!BindToPort, Udp!Cleanup
  <2>. QED
    BY <1>0, <2>1 DEF SendInv
<1>3. CASE Connect
  <2>1. /\ UNCHANGED <<call, socket>> /\ call[Main] = UP!NoCall
        /\ script' = [script EXCEPT ![Main] = <<NecPort, NecPort>>]
    BY <1>0, <1>3 DEF Connect, MainGoes, Udp!ConnectClient
  <2>2. <<NecPort, NecPort>> \in Seq({NecPort, InterfacePort})
    OBVIOUS
  <2>. QED
    BY <1>0, <1>p, <1>t, <2>1, <2>2 DEF SendInv
<1>5. CASE OpStep
  <2>1. /\ UNCHANGED <<script, stage>> /\ call[Main] = UP!NoCall
    BY <1>0, <1>5, OpCases DEF OpKeeps
  <2>2. \A t \in Threads : \/ call'[t] = call[t]
                           \/ /\ call[t].port \in Ports /\ call'[t].port = call[t].port
                              /\ call[t] # UP!NoCall
    <3>1. CASE UNCHANGED call
      BY <3>1
    <3>2. ASSUME NEW p \in Ports, Deletes(p), NEW t \in Threads
          PROVE  \/ call'[t] = call[t]
                 \/ /\ call[t].port \in Ports /\ call'[t].port = call[t].port
                    /\ call[t] # UP!NoCall
      <4>1. call[t] \in [at : UP!CallSteps, port : Threads, live : BOOLEAN]
        BY <1>t, SameState DEF UP!Calls
      <4>. QED
        BY <1>p, <3>2, <4>1 DEF Deletes, UP!NoCall
    <3>. QED
      BY <1>0, <1>5, <3>1, <3>2, OpCases
  <2>3. call'[Main] = UP!NoCall
    BY <1>p, <2>1, <2>2
  <2>. QED
    BY <1>0, <1>p, <2>1, <2>2, <2>3 DEF SendInv
<1>6. ASSUME NEW p \in Ports, Receive(p) \/ HandlerEnds(p) \/ WorkerStep(p) PROVE SendInv'
  <2>1. ThreadMoves(p)
    BY <1>0, <1>6, HandlerFrame, WorkerFrame
  <2>2. /\ \A t \in Threads : script'[t] \in Seq({NecPort, InterfacePort})
        /\ script'[NecPort] \in Seq({NecPort})
    <3>1. CASE script' = script
      BY <3>1 DEF SendInv
    <3>2. ASSUME NEW s \in Scripts(p), script' = [script EXCEPT ![p] = s]
          PROVE  /\ s \in Seq({NecPort, InterfacePort})
                 /\ p = NecPort => s \in Seq({NecPort})
      <4>1. /\ \A a \in {NecPort} : {<<>>, <<a>>, <<a, a>>} \subseteq Seq({NecPort})
            /\ \A a, b \in {NecPort, InterfacePort} :
                  {<<>>, <<a>>, <<a, b>>} \subseteq Seq({NecPort, InterfacePort})
        OBVIOUS
      <4>. QED
        BY <3>2, <4>1 DEF Scripts
    <3>3. Receive(p) \/ script' = script
      BY <1>0, <1>6, WorkerFrame DEF HandlerEnds
    <3>4. script' = script \/ \E s \in Scripts(p) : script' = [script EXCEPT ![p] = s]
      BY <3>3 DEF Receive
    <3>. QED
      BY <1>p, <1>t, <3>1, <3>2, <3>4 DEF SendInv
  <2>3. call[Main].at = "write" => socket'[call[Main].port] = "open"
    <3>. SUFFICES ASSUME call[Main].at = "write" PROVE socket'[call[Main].port] = "open"
      OBVIOUS
    <3>1. /\ socket[call[Main].port] = "open" /\ stage = "announce"
          /\ call[Main].port \in {NecPort, InterfacePort}
      BY <1>0, <1>p DEF SendInv
    <3>2. thread[p] \notin Closing
      BY <3>1 DEF ExitInv, Early
    <3>. QED
      BY <1>p, <2>1, <3>1, <3>2 DEF ThreadMoves
  <2>. QED
    BY <1>0, <2>1, <2>2, <2>3 DEF ThreadMoves, SendInv
<1>7. ASSUME NEW p \in Ports, Arrive(p) PROVE SendInv'
  BY <1>0, <1>7, ArriveFrame DEF SendInv
<1>8. ASSUME NEW t \in Threads, SendNext(t) PROVE SendInv'
  <2>1. /\ CallMoves(t) /\ script[t] # <<>> /\ script' = [script EXCEPT ![t] = Tail(script[t])]
        /\ call'[t] = [at |-> "lookup", port |-> Head(script[t]), live |-> TRUE]
    BY <1>0, <1>t, <1>8, CallFrame DEF SendNext, Udp!SendBytesByPort, Udp!MoveCall
  <2>2. \A S : script[t] \in Seq(S) => Head(script[t]) \in S /\ Tail(script[t]) \in Seq(S)
    BY <2>1
  <2>3. t = Main => stage = "announce"
    BY <1>0, <2>1 DEF ClientInv
  <2>4. \A r \in Threads : script'[r] = IF r = t THEN Tail(script[t]) ELSE script[r]
    BY <1>t, <2>1
  <2>5. script[t] \in Seq({NecPort, InterfacePort})
        /\ (t = NecPort => script[t] \in Seq({NecPort}))
    BY DEF SendInv
  <2>6. /\ \A r \in Threads : script'[r] \in Seq({NecPort, InterfacePort})
        /\ script'[NecPort] \in Seq({NecPort})
    BY <1>p, <2>2, <2>4, <2>5 DEF SendInv
  <2>7. call'[t].port \in {NecPort, InterfacePort} /\ (t = NecPort => call'[t].port = NecPort)
        /\ call'[t].live /\ call'[t].at = "lookup"
    BY <2>1, <2>2, <2>5
  <2>8. UNCHANGED <<stage, socket>> /\ \A r \in Threads \ {t} : call'[r] = call[r]
    BY <2>1 DEF CallMoves
  <2>9. /\ \A r \in Threads : call'[r] # UP!NoCall => call'[r].port \in {NecPort, InterfacePort}
        /\ call'[NecPort] # UP!NoCall => call'[NecPort].port = NecPort
    BY <1>p, <2>7, <2>8 DEF SendInv
  <2>10. /\ call'[Main] # UP!NoCall => stage' = "announce" /\ call'[Main].live
         /\ call'[Main].at = "write" => socket'[call'[Main].port] = "open"
    BY <1>p, <2>3, <2>7, <2>8 DEF SendInv
  <2>. QED
    BY <1>0, <2>6, <2>9, <2>10 DEF SendInv
<1>9. ASSUME NEW t \in Threads, CallStep(t) PROVE SendInv'
  <2>1. CallMoves(t) /\ script' = script
    BY <1>0, <1>9, CallFrame DEF CallStep
  <2>2. \/ call'[t] = UP!NoCall
        \/ call'[t].port = call[t].port /\ call[t] # UP!NoCall
    BY <1>0, <1>9, CallCases
  <2>3. ASSUME t = Main, call'[Main] # UP!NoCall
        PROVE  /\ stage = "announce" /\ call'[Main].live
               /\ call'[Main].at = "write" => socket[call'[Main].port] = "open"
    <3>1. call[Main] # UP!NoCall /\ stage = "announce" /\ call[Main].live
      BY <2>2, <2>3 DEF SendInv
    <3>2. alive = mapped
      <4>1. op = UP!NoOp
        BY <1>0, <3>1 DEF UP!CallInv
      <4>. QED
        BY <1>0, <4>1 DEF UP!OpInv, UP!NoOp
    <3>3. call'[Main].live
      BY <1>0, <1>9, <2>3, <3>1, <3>2, CallCases
    <3>4. ASSUME call'[Main].at = "write" PROVE socket[call'[Main].port] = "open"
      <4>1. socket[call[Main].port] # "null" /\ call'[Main].port = call[Main].port
        BY <1>0, <1>9, <2>3, <3>4, CallCases
      <4>2. call[Main].port \in Ports /\ thread[call[Main].port] \notin Closing
        BY <1>p, <3>1 DEF SendInv, ExitInv, Early
      <4>. QED
        BY <4>1, <4>2, OpenUnlessClosing
    <3>. QED
      BY <3>1, <3>3, <3>4
  <2>. QED
    BY <1>0, <1>p, <2>1, <2>2, <2>3 DEF SendInv, CallMoves
<1>10. CASE UNCHANGED vars
  BY <1>0, <1>10 DEF SendInv, vars, udpVars
<1>. QED
  BY <1>1, <1>2, <1>3, <1>5, <1>6, <1>7, <1>8, <1>9, <1>10, Cases

\* All of the above.
SentInv == Base /\ ExitInv /\ SendInv

\* It holds in every reachable state.
LEMMA SentInvariant == Spec => []SentInv
<1>1. Init => SentInv
  BY ClientInit, StageInit, SameState, UP!InitIndInv, PortNumbers, ExitInit, SendInit, Zenon
     DEF Init, Base, SentInv
<1>2. SentInv /\ [Next]_vars => SentInv'
  BY ClientStep, StageStep, Agreed, UP!Inductive, PortNumbers, ExitStep, SendInvStep, Zenon
     DEF Base, SentInv
<1>. QED
  BY <1>1, <1>2, PTL DEF Spec

\* What main() sends at the end of initialize() is never written to a socket that is
\* not open, however long the workers take: not thanks to the 200 ms of sleep
\* (meta_manage.cpp 75), but since no worker is stopped before main() is done.
THEOREM MainFindsSocket == Spec => []MainSendsFindSocket
<1>1. SentInv => MainSendsFindSocket
  BY DEF SentInv, SendInv, MainSendsFindSocket
<1>. QED
  BY <1>1, SentInvariant, PTL

\* With the interface port the smaller one: no send has lost its worker, the
\* interface thread has been joined when NEC's worker is told to stop, and the
\* socket of a write is open.
FirstInv == InterfacePort < NecPort =>
    /\ \A t \in Threads : call[t].live
    /\ NecPort \in exited => thread[InterfacePort] = "none"
    /\ \A t \in Threads : call[t].at = "write" => socket[call[t].port] = "open"

\* It holds initially.
LEMMA FirstInit == Init => FirstInv
<1>. SUFFICES ASSUME Init PROVE FirstInv
  OBVIOUS
<1>1. exited = {} /\ \A t \in Threads : call[t] = UP!NoCall
  BY SameState DEF Init, Udp!Init, Udp!Threads, Threads
<1>2. UP!NoCall.live /\ UP!NoCall.at = "idle"
  BY DEF UP!NoCall
<1>. HIDE DEF Init
<1>. QED
  BY <1>1, <1>2 DEF FirstInv

\* Who has a call under way: main() while it announces NENet, or a handler of one of
\* the two ports; NEC's handler calls its own worker only.
LEMMA Senders ==
  ASSUME SentInv, NEW t \in Threads, call[t] # UP!NoCall
  PROVE  /\ NecPort \in Ports /\ InterfacePort \in Ports
         /\ \/ t = Main /\ stage = "announce" /\ op = UP!NoOp
            \/ /\ t \in {NecPort, InterfacePort} /\ t \in alive
               /\ connected /\ thread[t] = "handling"
         /\ call[t].port \in {NecPort, InterfacePort}
         /\ t = NecPort => call[t].port = NecPort
<1>0. UP!CallInv /\ UP!SocketInv /\ ClientInv /\ SendInv /\ ExitInv
  BY DEF SentInv, Base, UP!IndInv
<1>1. NecPort \in Ports /\ InterfacePort \in Ports
  BY <1>0, PortNumbers DEF ClientInv, NecPort, InterfacePort
<1>2. CASE t = Main
  BY <1>0, <1>1, <1>2 DEF SendInv, UP!CallInv
<1>3. CASE t \in Ports
  <2>1. connected /\ thread[t] = "handling"
    BY <1>0, <1>3 DEF UP!CallInv
  <2>2. t \in alive
    BY <1>0, <1>3, <2>1 DEF UP!SocketInv
  <2>. QED
    BY <1>0, <1>1, <1>3, <2>1, <2>2 DEF SendInv, ExitInv
<1>. QED
  BY <1>2, <1>3 DEF Threads

\* The worker a call goes through has not begun to clean up.
LEMMA PeerRuns ==
  ASSUME SentInv, FirstInv, InterfacePort < NecPort,
         NEW t \in Threads, call[t] # UP!NoCall
  PROVE  thread[call[t].port] \notin Closing
<1>1. /\ NecPort \in Ports /\ InterfacePort \in Ports
      /\ \/ t = Main /\ stage = "announce" /\ op = UP!NoOp
         \/ /\ t \in {NecPort, InterfacePort} /\ t \in alive
            /\ connected /\ thread[t] = "handling"
      /\ call[t].port \in {NecPort, InterfacePort}
      /\ t = NecPort => call[t].port = NecPort
  BY Senders
<1>2. CASE t = Main /\ stage = "announce"
  BY <1>1, <1>2 DEF SentInv, ExitInv, Early
<1>3. CASE thread[t] = "handling" /\ call[t].port = t
  BY <1>3 DEF Closing
<1>4. CASE thread[InterfacePort] = "handling" /\ call[t].port = NecPort
  BY <1>1, <1>4 DEF FirstInv, SentInv, ExitInv
<1>. QED
  BY <1>1, <1>2, <1>3, <1>4

\* When the clean-up comes to NEC's worker the interface thread has been joined.
LEMMA NecIsLast ==
  ASSUME SentInv, InterfacePort < NecPort, op.kind = "cleanup", Udp!IsNext(NecPort)
  PROVE  InterfacePort \notin alive /\ thread[InterfacePort] = "none"
<1>1. /\ NecPort \in Ports /\ InterfacePort \in Ports /\ Ports \subseteq Nat
      /\ op.todo = alive /\ UP!SocketInv
  BY PortNumbers DEF SentInv, Base, ClientInv, NecPort, InterfacePort, ExitInv, UP!IndInv
<1>2. InterfacePort \notin alive
  BY <1>1 DEF Udp!IsNext
<1>. QED
  BY <1>1, <1>2 DEF UP!SocketInv

\* Every step keeps it: one case per kind of step.
LEMMA FirstStep == SentInv /\ FirstInv /\ [Next]_vars => FirstInv'
<1>. SUFFICES ASSUME SentInv, FirstInv, [Next]_vars, InterfacePort' < NecPort' PROVE FirstInv'
  BY DEF FirstInv
<1>0. /\ UP!IndInv /\ UP!TypeOK /\ UP!OpInv /\ UP!CallInv /\ UP!SocketInv
      /\ Udp!NoOp = UP!NoOp /\ UP!NoOp.kind = "none"
      /\ Udp!NoCall = UP!NoCall /\ UP!NoCall.at = "idle" /\ UP!NoCall.live
      /\ UP!NoCall.port = Main
      /\ NecPort' = NecPort /\ InterfacePort' = InterfacePort /\ ClientInv /\ StageInv
      /\ Base /\ ExitInv /\ SendInv
  BY SameState, PortsStay DEF SentInv, Base, UP!IndInv, UP!NoCall, UP!NoOp
<1>p. /\ NecPort \in Ports /\ InterfacePort \in Ports /\ Main \notin Ports
      /\ Ports \subseteq Nat /\ InterfacePort < NecPort /\ InterfacePort # NecPort
  <2>1. NecPort \in Ports /\ InterfacePort \in Ports
    BY <1>0, PortNumbers DEF ClientInv, NecPort, InterfacePort
  <2>2. Main \notin Ports /\ Ports \subseteq Nat
    BY PortNumbers
  <2>3. InterfacePort < NecPort
    BY <1>0
  <2>. QED
    BY <2>1, <2>2, <2>3
<1>t. /\ call \in [Threads -> UP!Calls]
      /\ socket \in [Ports -> UP!SocketStates] /\ thread \in [Ports -> UP!ThreadStates]
  BY <1>0, SameState DEF UP!TypeOK
<1>f. /\ \A t \in Threads : call[t].live
      /\ NecPort \in exited => thread[InterfacePort] = "none"
      /\ \A t \in Threads : call[t].at = "write" => socket[call[t].port] = "open"
  BY <1>p DEF FirstInv
<1>1. CASE UNCHANGED <<call, socket, thread, exited>>
  BY <1>0, <1>1 DEF FirstInv
<1>2. CASE MainAlone \/ Connect \/ StopUdp \/ DestroyUdp
  <2>1. UNCHANGED <<call, socket, thread, exited>>
    BY <1>2, MainAloneFrame DEF udpVars, Connect, StopUdp, StopUdpWith, DestroyUdp,
       Udp!ConnectClient, Udp!Cleanup
  <2>. QED
    BY <1>1, <2>1
<1>3. CASE BindNec \/ BindInterface
  <2>1. UNCHANGED <<call, socket>> /\ exited' \subseteq exited /\ stage \in Early
    BY <1>3 DEF BindNec, BindInterface, MainGoes, Udp!BindToPort, Early
  <2>2. exited' = {}
    BY <1>0, <2>1 DEF ExitInv
  <2>. QED
    BY <1>f, <2>1, <2>2 DEF FirstInv
<1>4. CASE OpStep
  <2>1. /\ op.kind # "none" /\ call[Main] = UP!NoCall /\ op.kind \in UP!OpKinds
    BY <1>0, <1>4, OpCases DEF OpKeeps, UP!TypeOK, UP!Ops
  <2>2. ASSUME NEW p \in Ports, Deletes(p) PROVE FirstInv'
    <3>1. op.kind = "cleanup"
      BY <1>0, <2>1, <2>2 DEF Deletes, UP!OpInv, UP!OpKinds, StageInv
    <3>2. /\ Udp!IsNext(p) /\ thread[p] # "handling" /\ exited' = exited \cup {p}
          /\ thread' = [thread EXCEPT ![p] = "none"]
          /\ socket' = [socket EXCEPT ![p] = "null"]
      BY <2>2 DEF Deletes, Udp!Joined
    <3>3. ASSUME NEW t \in Threads, call[t] # UP!NoCall PROVE call[t].port # p
      <4>1. /\ t # Main
            /\ t \in {NecPort, InterfacePort} /\ t \in alive /\ thread[t] = "handling"
            /\ call[t].port \in {NecPort, InterfacePort}
            /\ t = NecPort => call[t].port = NecPort
        BY <2>1, <3>3, Senders
      <4>2. CASE p = t
        BY <3>2, <4>1, <4>2
      <4>3. CASE t = InterfacePort /\ p = NecPort
        BY <1>p, <3>1, <3>2, <4>1, <4>3, NecIsLast
      <4>4. CASE t = NecPort /\ p # t
        BY <4>1, <4>4
      <4>5. CASE t = InterfacePort /\ p \notin {NecPort, InterfacePort}
        BY <4>1, <4>5
      <4>. QED
        BY <4>1, <4>2, <4>3, <4>4, <4>5
    <3>4. \A t \in Threads : call[t].port # p
      BY <1>0, <1>p, <3>3
    <3>5. \A t \in Threads : call'[t] = call[t]
      BY <2>2, <3>4 DEF Deletes
    <3>6. NecPort \in exited' => thread'[InterfacePort] = "none"
      <4>1. CASE p = NecPort
        BY <1>p, <1>t, <3>1, <3>2, <4>1, NecIsLast
      <4>2. CASE p # NecPort
        BY <1>p, <1>t, <1>f, <3>2, <4>2
      <4>. QED
        BY <4>1, <4>2
    <3>7. \A t \in Threads : call[t].at = "write" => socket'[call[t].port] = "open"
      BY <1>t, <1>f, <3>2, <3>4
    <3>. QED
      BY <1>0, <1>f, <3>5, <3>6, <3>7 DEF FirstInv
  <2>3. ASSUME UNCHANGED <<thread, socket, call>>, NEW p \in Ports, Udp!IsNext(p),
               op.kind = "cleanup", exited' = exited \cup {p}
        PROVE  FirstInv'
    <3>1. NecPort \in exited' => thread[InterfacePort] = "none"
      <4>1. CASE p = NecPort
        BY <1>p, <2>3, <4>1, NecIsLast
      <4>2. CASE p # NecPort
        BY <1>f, <2>3, <4>2
      <4>. QED
        BY <4>1, <4>2
    <3>. QED
      BY <1>0, <1>f, <2>3, <3>1 DEF FirstInv
  <2>4. ASSUME op.kind = "unbind" PROVE FALSE
    BY <1>0, <2>4 DEF StageInv
  <2>5. op.kind \in {"bind", "cleanup"}
    BY <2>1, <2>4 DEF UP!OpKinds
  <2>6. \/ \E p \in Ports : Deletes(p)
        \/ UNCHANGED <<call, socket, thread, exited>>
        \/ UNCHANGED <<call, socket, thread>> /\ op.kind = "cleanup"
           /\ \E p \in Ports : Udp!IsNext(p) /\ exited' = exited \cup {p}
    BY <1>0, <1>4, <2>5, OpCases
  <2>. QED
    BY <1>1, <2>2, <2>3, <2>6
<1>5. ASSUME NEW p \in Ports, Receive(p) \/ HandlerEnds(p) \/ WorkerStep(p) PROVE FirstInv'
  <2>1. ThreadMoves(p)
    BY <1>0, <1>5, HandlerFrame, WorkerFrame
  <2>2. NecPort \in exited' => thread'[InterfacePort] = "none"
    BY <1>p, <1>f, <2>1 DEF ThreadMoves
  <2>3. ASSUME NEW t \in Threads, call[t].at = "write" PROVE socket'[call[t].port] = "open"
    <3>1. call[t] # UP!NoCall /\ socket[call[t].port] = "open"
      BY <1>0, <1>f, <2>3
    <3>2. thread[call[t].port] \notin Closing /\ call[t].port \in Ports
      BY <1>0, <1>p, <3>1, PeerRuns, Senders
    <3>. QED
      BY <2>1, <3>1, <3>2 DEF ThreadMoves
  <2>. QED
    BY <1>0, <1>f, <2>1, <2>2, <2>3 DEF FirstInv, ThreadMoves
<1>6. ASSUME NEW p \in Ports, Arrive(p) PROVE FirstInv'
  BY <1>1, <1>6, ArriveFrame
<1>7. ASSUME NEW t \in Threads, SendNext(t) PROVE FirstInv'
  <2>1. CallMoves(t)
    BY <1>0, <1>7, CallFrame
  <2>2. call'[t].live /\ call'[t].at = "lookup"
    BY <1>t, <1>7 DEF SendNext, Udp!SendBytesByPort, Udp!MoveCall
  <2>. QED
    BY <1>0, <1>f, <2>1, <2>2 DEF FirstInv, CallMoves
<1>8. ASSUME NEW t \in Threads, CallStep(t) PROVE FirstInv'
  <2>1. CallMoves(t)
    BY <1>0, <1>8, CallFrame
  <2>2. ASSUME call'[t] # UP!NoCall
        PROVE  /\ call'[t].live
               /\ call'[t].at = "write" => socket[call'[t].port] = "open"
    <3>1. /\ call'[t].port = call[t].port /\ call[t] # UP!NoCall
          /\ \/ /\ call'[t].at = "emit" /\ call'[t].live = (call[t].port \in alive)
                /\ call[t].port \in mapped
             \/ call'[t].at = "check" /\ call'[t].live = call[t].live
             \/ /\ call'[t].at = "write" /\ call'[t].live = call[t].live
                /\ socket[call[t].port] # "null"
      BY <1>0, <1>8, <2>2, CallCases
    <3>2. /\ \/ t = Main /\ stage = "announce" /\ op = UP!NoOp
             \/ /\ t \in {NecPort, InterfacePort} /\ t \in alive
                /\ connected /\ thread[t] = "handling"
          /\ call[t].port \in {NecPort, InterfacePort}
          /\ t = NecPort => call[t].port = NecPort
      BY <3>1, Senders
    <3>3. call[t].port \in mapped => call[t].port \in alive
      <4>1. CASE op.kind = "none"
        BY <1>0, <4>1 DEF UP!OpInv
      <4>2. CASE op.kind = "bind"
        BY <1>0, <3>2, <4>2 DEF UP!OpInv
      <4>3. CASE op.kind = "cleanup" /\ call[t].port = t
        BY <1>0, <3>2, <4>3
      <4>4. CASE op.kind = "cleanup" /\ t = InterfacePort /\ call[t].port = NecPort
        <5>1. op.todo = alive /\ InterfacePort \in alive
          BY <1>0, <1>p, <3>2, <4>4 DEF ExitInv
        <5>2. NecPort \in mapped \ op.todo => NecPort < InterfacePort
          BY <1>0, <4>4, <5>1 DEF ExitInv
        <5>. QED
          BY <1>p, <4>4, <5>1, <5>2
      <4>5. t = Main => op.kind = "none"
        BY <1>0, <1>p, <3>2
      <4>. QED
        BY <1>0, <3>2, <4>1, <4>2, <4>3, <4>4, <4>5 DEF UP!TypeOK, UP!Ops, UP!OpKinds, StageInv
    <3>4. call'[t].live
      BY <1>f, <3>1, <3>3
    <3>5. call'[t].at = "write" => socket[call'[t].port] = "open"
      <4>1. thread[call[t].port] \notin Closing /\ call[t].port \in Ports
        BY <1>p, <3>1, <3>2, PeerRuns
      <4>. QED
        BY <1>0, <3>1, <4>1, OpenUnlessClosing
    <3>. QED
      BY <3>4, <3>5
  <2>3. ASSUME call'[t] = UP!NoCall PROVE call'[t].live /\ call'[t].at = "idle"
    BY <1>0, <2>3
  <2>. QED
    BY <1>0, <1>f, <2>1, <2>2, <2>3 DEF FirstInv, CallMoves
<1>9. CASE UNCHANGED vars
  BY <1>1, <1>9 DEF vars, udpVars
<1>. QED
  BY <1>2, <1>3, <1>4, <1>5, <1>6, <1>7, <1>8, <1>9, Cases

\* It holds in every reachable state.
LEMMA FirstInvariant == Spec => [](SentInv /\ FirstInv)
<1>1. SentInv /\ FirstInv /\ [Next]_vars => FirstInv'
  BY FirstStep
<1>. QED
  BY <1>1, FirstInit, SentInvariant, PTL DEF Spec

\* When the interface port is the smaller one, the clean-up never deletes a worker
\* that a send of another thread holds (udp_interface.cpp 143, 26-44).  With the
\* other order it does: the run nenet_delete shows it.
THEOREM FirstFindsWorker == Spec => []InterfaceFirstFindsWorker
<1>1. FirstInv => InterfaceFirstFindsWorker
  BY DEF FirstInv, InterfaceFirstFindsWorker, SendsUseLiveWorker
<1>. QED
  BY <1>1, FirstInvariant, PTL

\* In that order no datagram is written to a socket that was closed, deleted or set
\* to null between the test of m_socket and the write (udp_worker.cpp 40-49, 109-111).
THEOREM FirstFindsSocket == Spec => []InterfaceFirstFindsSocket
<1>1. FirstInv => InterfaceFirstFindsSocket
  BY DEF FirstInv, InterfaceFirstFindsSocket
<1>. QED
  BY <1>1, FirstInvariant, PTL

================================================================================
