------------------------- MODULE UdpInterfaceProofs -------------------------
(***************************************************************************)
(* The safety properties of UdpInterface for every set of ports and every  *)
(* number of datagrams.                                                    *)
(*                                                                         *)
(* The argument.  Joining a worker before deleting it is enough for the    *)
(* socket and for what a handler does through its own port, because the    *)
(* thread of a worker only finishes with the socket gone (SocketInv) and a *)
(* call of a worker thread lives inside its handler (CallInv).  OpInv says *)
(* which workers exist at each step of bind, unbind and cleanup; with it   *)
(* an empty map between two operations means that no worker is left.       *)
(***************************************************************************)
EXTENDS UdpInterface, TLAPS

\* What m_socket points to follows the place of the thread in run(); a thread
\* that may run a handler has its send slot connected.
SocketInv ==
    \A p \in Ports :
        /\ thread[p] \in {"none", "started", "finished"} => socket[p] = "null"
        /\ thread[p] \in {"bound", "looping", "reading", "handling", "closing"}
              => socket[p] = "open"
        /\ thread[p] = "none" <=> p \notin alive
        /\ thread[p] \in {"looping", "reading", "handling"} => p \in slot

\* The workers that exist, at each step of the operation the main thread is in.
OpInv ==
    /\ op.kind = "none" => op = NoOp /\ alive = mapped
    /\ op.kind = "bind" =>
          /\ op.at = "insert" /\ ~connected
          /\ \E p \in Ports : op.todo = {p} /\ alive = mapped \cup {p}
    /\ op.kind = "unbind" =>
          /\ op.at \in {"stop", "wait", "delete", "remove"} /\ ~connected
          /\ \E p \in Ports :
                /\ op.todo = {p}
                /\ alive = IF op.at = "remove" THEN mapped \ {p} ELSE mapped
    /\ op.kind = "cleanup" =>
          /\ op.at \in {"stop", "wait", "delete", "clear"}
          /\ alive = op.todo /\ op.todo \subseteq mapped
          /\ op.at = "clear" => op.todo = {}

\* A worker thread sends inside a connected handler only, the main thread
\* between two operations only; a send through the own port keeps its worker.
CallInv ==
    /\ op # NoOp => call[Main] = NoCall
    /\ \A p \in Ports : call[p] # NoCall =>
          /\ connected /\ thread[p] = "handling"
          /\ call[p].port = p => call[p].live

IndInv == TypeOK /\ SocketInv /\ OpInv /\ CallInv

-----------------------------------------------------------------------------

\* What builds a call, and what changes one, yields a call.
LEMMA CallTypes ==
    /\ \A a \in CallSteps, p \in Threads, b \in BOOLEAN :
          [at |-> a, port |-> p, live |-> b] \in Calls
    /\ \A c \in Calls :
          /\ c.at \in CallSteps /\ c.port \in Threads /\ c.live \in BOOLEAN
          /\ \A a \in CallSteps : [c EXCEPT !.at = a] \in Calls
          /\ [c EXCEPT !.live = FALSE] \in Calls
    /\ NoCall \in Calls
  BY DEF Calls, CallSteps, NoCall, Threads

\* The same for the operations of the main thread.
LEMMA OpTypes ==
    /\ \A k \in OpKinds, a \in OpSteps, S \in SUBSET Ports :
          [kind |-> k, at |-> a, todo |-> S] \in Ops
    /\ \A o \in Ops :
          /\ o.kind \in OpKinds /\ o.at \in OpSteps /\ o.todo \subseteq Ports
          /\ \A a \in OpSteps : [o EXCEPT !.at = a] \in Ops
          /\ \A a \in OpSteps, S \in SUBSET Ports :
                [o EXCEPT !.todo = S, !.at = a] \in Ops
    /\ NoOp \in Ops
  BY DEF Ops, OpKinds, OpSteps, NoOp

\* The invariant holds before anything is bound.
LEMMA InitIndInv == Init => IndInv
<1>. SUFFICES ASSUME Init PROVE IndInv
  OBVIOUS
<1>. USE UdpAssumption DEF Init
<1>1. TypeOK
  <2>1. call \in [Threads -> Calls] /\ op \in Ops
    BY CallTypes, OpTypes
  <2>2. /\ thread \in [Ports -> ThreadStates]
        /\ socket \in [Ports -> SocketStates]
    BY DEF ThreadStates, SocketStates
  <2>3. /\ inbox \in [Ports -> Nat]
        /\ arrived \in 0 .. MaxDatagrams
    OBVIOUS
  <2>. QED
    BY <2>1, <2>2, <2>3 DEF TypeOK
<1>2. SocketInv
  BY DEF SocketInv
<1>3. OpInv
  BY DEF OpInv, NoOp
<1>4. CallInv
  BY DEF CallInv, Threads
<1>. QED
  BY <1>1, <1>2, <1>3, <1>4 DEF IndInv

\* The types are kept: by the main thread's steps, a worker's, a call's.
LEMMA TypeStep == TypeOK /\ Next => TypeOK'
<1>. SUFFICES ASSUME TypeOK, Next PROVE TypeOK'
  OBVIOUS
<1>. USE UdpAssumption DEF TypeOK
<1>1. ASSUME MainStarts PROVE TypeOK'
  <2>1. op' \in Ops
    <3>1. ASSUME NEW p \in Ports, BindToPort(p) \/ UnbindFromPort(p)
          PROVE  op' \in Ops
      <4>1. \A k \in OpKinds, a \in OpSteps :
                [kind |-> k, at |-> a, todo |-> {p}] \in Ops
        BY OpTypes
      <4>. QED
        BY <3>1, <4>1 DEF BindToPort, UnbindFromPort, OpKinds, OpSteps
    <3>2. ASSUME Cleanup PROVE op' \in Ops
      BY <3>2, OpTypes DEF Cleanup, OpKinds, OpSteps
    <3>. QED
      BY <1>1, <3>1, <3>2 DEF MainStarts, ConnectClient
  <2>2. thread' \in [Ports -> ThreadStates]
    BY <1>1 DEF MainStarts, BindToPort, UnbindFromPort, Cleanup, ConnectClient,
                ThreadStates
  <2>. QED
    BY <1>1, <2>1, <2>2 DEF MainStarts, BindToPort, UnbindFromPort, Cleanup,
                            ConnectClient
<1>2. ASSUME OpStep PROVE TypeOK'
  <2>1. ASSUME NEW p \in Ports, StoreWorker(p) \/ StopWorker(p) \/ WaitWorker(p)
                                  \/ RemoveKey(p)
        PROVE  TypeOK'
    <3>1. op' \in Ops
      BY <2>1, OpTypes DEF StoreWorker, StopWorker, WaitWorker, RemoveKey, OpSteps
    <3>. QED
      BY <2>1, <3>1 DEF StoreWorker, StopWorker, WaitWorker, RemoveKey
  <2>2. ASSUME NEW p \in Ports, DeleteWorker(p)
        PROVE  TypeOK'
    <3>1. op' \in Ops
      BY <2>2, OpTypes DEF DeleteWorker, OpSteps
    <3>2. call' \in [Threads -> Calls]
      BY <2>2, CallTypes DEF DeleteWorker
    <3>3. /\ thread' \in [Ports -> ThreadStates]
          /\ socket' \in [Ports -> SocketStates]
      BY <2>2 DEF DeleteWorker, ThreadStates, SocketStates
    <3>4. crashed' \in BOOLEAN
      BY <2>2 DEF DeleteWorker
    <3>. QED
      BY <2>2, <3>1, <3>2, <3>3, <3>4 DEF DeleteWorker
  <2>3. ASSUME ClearMap PROVE TypeOK'
    BY <2>3, OpTypes DEF ClearMap
  <2>. QED
    BY <1>2, <2>1, <2>2, <2>3 DEF OpStep
<1>3. ASSUME NEW p \in Ports, RunStep(p)
      PROVE  TypeOK'
  <2>1. thread' \in [Ports -> ThreadStates]
    BY <1>3 DEF RunStep, RunBind, RunBindFails, RunConnectSlots, ReadyRead,
                ReadDatagram, HandlerReturns, ReadDone, LoopQuits, CloseSocket,
                DeleteSocket, NullSocket, Goes, ThreadStates
  <2>2. socket' \in [Ports -> SocketStates]
    BY <1>3 DEF RunStep, RunBind, RunBindFails, RunConnectSlots, ReadyRead,
                ReadDatagram, HandlerReturns, ReadDone, LoopQuits, CloseSocket,
                DeleteSocket, NullSocket, SocketStates
  <2>3. inbox' \in [Ports -> Nat]
    BY <1>3 DEF RunStep, RunBind, RunBindFails, RunConnectSlots, ReadyRead,
                ReadDatagram, HandlerReturns, ReadDone, LoopQuits, CloseSocket,
                DeleteSocket, NullSocket
  <2>4. slot' \subseteq Ports
    BY <1>3 DEF RunStep, RunBind, RunBindFails, RunConnectSlots, ReadyRead,
                ReadDatagram, HandlerReturns, ReadDone, LoopQuits, CloseSocket,
                DeleteSocket, NullSocket
  <2>. QED
    BY <1>3, <2>1, <2>2, <2>3, <2>4
       DEF RunStep, RunBind, RunBindFails, RunConnectSlots, ReadyRead,
           ReadDatagram, HandlerReturns, ReadDone, LoopQuits, CloseSocket,
           DeleteSocket, NullSocket
<1>4. ASSUME NEW p \in Ports, Arrive(p)
      PROVE  TypeOK'
  BY <1>4 DEF Arrive
<1>5. ASSUME NEW t \in Threads, ClientSends(t) \/ CallStep(t)
      PROVE  TypeOK'
  <2>1. call' \in [Threads -> Calls]
    <3>1. \A c \in Calls : MoveCall(t, c) => call' \in [Threads -> Calls]
      BY DEF MoveCall
    <3>2. PICK c : MoveCall(t, c) /\ (ClientSends(t) \/ CallStep(t)) /\ c \in Calls
      <4>1. ASSUME NEW p \in Ports, SendBytesByPort(t, p)
            PROVE  \E c \in Calls : MoveCall(t, c)
        BY <4>1, CallTypes DEF SendBytesByPort, CallSteps, Threads
      <4>2. ASSUME LookupWorker(t)
            PROVE  \E c \in Calls : MoveCall(t, c)
        <5> DEFINE p == call[t].port
                   b == p \in alive
        <5>1. p \in Threads
          BY CallTypes
        <5>2. b \in BOOLEAN
          OBVIOUS
        <5>3. [at |-> "emit", port |-> p, live |-> b] \in Calls
          BY <5>1, <5>2, CallTypes DEF CallSteps
        <5>. HIDE DEF b
        <5>. QED
          BY <4>2, <5>3, CallTypes DEF LookupWorker, b
      <4>3. ASSUME EmitRequest(t) \/ CheckSocket(t)
            PROVE  \E c \in Calls : MoveCall(t, c)
        BY <4>3, CallTypes DEF EmitRequest, CheckSocket, CallSteps
      <4>4. ASSUME WriteDatagram(t) \/ UseDeletedWorker(t)
            PROVE  \E c \in Calls : MoveCall(t, c)
        BY <4>4, CallTypes DEF WriteDatagram, UseDeletedWorker
      <4>. QED
        BY <1>5, <4>1, <4>2, <4>3, <4>4 DEF ClientSends, SendBytes, CallStep
    <3>. QED
      BY <3>1, <3>2
  <2>2. crashed' \in BOOLEAN
    BY <1>5 DEF ClientSends, SendBytes, SendBytesByPort, CallStep, LookupWorker,
                EmitRequest, CheckSocket, WriteDatagram, UseDeletedWorker
  <2>. QED
    BY <1>5, <2>1, <2>2
       DEF ClientSends, SendBytes, SendBytesByPort, CallStep, LookupWorker,
           EmitRequest, CheckSocket, WriteDatagram, UseDeletedWorker
<1>. QED
  BY <1>1, <1>2, <1>3, <1>4, <1>5 DEF Next

\* The steps that leave a part of the state alone, once for all.
LEMMA Frames ==
    /\ \A p \in Ports : RunStep(p) =>
          UNCHANGED <<mapped, alive, exited, arrived, connected, call, op, crashed>>
    /\ \A t \in Threads : ClientSends(t) \/ CallStep(t) =>
          UNCHANGED <<mapped, alive, thread, socket, slot, exited, inbox,
                      arrived, connected, op>>
<1>1. ASSUME NEW p \in Ports, RunStep(p)
      PROVE  UNCHANGED <<mapped, alive, exited, arrived, connected, call, op, crashed>>
  BY <1>1 DEF RunStep, RunBind, RunBindFails, RunConnectSlots, ReadyRead,
              ReadDatagram, HandlerReturns, ReadDone, LoopQuits, CloseSocket,
              DeleteSocket, NullSocket
<1>2. ASSUME NEW t \in Threads, ClientSends(t) \/ CallStep(t)
      PROVE  UNCHANGED <<mapped, alive, thread, socket, slot, exited, inbox,
                         arrived, connected, op>>
  BY <1>2 DEF ClientSends, SendBytes, SendBytesByPort, CallStep, LookupWorker,
              EmitRequest, CheckSocket, WriteDatagram, UseDeletedWorker
<1>. QED
  BY <1>1, <1>2

\* Every step keeps the relation of a worker's thread to its socket.
LEMMA SocketStep == TypeOK /\ SocketInv /\ OpInv /\ Next => SocketInv'
<1>. SUFFICES ASSUME TypeOK, SocketInv, OpInv, Next PROVE SocketInv'
  OBVIOUS
<1>1. ASSUME UNCHANGED <<thread, socket, alive, slot>> PROVE SocketInv'
  BY <1>1 DEF SocketInv
<1>2. ASSUME NEW p \in Ports, BindToPort(p)
      PROVE  SocketInv'
  <2>1. p \notin alive
    BY <1>2 DEF BindToPort, OpInv, NoOp
  <2>. QED
    BY <1>2, <2>1 DEF BindToPort, SocketInv, TypeOK
<1>3. ASSUME NEW p \in Ports, DeleteWorker(p)
      PROVE  SocketInv'
  BY <1>3 DEF DeleteWorker, SocketInv, TypeOK
<1>4. ASSUME NEW p \in Ports, RunStep(p)
      PROVE  SocketInv'
  <2>. USE Frames DEF SocketInv, TypeOK, Goes
  <2>1. CASE RunBind(p) \/ RunBindFails(p)
    BY <1>4, <2>1 DEF RunBind, RunBindFails
  <2>2. CASE RunConnectSlots(p)
    BY <1>4, <2>2 DEF RunConnectSlots
  <2>3. CASE ReadyRead(p) \/ ReadDatagram(p) \/ HandlerReturns(p) \/ ReadDone(p)
    BY <1>4, <2>3 DEF ReadyRead, ReadDatagram, HandlerReturns, ReadDone
  <2>4. CASE LoopQuits(p) \/ CloseSocket(p)
    BY <1>4, <2>4 DEF LoopQuits, CloseSocket
  <2>5. CASE DeleteSocket(p) \/ NullSocket(p)
    BY <1>4, <2>5 DEF DeleteSocket, NullSocket
  <2>. QED
    BY <1>4, <2>1, <2>2, <2>3, <2>4, <2>5 DEF RunStep
<1>. QED
  BY <1>1, <1>2, <1>3, <1>4, Frames
     DEF Next, MainStarts, UnbindFromPort, Cleanup, ConnectClient, OpStep,
         StoreWorker, StopWorker, WaitWorker, RemoveKey, ClearMap, Arrive

\* Every step keeps what a bind, unbind or cleanup relies on.
LEMMA OpInvStep == TypeOK /\ OpInv /\ Next => OpInv'
<1>. SUFFICES ASSUME TypeOK, OpInv, Next PROVE OpInv'
  OBVIOUS
<1>1. ASSUME UNCHANGED <<op, alive, mapped, connected>> PROVE OpInv'
  BY <1>1 DEF OpInv
<1>2. ASSUME MainStarts PROVE OpInv'
  <2>1. ASSUME NEW p \in Ports, BindToPort(p) \/ UnbindFromPort(p)
        PROVE  OpInv'
    BY <2>1 DEF OpInv, NoOp, BindToPort, UnbindFromPort
  <2>2. ASSUME Cleanup PROVE OpInv'
    BY <2>2 DEF OpInv, NoOp, Cleanup
  <2>3. ASSUME ConnectClient PROVE OpInv'
    BY <2>3 DEF OpInv, NoOp, ConnectClient
  <2>. QED
    BY <1>2, <2>1, <2>2, <2>3 DEF MainStarts
<1>3. ASSUME OpStep PROVE OpInv'
  <2>. op.kind \in OpKinds /\ op \in Ops
    BY OpTypes DEF TypeOK
  <2>1. ASSUME NEW p \in Ports, StoreWorker(p)
        PROVE  OpInv'
    BY <2>1 DEF OpInv, NoOp, StoreWorker, OpKinds
  <2>2. ASSUME NEW p \in Ports, StopWorker(p) \/ WaitWorker(p)
        PROVE  OpInv'
    BY <2>2 DEF OpInv, NoOp, StopWorker, WaitWorker, OpKinds, Ops, IsNext
  <2>3. ASSUME NEW p \in Ports, DeleteWorker(p)
        PROVE  OpInv'
    BY <2>3 DEF OpInv, NoOp, DeleteWorker, OpKinds, Ops, IsNext, TypeOK
  <2>4. ASSUME NEW p \in Ports, RemoveKey(p)
        PROVE  OpInv'
    BY <2>4 DEF OpInv, NoOp, RemoveKey, OpKinds, IsNext
  <2>5. ASSUME ClearMap PROVE OpInv'
    BY <2>5 DEF OpInv, NoOp, ClearMap, OpKinds
  <2>. QED
    BY <1>3, <2>1, <2>2, <2>3, <2>4, <2>5 DEF OpStep
<1>. QED
  BY <1>1, <1>2, <1>3, Frames DEF Next, Arrive

\* Every step keeps what a send relies on: worker and socket of the own port.
LEMMA CallInvStep ==
    TypeOK /\ SocketInv /\ OpInv /\ CallInv /\ Next => CallInv'
<1>. SUFFICES ASSUME TypeOK, SocketInv, OpInv, CallInv, Next PROVE CallInv'
  OBVIOUS
<1>1. ASSUME UNCHANGED <<call, connected, thread, op>> PROVE CallInv'
  BY <1>1 DEF CallInv
<1>2. ASSUME call[Main] = NoCall, MainStarts PROVE CallInv'
  BY <1>2 DEF CallInv, MainStarts, BindToPort, UnbindFromPort, Cleanup,
              ConnectClient, TypeOK
<1>3. ASSUME OpStep PROVE CallInv'
  <2>1. op # NoOp /\ connected' = connected
    <3>1. op.at # "idle" /\ connected' = connected
      BY <1>3 DEF OpStep, StoreWorker, StopWorker, WaitWorker, DeleteWorker,
                  RemoveKey, ClearMap
    <3>. QED
      BY <3>1 DEF NoOp
  <2>2. ASSUME NEW p \in Ports, DeleteWorker(p)
        PROVE  CallInv'
    <3>1. call'[Main] = NoCall
      BY <2>1, <2>2, UdpAssumption DEF DeleteWorker, CallInv, NoCall, Threads
    <3>2. ASSUME NEW q \in Ports, call'[q] # NoCall
          PROVE  /\ connected' /\ thread'[q] = "handling"
                 /\ call'[q].port = q => call'[q].live
      <4>1. call[q] # NoCall
        BY <2>2, <3>2, UdpAssumption DEF DeleteWorker, NoCall, Threads
      <4>2. connected /\ thread[q] = "handling" /\ q # p
        BY <2>2, <4>1 DEF CallInv, DeleteWorker, Joined
      <4>3. thread'[q] = "handling"
        BY <2>2, <4>2 DEF DeleteWorker, TypeOK
      <4>4. call[q].port = q => call'[q] = call[q]
        BY <2>2, <4>2 DEF DeleteWorker, Threads
      <4>5. call'[q].port = call[q].port
        BY <2>2 DEF DeleteWorker, Threads, TypeOK, Calls
      <4>. QED
        BY <2>1, <4>1, <4>2, <4>3, <4>4, <4>5 DEF CallInv
    <3>. QED
      BY <3>1, <3>2 DEF CallInv
  <2>3. CASE UNCHANGED <<call, thread>>
    BY <2>1, <2>3 DEF CallInv
  <2>. QED
    BY <1>3, <2>2, <2>3 DEF OpStep, StoreWorker, StopWorker, WaitWorker,
                            RemoveKey, ClearMap
<1>4. ASSUME NEW p \in Ports, RunStep(p)
      PROVE  CallInv'
  <2>1. \A q \in Ports : call[q] # NoCall => thread'[q] = thread[q]
    BY <1>4 DEF CallInv, RunStep, RunBind, RunBindFails, RunConnectSlots,
                ReadyRead, ReadDatagram, HandlerReturns, ReadDone, LoopQuits,
                CloseSocket, DeleteSocket, NullSocket, Goes, TypeOK
  <2>. QED
    BY <1>4, <2>1, Frames DEF CallInv
<1>5. ASSUME NEW t \in Threads, ClientSends(t)
      PROVE  CallInv'
  <2>1. PICK p \in Ports : SendBytesByPort(t, p) /\ RunsClient(t)
    BY <1>5 DEF ClientSends, SendBytes, TypeOK
  <2>. QED
    BY <2>1, UdpAssumption DEF CallInv, SendBytesByPort, RunsClient, MoveCall,
                               TypeOK, Threads
<1>6. ASSUME NEW t \in Threads, CallStep(t)
      PROVE  CallInv'
  <2>. DEFINE c == call'[t]
  <2>1. /\ call[t] # NoCall
        /\ call' = [call EXCEPT ![t] = c]
    <3>1. call[t].at # "idle" /\ \E d : MoveCall(t, d)
      BY <1>6 DEF CallStep, LookupWorker, EmitRequest, CheckSocket,
                  WriteDatagram, UseDeletedWorker
    <3>2. call[t] # NoCall
      BY <3>1 DEF NoCall
    <3>. QED
      BY <3>1, <3>2 DEF MoveCall, TypeOK
  <2>2. t \in Ports => t \in alive
    BY <2>1 DEF CallInv, SocketInv
  <2>3. t \in Ports /\ c # NoCall /\ c.port = t => c.live
    <3>. SUFFICES ASSUME t \in Ports, c # NoCall, c.port = t PROVE c.live
      OBVIOUS
    <3>. t \in Threads /\ call[t] \in Calls
      BY DEF Threads, TypeOK
    <3>1. CASE LookupWorker(t)
      <4>1. c = NoCall \/ c = [at |-> "emit", port |-> call[t].port,
                               live |-> call[t].port \in alive]
        BY <3>1 DEF LookupWorker, MoveCall, TypeOK
      <4>2. c.port = call[t].port /\ c.live = (call[t].port \in alive)
        BY <4>1
      <4>. QED
        BY <2>2, <4>2
    <3>2. CASE EmitRequest(t) \/ CheckSocket(t)
      BY <3>2 DEF EmitRequest, CheckSocket, MoveCall, TypeOK, Calls
    <3>3. CASE WriteDatagram(t) \/ UseDeletedWorker(t)
      BY <3>3 DEF WriteDatagram, UseDeletedWorker, MoveCall, TypeOK
    <3>. QED
      BY <1>6, <3>1, <3>2, <3>3 DEF CallStep
  <2>4. UNCHANGED <<connected, thread, op>>
    BY <1>6, Frames
  <2>. HIDE DEF c
  <2>. QED
    BY <2>1, <2>3, <2>4 DEF CallInv, TypeOK, Threads
<1>. QED
  BY <1>1, <1>2, <1>3, <1>4, <1>5, <1>6 DEF Next, Arrive

\* The parts together: the invariant is inductive.
LEMMA Inductive == IndInv /\ [Next]_vars => IndInv'
<1>1. CASE UNCHANGED vars
  BY <1>1 DEF vars, IndInv, TypeOK, SocketInv, OpInv, CallInv, Joined
<1>2. CASE Next
  BY <1>2, TypeStep, SocketStep, OpInvStep, CallInvStep DEF IndInv
<1>. QED
  BY <1>1, <1>2

\* So it holds in every state of every behaviour.
LEMMA Invariance == Spec => []IndInv
  BY InitIndInv, Inductive, PTL DEF Spec

-----------------------------------------------------------------------------

\* Type correctness.
THEOREM TypeCorrect == Spec => []TypeOK
<1>1. IndInv => TypeOK
  BY DEF IndInv
<1>. QED
  BY <1>1, Invariance, PTL

\* Whatever the main thread does, a handler's send through the port it received
\* on has a live worker and an open socket until it is written
\* (udp_interface.cpp 127-151 against 26-43 and 89-103).
THEOREM OwnPortSafety == Spec => []OwnPortIsSafe
<1>1. IndInv => OwnPortIsSafe
  <2>. SUFFICES ASSUME IndInv, NEW p \in Ports,
                       call[p] # NoCall, call[p].port = p
                PROVE  /\ p \in mapped \cap alive /\ call[p].live
                       /\ socket[p] = "open" /\ p \in slot
    BY DEF OwnPortIsSafe
  <2>1. connected /\ thread[p] = "handling" /\ call[p].live
    BY DEF IndInv, CallInv
  <2>2. p \in alive /\ socket[p] = "open" /\ p \in slot
    BY <2>1 DEF IndInv, SocketInv
  <2>3. p \in mapped
    BY <2>1, <2>2, OpTypes DEF IndInv, OpInv, TypeOK, OpKinds
  <2>. QED
    BY <2>1, <2>2, <2>3
<1>. QED
  BY <1>1, Invariance, PTL

\* No thread looks a worker up while the main thread writes m_workers.
THEOREM MapSafety == Spec => []MapReadersExcludeWriters
<1>1. IndInv => MapReadersExcludeWriters
  <2>. SUFFICES ASSUME IndInv, op.at \in MapWrites, NEW t \in Threads
                PROVE  call[t] = NoCall
    BY DEF MapReadersExcludeWriters
  <2>1. op # NoOp
    BY DEF MapWrites, NoOp
  <2>2. CASE t = Main
    BY <2>1, <2>2 DEF IndInv, CallInv
  <2>3. CASE t \in Ports
    <3>1. ~connected \/ alive = {}
      <4>1. op.kind \in OpKinds
        BY OpTypes DEF IndInv, TypeOK
      <4>2. CASE op.kind = "none"
        BY <2>1, <4>2 DEF IndInv, OpInv
      <4>3. CASE op.kind \in {"bind", "unbind"}
        BY <4>3 DEF IndInv, OpInv
      <4>4. CASE op.kind = "cleanup"
        BY <4>4 DEF IndInv, OpInv, MapWrites
      <4>. QED
        BY <4>1, <4>2, <4>3, <4>4 DEF OpKinds
    <3>. QED
      BY <2>3, <3>1 DEF IndInv, CallInv, SocketInv
  <2>. QED
    BY <2>2, <2>3 DEF Threads
<1>. QED
  BY <1>1, Invariance, PTL

\* An empty map between two operations means that no worker thread is left.
THEOREM QuietWhenEmpty == Spec => []EmptyMapMeansQuiet
<1>1. IndInv => EmptyMapMeansQuiet
  BY DEF IndInv, EmptyMapMeansQuiet, OpInv, SocketInv, CallInv, NoOp
<1>. QED
  BY <1>1, Invariance, PTL

\* A worker is deleted only when its thread has ended and taken the socket with
\* it, so the destructor never closes or deletes a socket (udp_worker.cpp 9-18).
THEOREM DestructorSafety == Spec => DestructorFindsNoSocket
<1>1. IndInv /\ [Next]_vars
         => [\A p \in Ports : p \in alive \ alive'
                => Joined(p) /\ socket[p] = "null"]_vars
  <2>. SUFFICES ASSUME IndInv, Next, NEW p \in Ports, p \in alive \ alive'
                PROVE  Joined(p) /\ socket[p] = "null"
    OBVIOUS
  <2>1. DeleteWorker(p)
    <3>1. ASSUME MainStarts PROVE FALSE
      BY <3>1 DEF MainStarts, BindToPort, UnbindFromPort, Cleanup, ConnectClient
    <3>2. ASSUME OpStep PROVE DeleteWorker(p)
      <4>1. PICK q \in Ports : DeleteWorker(q)
        BY <3>2 DEF OpStep, StoreWorker, StopWorker, WaitWorker, RemoveKey, ClearMap
      <4>2. q = p
        BY <4>1 DEF DeleteWorker
      <4>. QED
        BY <4>1, <4>2
    <3>. QED
      BY <3>1, <3>2, Frames DEF Next, Arrive
  <2>. QED
    BY <2>1 DEF DeleteWorker, Joined, IndInv, SocketInv
<1>. QED
  BY <1>1, Invariance, PTL DEF Spec, DestructorFindsNoSocket

=============================================================================
