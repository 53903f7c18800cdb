---------------------------- MODULE UdpInterface ----------------------------
(***************************************************************************)
(* UDPInterface and its UDPWorker threads (network/udp_interface.cpp,      *)
(* network/udp_worker.cpp): one worker thread per bound port, which reads  *)
(* datagrams and runs the client's handler in its own thread, and sends    *)
(* that any thread makes through the worker of any port.                   *)
(*                                                                         *)
(* Every connection is a Qt::DirectConnection, so emit is a call: a send   *)
(* looks the worker up, emits requestSendData and runs sendData in the     *)
(* thread of the caller.  Payloads and peer addresses are abstracted away. *)
(*                                                                         *)
(* Client discipline (core/meta_manage.cpp 44-65): the main thread binds   *)
(* first, then connects dataReceivedOnPort once; handlers send only after. *)
(* Only the main thread binds, unbinds and cleans up.                      *)
(***************************************************************************)
EXTENDS Naturals

CONSTANTS
    Ports,         \* the port numbers a worker may be bound to (keys of m_workers)
    Main,          \* the thread that runs main(); a worker thread is named by its port
    MaxDatagrams   \* bound: datagrams that arrive in a behaviour

ASSUME UdpAssumption ==
    /\ Ports \subseteq Nat
    /\ Main \in Nat \ Ports
    /\ MaxDatagrams \in Nat

VARIABLES
    mapped,     \* the keys of m_workers; the value of key p is the worker of p
    alive,      \* the ports whose UDPWorker object exists
    thread,     \* where the thread of the worker of p is in run()
    socket,     \* what the m_socket pointer of the worker of p points to
    slot,       \* the ports whose requestSendData is connected to sendData
    exited,     \* the ports whose QThread has been told to quit()
    inbox,      \* datagrams queued in the socket of p
    arrived,    \* datagrams that have arrived so far, on all ports
    connected,  \* dataReceivedOnPort is connected to the client
    call,       \* the sendBytesByPort call a thread is in, if any
    op,         \* the bind, unbind or cleanup the main thread is in, if any
    crashed     \* the process has died of a use of freed memory

vars == <<mapped, alive, thread, socket, slot, exited, inbox, arrived,
          connected, call, op, crashed>>

-----------------------------------------------------------------------------

Threads == Ports \cup {Main}

ThreadStates ==
    {"none",       \* no worker for this port
     "started",    \* start() called, bind() not reached
     "bound",      \* bind() succeeded, slots not yet connected
     "looping",    \* in exec(), or about to enter it
     "reading",    \* in onReadyRead, at the test of its while loop
     "handling",   \* in the handlers of dataReceived
     "closing",    \* exec() has returned
     "deleting",   \* m_socket->close() done
     "nulling",    \* delete m_socket done, the pointer still set
     "finished"}   \* run() has returned

SocketStates == {"null", "open", "closed", "deleted"}

CallSteps == {"idle", "lookup", "emit", "check", "write"}

\* live: the worker the call has in hand has not been deleted under it.
Calls == [at : CallSteps, port : Threads, live : BOOLEAN]

NoCall == [at |-> "idle", port |-> Main, live |-> TRUE]

OpKinds == {"none", "bind", "unbind", "cleanup"}

OpSteps == {"idle", "insert", "stop", "wait", "delete", "remove", "clear"}

\* todo: the workers the operation still has to store or to destroy.
Ops == [kind : OpKinds, at : OpSteps, todo : SUBSET Ports]

NoOp == [kind |-> "none", at |-> "idle", todo |-> {}]

\* The steps of an operation that write the map m_workers.
MapWrites == {"insert", "remove", "clear"}

Init ==
    /\ mapped = {} /\ alive = {} /\ slot = {} /\ exited = {}
    /\ thread = [p \in Ports |-> "none"]
    /\ socket = [p \in Ports |-> "null"]
    /\ inbox = [p \in Ports |-> 0]
    /\ arrived = 0
    /\ connected = FALSE
    /\ call = [t \in Threads |-> NoCall]
    /\ op = NoOp
    /\ crashed = FALSE

-----------------------------------------------------------------------------
(* The main thread: bindToPort, unbindFromPort, cleanup.                   *)

\* bindToPort up to worker->start(): the thread runs before the map knows it.
BindToPort(p) ==
    /\ op = NoOp /\ ~connected
    /\ p \notin mapped
    /\ alive' = alive \cup {p}
    /\ thread' = [thread EXCEPT ![p] = "started"]
    /\ slot' = slot \ {p}
    /\ exited' = exited \ {p}
    /\ op' = [kind |-> "bind", at |-> "insert", todo |-> {p}]
    /\ UNCHANGED <<mapped, socket, inbox, arrived, connected, call, crashed>>

\* m_workers[port] = worker; return true, whatever run() has come to.
StoreWorker(p) ==
    /\ op.at = "insert" /\ p \in op.todo
    /\ mapped' = mapped \cup {p}
    /\ op' = NoOp
    /\ UNCHANGED <<alive, thread, socket, slot, exited, inbox, arrived,
                   connected, call, crashed>>

\* unbindFromPort, which the program never calls after connecting handlers.
UnbindFromPort(p) ==
    /\ op = NoOp /\ ~connected
    /\ p \in mapped
    /\ op' = [kind |-> "unbind", at |-> "stop", todo |-> {p}]
    /\ UNCHANGED <<mapped, alive, thread, socket, slot, exited, inbox, arrived,
                   connected, call, crashed>>

\* Mutant of Cleanup: the map is cleared without a look at the workers.
CleanupClearsFirst ==
    /\ op = NoOp
    /\ op' = [kind |-> "cleanup", todo |-> mapped, at |-> "clear"]
    /\ UNCHANGED <<mapped, alive, thread, socket, slot, exited, inbox, arrived,
                   connected, call, crashed>>

\* Mutant of Cleanup: the loop over the keys misses the first one.
CleanupMissesFirst ==
    LET rest == {p \in mapped : \E q \in mapped : q < p} IN
    /\ op = NoOp
    /\ op' = [kind |-> "cleanup", todo |-> rest,
              at |-> IF rest = {} THEN "clear" ELSE "stop"]
    /\ UNCHANGED <<mapped, alive, thread, socket, slot, exited, inbox, arrived,
                   connected, call, crashed>>

\* cleanup() takes a copy of the keys and then goes through them.
Cleanup ==
    /\ op = NoOp
    /\ op' = [kind |-> "cleanup", todo |-> mapped,
              at |-> IF mapped = {} THEN "clear" ELSE "stop"]
    /\ UNCHANGED <<mapped, alive, thread, socket, slot, exited, inbox, arrived,
                   connected, call, crashed>>

\* Mutant of IsNext: the workers are destroyed in descending order.
IsNextDescending(p) == p \in op.todo /\ \A q \in op.todo : p >= q

\* QMap::keys() is in ascending order.
IsNext(p) == p \in op.todo /\ \A q \in op.todo : p <= q

\* Mutant of StopWorker: only m_running is cleared, which run() never reads.
StopWorkerFlagOnly(p) ==
    /\ op.at = "stop" /\ IsNext(p)
    /\ op' = [op EXCEPT !.at = "wait"]
    /\ UNCHANGED <<mapped, alive, thread, socket, slot, exited, inbox, arrived,
                   connected, call, crashed>>

\* worker->stop(): quit() is remembered even when exec() has not begun.
StopWorker(p) ==
    /\ op.at = "stop" /\ IsNext(p)
    /\ exited' = exited \cup {p}
    /\ op' = [op EXCEPT !.at = "wait"]
    /\ UNCHANGED <<mapped, alive, thread, socket, slot, inbox, arrived,
                   connected, call, crashed>>

\* Mutant of Joined: the thread has been told to quit, and is not waited for.
ToldToQuit(p) == p \in exited

\* QThread::wait(): the thread of p is not running.
Joined(p) == thread[p] \in {"none", "finished"}

WaitWorker(p) ==
    /\ op.at = "wait" /\ IsNext(p)
    /\ Joined(p)
    /\ op' = [op EXCEPT !.at = "delete"]
    /\ UNCHANGED <<mapped, alive, thread, socket, slot, exited, inbox, arrived,
                   connected, call, crashed>>

\* delete worker: the destructor stops and joins again, then closes and
\* deletes m_socket if it is set - twice, if run() has deleted it already.
\* The key stays in the map.
DeleteWorker(p) ==
    /\ op.at = "delete" /\ IsNext(p)
    /\ Joined(p)
    /\ alive' = alive \ {p}
    /\ exited' = exited \cup {p}
    /\ thread' = [thread EXCEPT ![p] = "none"]
    /\ socket' = [socket EXCEPT ![p] = "null"]
    /\ crashed' \in (IF socket[p] = "deleted" THEN BOOLEAN ELSE {FALSE})
    /\ call' = [t \in Threads |->
                   IF call[t].port = p THEN [call[t] EXCEPT !.live = FALSE]
                                       ELSE call[t]]
    /\ op' = IF op.kind = "unbind"
               THEN [op EXCEPT !.at = "remove"]
               ELSE [op EXCEPT !.todo = @ \ {p},
                               !.at = IF op.todo = {p} THEN "clear" ELSE "stop"]
    /\ UNCHANGED <<mapped, slot, inbox, arrived, connected>>

\* m_workers.remove(port)
RemoveKey(p) ==
    /\ op.at = "remove" /\ IsNext(p)
    /\ mapped' = mapped \ {p}
    /\ op' = NoOp
    /\ UNCHANGED <<alive, thread, socket, slot, exited, inbox, arrived,
                   connected, call, crashed>>

\* m_workers.clear(), after the last worker is gone.
ClearMap ==
    /\ op.at = "clear"
    /\ mapped' = {}
    /\ op' = NoOp
    /\ UNCHANGED <<alive, thread, socket, slot, exited, inbox, arrived,
                   connected, call, crashed>>

\* The client connects its handlers to dataReceivedOnPort.
ConnectClient ==
    /\ op = NoOp /\ ~connected
    /\ connected' = TRUE
    /\ UNCHANGED <<mapped, alive, thread, socket, slot, exited, inbox, arrived,
                   call, op, crashed>>

-----------------------------------------------------------------------------
(* A worker thread: run() and onReadyRead().                               *)

\* Moves the thread of p, which is at one of the states from, to the state to.
Goes(p, from, to) ==
    /\ thread[p] = from
    /\ thread' = [thread EXCEPT ![p] = to]

RunBind(p) ==
    /\ Goes(p, "started", "bound")
    /\ socket' = [socket EXCEPT ![p] = "open"]
    /\ UNCHANGED <<mapped, alive, slot, exited, inbox, arrived, connected,
                   call, op, crashed>>

\* Mutant of RunBindFails: the slots are connected before bind() is tried, and
\* the pointer to the deleted socket is kept.
RunBindFailsLate(p) ==
    /\ Goes(p, "started", "finished")
    /\ slot' = slot \cup {p}
    /\ socket' = [socket EXCEPT ![p] = "deleted"]
    /\ UNCHANGED <<mapped, alive, exited, inbox, arrived, connected, call, op,
                   crashed>>

\* bind() fails: the socket is deleted, errorOccurred is logged, run() returns.
RunBindFails(p) ==
    /\ Goes(p, "started", "finished")
    /\ UNCHANGED <<mapped, alive, socket, slot, exited, inbox, arrived,
                   connected, call, op, crashed>>

RunConnectSlots(p) ==
    /\ Goes(p, "bound", "looping")
    /\ slot' = slot \cup {p}
    /\ UNCHANGED <<mapped, alive, socket, exited, inbox, arrived, connected,
                   call, op, crashed>>

\* The event loop delivers readyRead.
ReadyRead(p) ==
    /\ inbox[p] > 0
    /\ Goes(p, "looping", "reading")
    /\ UNCHANGED <<mapped, alive, socket, slot, exited, inbox, arrived,
                   connected, call, op, crashed>>

\* Mutant of ReadDatagram: the test of the loop comes after the read.
ReadDatagramUntested(p) ==
    /\ inbox' = [inbox EXCEPT ![p] = @ - 1]
    /\ Goes(p, "reading", "handling")
    /\ UNCHANGED <<mapped, alive, socket, slot, exited, arrived, connected,
                   call, op, crashed>>

\* One turn of the while loop; an empty datagram is read but not announced.
ReadDatagram(p) ==
    /\ inbox[p] > 0
    /\ inbox' = [inbox EXCEPT ![p] = @ - 1]
    /\ \/ Goes(p, "reading", "handling")
       \/ Goes(p, "reading", "reading")
    /\ UNCHANGED <<mapped, alive, socket, slot, exited, arrived, connected,
                   call, op, crashed>>

HandlerReturns(p) ==
    /\ call[p] = NoCall
    /\ Goes(p, "handling", "reading")
    /\ UNCHANGED <<mapped, alive, socket, slot, exited, inbox, arrived,
                   connected, call, op, crashed>>

\* hasPendingDatagrams() is false: back to the event loop.
ReadDone(p) ==
    /\ inbox[p] = 0
    /\ Goes(p, "reading", "looping")
    /\ UNCHANGED <<mapped, alive, socket, slot, exited, inbox, arrived,
                   connected, call, op, crashed>>

\* exec() returns once quit() has been called, before or during the loop.
LoopQuits(p) ==
    /\ p \in exited
    /\ Goes(p, "looping", "closing")
    /\ UNCHANGED <<mapped, alive, socket, slot, exited, inbox, arrived,
                   connected, call, op, crashed>>

\* m_socket->close() drops what is queued.
CloseSocket(p) ==
    /\ Goes(p, "closing", "deleting")
    /\ socket' = [socket EXCEPT ![p] = "closed"]
    /\ inbox' = [inbox EXCEPT ![p] = 0]
    /\ UNCHANGED <<mapped, alive, slot, exited, arrived, connected, call, op,
                   crashed>>

DeleteSocket(p) ==
    /\ Goes(p, "deleting", "nulling")
    /\ socket' = [socket EXCEPT ![p] = "deleted"]
    /\ UNCHANGED <<mapped, alive, slot, exited, inbox, arrived, connected,
                   call, op, crashed>>

\* Mutant of NullSocket: run() leaves the pointer as it is.
LeaveSocketPointer(p) ==
    /\ Goes(p, "nulling", "finished")
    /\ UNCHANGED <<mapped, alive, socket, slot, exited, inbox, arrived,
                   connected, call, op, crashed>>

NullSocket(p) ==
    /\ Goes(p, "nulling", "finished")
    /\ socket' = [socket EXCEPT ![p] = "null"]
    /\ UNCHANGED <<mapped, alive, slot, exited, inbox, arrived, connected,
                   call, op, crashed>>

\* A datagram reaches the bound socket of p.
Arrive(p) ==
    /\ arrived < MaxDatagrams
    /\ socket[p] = "open"
    /\ inbox' = [inbox EXCEPT ![p] = @ + 1]
    /\ arrived' = arrived + 1
    /\ UNCHANGED <<mapped, alive, thread, socket, slot, exited, connected,
                   call, op, crashed>>

-----------------------------------------------------------------------------
(* Any thread: sendBytesByPort, sendBytes, sendData.                       *)

\* t is where the client's code runs: main() between two operations, or a
\* handler of dataReceivedOnPort in a worker thread.
RunsClient(t) ==
    IF t = Main THEN op = NoOp
                ELSE connected /\ thread[t] = "handling"

MoveCall(t, step) == call' = [call EXCEPT ![t] = step]

SendBytesByPort(t, p) ==
    /\ call[t] = NoCall
    /\ MoveCall(t, [at |-> "lookup", port |-> p, live |-> TRUE])
    /\ UNCHANGED <<mapped, alive, thread, socket, slot, exited, inbox, arrived,
                   connected, op, crashed>>

\* sendBytes takes the first worker of the map instead of a given one.
SendBytes(t) ==
    \E p \in mapped :
        /\ \A q \in mapped : p <= q
        /\ SendBytesByPort(t, p)

\* m_workers.contains(p), then m_workers[p]: the pointer may be dangling.
LookupWorker(t) ==
    LET p == call[t].port IN
    /\ call[t].at = "lookup"
    /\ IF p \in mapped
         THEN MoveCall(t, [at |-> "emit", port |-> p, live |-> p \in alive])
         ELSE MoveCall(t, NoCall)
    /\ UNCHANGED <<mapped, alive, thread, socket, slot, exited, inbox, arrived,
                   connected, op, crashed>>

\* emit worker->requestSendData: calls sendData, if it is connected yet.
EmitRequest(t) ==
    LET p == call[t].port IN
    /\ call[t].at = "emit" /\ call[t].live
    /\ MoveCall(t, IF p \in slot THEN [call[t] EXCEPT !.at = "check"] ELSE NoCall)
    /\ UNCHANGED <<mapped, alive, thread, socket, slot, exited, inbox, arrived,
                   connected, op, crashed>>

\* if (!m_socket) return;
CheckSocket(t) ==
    LET p == call[t].port IN
    /\ call[t].at = "check" /\ call[t].live
    /\ MoveCall(t, IF socket[p] = "null" THEN NoCall
                                         ELSE [call[t] EXCEPT !.at = "write"])
    /\ UNCHANGED <<mapped, alive, thread, socket, slot, exited, inbox, arrived,
                   connected, op, crashed>>

\* m_socket->writeDatagram, which reads the pointer again: null or freed by
\* now, the process may die of it.
WriteDatagram(t) ==
    LET p == call[t].port IN
    /\ call[t].at = "write" /\ call[t].live
    /\ MoveCall(t, NoCall)
    /\ crashed' \in (IF socket[p] \in {"null", "deleted"} THEN BOOLEAN ELSE {FALSE})
    /\ UNCHANGED <<mapped, alive, thread, socket, slot, exited, inbox, arrived,
                   connected, op>>

\* The call touches a worker that is deleted: it dies of it, or gets away.
UseDeletedWorker(t) ==
    /\ call[t].at \in {"emit", "check", "write"} /\ ~call[t].live
    /\ MoveCall(t, NoCall)
    /\ crashed' \in BOOLEAN
    /\ UNCHANGED <<mapped, alive, thread, socket, slot, exited, inbox, arrived,
                   connected, op>>

-----------------------------------------------------------------------------

\* The steps of the operation the main thread is in.
OpStep ==
    \/ \E p \in Ports : \/ StoreWorker(p) \/ StopWorker(p)
                        \/ WaitWorker(p) \/ DeleteWorker(p) \/ RemoveKey(p)
    \/ ClearMap

\* The steps of the thread of p that wait for nobody.
RunStep(p) ==
    \/ RunBind(p) \/ RunBindFails(p) \/ RunConnectSlots(p)
    \/ ReadyRead(p) \/ ReadDatagram(p) \/ HandlerReturns(p) \/ ReadDone(p)
    \/ LoopQuits(p) \/ CloseSocket(p) \/ DeleteSocket(p) \/ NullSocket(p)

\* The steps of a call thread t is in.
CallStep(t) ==
    \/ LookupWorker(t) \/ EmitRequest(t) \/ CheckSocket(t)
    \/ WriteDatagram(t) \/ UseDeletedWorker(t)

\* What the client may start in the main thread, besides a send.
MainStarts ==
    \/ \E p \in Ports : BindToPort(p) \/ UnbindFromPort(p)
    \/ Cleanup
    \/ ConnectClient

ClientSends(t) ==
    /\ RunsClient(t)
    /\ SendBytes(t) \/ \E p \in Ports : SendBytesByPort(t, p)

Next ==
    /\ ~crashed
    /\ \/ call[Main] = NoCall /\ (MainStarts \/ OpStep)
       \/ \E p \in Ports : RunStep(p) \/ Arrive(p)
       \/ \E t \in Threads : ClientSends(t) \/ CallStep(t)

Spec == Init /\ [][Next]_vars

(***************************************************************************)
(* Fairness.  The system schedules every runnable thread.  A handler makes *)
(* a bounded number of sends (at most two in core/meta_manage.cpp), which  *)
(* the model does not count: strong fairness of its return says so.        *)
(***************************************************************************)
Fairness ==
    /\ WF_vars(Next /\ OpStep)
    /\ \A p \in Ports : /\ WF_vars(Next /\ RunStep(p))
                        /\ SF_vars(Next /\ HandlerReturns(p))
    /\ \A t \in Threads : WF_vars(Next /\ CallStep(t))

FairSpec == Spec /\ Fairness

-----------------------------------------------------------------------------

\* Every variable has its type.  In particular onReadyRead reads no datagram that
\* is not there (udp_worker.cpp 125).
TypeOK ==
    /\ mapped \subseteq Ports /\ alive \subseteq Ports
    /\ slot \subseteq Ports /\ exited \subseteq Ports
    /\ thread \in [Ports -> ThreadStates]
    /\ socket \in [Ports -> SocketStates]
    /\ inbox \in [Ports -> Nat]
    /\ arrived \in 0 .. MaxDatagrams
    /\ connected \in BOOLEAN /\ crashed \in BOOLEAN
    /\ call \in [Threads -> Calls]
    /\ op \in Ops

\* When a worker is deleted its run() has returned and taken the socket with
\* it: the close and delete of the destructor (udp_worker.cpp 14-17) never run
\* on a socket that the thread still uses or has already deleted.
DestructorFindsNoSocket ==
    [][\A p \in Ports : p \in alive \ alive'
          => Joined(p) /\ socket[p] = "null"]_vars

\* A handler that answers through the port it received on (the interface
\* thread's acknowledgements, the NEC thread's snapshots) has a live worker and
\* an open socket until the datagram is written, whatever the main thread does.
OwnPortIsSafe ==
    \A p \in Ports :
        call[p] # NoCall /\ call[p].port = p
            => /\ p \in mapped \cap alive /\ call[p].live
               /\ socket[p] = "open" /\ p \in slot

\* No thread looks a worker up while the main thread inserts into m_workers,
\* removes from it or clears it: a QMap is not safe against that.
MapReadersExcludeWriters ==
    op.at \in MapWrites => \A t \in Threads : call[t] = NoCall

\* When the map is empty and no operation runs, every worker thread has ended
\* and no handler runs: what Startup::cleanup frees next (core/startup.cpp
\* 221-223) is used by nobody but the main thread.
EmptyMapMeansQuiet ==
    mapped = {} /\ op = NoOp
        => /\ alive = {}
           /\ \A p \in Ports : thread[p] = "none" /\ socket[p] = "null"
                               /\ call[p] = NoCall

\* cleanup() ends: it waits for workers that are before exec(), in their loop
\* or in a handler, and none of them waits for the main thread.
CleanupEnds == op.kind = "cleanup" ~> (op = NoOp \/ crashed)

=============================================================================
