------------------------------- MODULE NENet --------------------------------
(***************************************************************************)
(* The whole program over UdpInterface: what main() does from start to end *)
(* (main.cpp 101-180, core/startup.cpp, MetaManage::initialize and         *)
(* cleanup) while the handlers of core/meta_manage.cpp run in the worker   *)
(* threads.  A handler is abstracted to the ports it sends through, one    *)
(* send after the other; what the messages say is in module MetaManage.    *)
(***************************************************************************)
EXTENDS Integers, Sequences

CONSTANTS
    Configs,        \* the two ports as ints, as a configuration file may have them
    MaxDatagrams    \* bound: datagrams that arrive in a behaviour

\* bindToPort and sendBytesByPort take a quint16.
quint16(n) == n % 65536

\* Port 0, for which the system picks one, is left out.
ASSUME PortAssumption ==
    /\ Configs \subseteq [nec : Int, interface : Int]
    /\ \A c \in Configs : quint16(c.nec) # 0 /\ quint16(c.interface) # 0
    /\ MaxDatagrams \in Nat

VARIABLES
    mapped, alive, thread, socket, slot, exited, inbox, arrived, connected,
    call, op, crashed,
    config,     \* nenet_nec_port and interface_port
    stage,      \* where main() is
    ready,      \* what there is: the configuration, the database, the lists
    script      \* the ports a thread's handler has still to send through

udpVars == <<mapped, alive, thread, socket, slot, exited, inbox, arrived,
             connected, call, op, crashed>>
vars == <<udpVars, config, stage, ready, script>>

NecPort == quint16(config.nec)
InterfacePort == quint16(config.interface)

Main == 0
Ports == {quint16(c.nec) : c \in Configs} \cup {quint16(c.interface) : c \in Configs}
Threads == Ports \cup {Main}

Udp == INSTANCE UdpInterface

Stages == {"config", "database", "lists", "bindNec", "bindInterface", "connect",
           "announce", "cli", "stopping", "closing", "key", "returned",
           "udpDestroyed", "metaDestroyed", "ended"}

Data == {"config", "database", "lists"}

Init ==
    /\ Udp!Init
    /\ config \in Configs
    /\ stage = "config"
    /\ ready = {}
    /\ script = [t \in Threads |-> <<>>]

-----------------------------------------------------------------------------
(* main().                                                                 *)

\* The main thread is at stage from, between two calls, and goes on to to.
MainGoes(from, to) ==
    /\ stage = from /\ stage' = to
    /\ op = Udp!NoOp /\ call[Main] = Udp!NoCall
    /\ UNCHANGED config

\* A step of main() that touches neither transport nor messages.
MainDoes(from, to) == MainGoes(from, to) /\ UNCHANGED <<udpVars, script>>

\* Startup::dataInit.  The INI file is read and kept in GlobalData.
LoadConfig ==
    /\ MainDoes("config", "database")
    /\ ready' = ready \cup {"config"}

\* DBConnection::initialize for the type the configuration names.
OpenDatabase ==
    /\ MainDoes("database", "lists")
    /\ ready' = ready \cup {"database"}

\* There is no INI file, the type is unknown, or open() fails: dataInit returns
\* false, and main() waits for a key.
LoadFails ==
    /\ MainDoes("config", "key") \/ MainDoes("database", "key")
    /\ UNCHANGED ready

\* The lists of plates, metadata and flows; one that cannot be read is a warning
\* and stays empty.
LoadLists ==
    /\ MainDoes("lists", "bindNec")
    /\ ready' = ready \cup {"lists"}

BindNec ==
    /\ MainGoes("bindNec", "bindInterface")
    /\ Udp!BindToPort(NecPort)
    /\ UNCHANGED <<ready, script>>

BindInterface ==
    /\ MainGoes("bindInterface", "connect")
    /\ Udp!BindToPort(InterfacePort)
    /\ UNCHANGED <<ready, script>>

\* The two ports are one: bindToPort returns false, and so do initialize() and
\* dataInit, with the worker of the first port running.
BindInterfaceRefused ==
    /\ MainDoes("bindInterface", "key")
    /\ InterfacePort \in mapped
    /\ UNCHANGED ready

Connect ==
    /\ MainGoes("connect", "announce")
    /\ Udp!ConnectClient
    /\ script' = [script EXCEPT ![Main] = <<NecPort, NecPort>>]
    /\ UNCHANGED ready

\* Mutant of Initialized: main() goes on while its messages are being sent.
InitializedEarly == MainDoes("announce", "cli") /\ UNCHANGED ready

\* Sleep 200 ms - no thread has to run in them - and send NENetRunSuccess and
\* the first snapshot: SendNext(Main).  Then the command loop.
Initialized ==
    /\ MainDoes("announce", "cli")
    /\ script[Main] = <<>>
    /\ UNCHANGED ready

\* quit or exit is typed.  At the end of its input the loop never ends.
Quit == MainDoes("cli", "stopping") /\ UNCHANGED ready

\* Startup::cleanup up to the end of UDPInterface::cleanup.
StopUdpWith(left) ==
    /\ MainGoes("stopping", "closing")
    /\ Udp!Cleanup
    /\ ready' = left
    /\ UNCHANGED script

\* Mutant of StopUdp: the database and the data are closed before the workers.
StopUdpAfterData == StopUdpWith({"config"})

StopUdp == StopUdpWith(ready)

\* DBConnection::close, GlobalData::clearAllData, and main() returns 0.
CloseData ==
    /\ MainDoes("closing", "returned")
    /\ ready' = {"config"}

\* cin.get() returns after a failed start, and main() returns 1.
KeyPressed == MainDoes("key", "returned") /\ UNCHANGED ready

-----------------------------------------------------------------------------
(* After main() the singletons are destroyed, the last created first:      *)
(* UDPInterface, MetaManage, DBConnection, GlobalData.                     *)

\* Mutant of DestroyUdp: the destructor does nothing.
DestroyUdpIdly == MainDoes("returned", "udpDestroyed") /\ UNCHANGED ready

\* ~UDPInterface calls cleanup(), which stops the workers that a failed start
\* has left; after quit, or before a bind, there are none.
DestroyUdp ==
    /\ MainGoes("returned", "udpDestroyed")
    /\ Udp!Cleanup
    /\ UNCHANGED <<ready, script>>

\* ~MetaManage calls cleanup() on that destroyed object, and reads its map: with
\* a worker in it, it would stop and delete one that is gone.
DestroyMeta ==
    /\ MainDoes("udpDestroyed", "metaDestroyed")
    /\ UNCHANGED ready

\* ~DBConnection closes the database; ~GlobalData frees the rest.
DestroyData ==
    /\ MainDoes("metaDestroyed", "ended")
    /\ ready' = {}

-----------------------------------------------------------------------------
(* The handlers.                                                           *)

\* Mutant of Scripts: a message of NEC is passed on to interface clients.
ScriptsPassOn(p) ==
    IF p = NecPort
      THEN {<<>>, <<NecPort>>, <<NecPort, InterfacePort>>}
      ELSE {<<>>, <<InterfacePort>>, <<InterfacePort, NecPort>>}

\* processNECMessage: nothing, md_in, or NENetRunSuccess and md_in; and
\* processInterfaceMessage: nothing, an acknowledgement of a refused setValue,
\* or an acknowledgement and md_in.  NEC's port is looked at first.
Scripts(p) ==
    IF p = NecPort
      THEN {<<>>, <<NecPort>>, <<NecPort, NecPort>>}
      ELSE {<<>>, <<InterfacePort>>, <<InterfacePort, NecPort>>}

\* A datagram is read and its handler begins, if it is connected.
Receive(p) ==
    /\ Udp!ReadDatagram(p)
    /\ IF connected /\ thread'[p] = "handling"
         THEN \E s \in Scripts(p) : script' = [script EXCEPT ![p] = s]
         ELSE UNCHANGED script
    /\ UNCHANGED <<config, stage, ready>>

\* The next send of the main thread's initialization or of a handler.
SendNext(t) ==
    /\ script[t] # <<>>
    /\ Udp!SendBytesByPort(t, Head(script[t]))
    /\ script' = [script EXCEPT ![t] = Tail(@)]
    /\ UNCHANGED <<config, stage, ready>>

HandlerEnds(p) ==
    /\ script[p] = <<>>
    /\ Udp!HandlerReturns(p)
    /\ UNCHANGED <<config, stage, ready, script>>

\* The steps of a worker thread that are none of the handlers'.
WorkerStep(p) ==
    /\ \/ Udp!RunBind(p) \/ Udp!RunBindFails(p) \/ Udp!RunConnectSlots(p)
       \/ Udp!ReadyRead(p) \/ Udp!ReadDone(p) \/ Udp!LoopQuits(p)
       \/ Udp!CloseSocket(p) \/ Udp!DeleteSocket(p) \/ Udp!NullSocket(p)
    /\ UNCHANGED <<config, stage, ready, script>>

Arrive(p) == Udp!Arrive(p) /\ UNCHANGED <<config, stage, ready, script>>

CallStep(t) == Udp!CallStep(t) /\ UNCHANGED <<config, stage, ready, script>>

OpStep == Udp!OpStep /\ UNCHANGED <<config, stage, ready, script>>

-----------------------------------------------------------------------------

MainStep ==
    \/ LoadConfig \/ OpenDatabase \/ LoadFails \/ LoadLists
    \/ BindNec \/ BindInterface \/ BindInterfaceRefused \/ Connect \/ Initialized
    \/ StopUdp \/ CloseData \/ DestroyUdp \/ DestroyMeta \/ DestroyData \/ OpStep

ThreadStep(p) == Receive(p) \/ HandlerEnds(p) \/ WorkerStep(p)

SendStep(t) == SendNext(t) \/ CallStep(t)

Next ==
    /\ ~crashed
    /\ \/ MainStep
       \/ Quit \/ KeyPressed
       \/ \E p \in Ports : ThreadStep(p) \/ Arrive(p)
       \/ \E t \in Threads : SendStep(t)

Spec == Init /\ [][Next]_vars

\* The system schedules every thread; nobody has to type quit or press a key.
Fairness ==
    /\ WF_vars(Next /\ MainStep)
    /\ \A p \in Ports : WF_vars(Next /\ ThreadStep(p))
    /\ \A t \in Threads : WF_vars(Next /\ SendStep(t))

FairSpec == Spec /\ Fairness

-----------------------------------------------------------------------------

\* Every variable has its type, those of the transport included.
TypeOK ==
    /\ Udp!TypeOK
    /\ config \in Configs
    /\ stage \in Stages
    /\ ready \subseteq Data
    /\ script \in [Threads -> Seq(Ports)]

\* The program keeps to what UdpInterface asks of its client: it binds before
\* it connects handlers, sends from main() between two operations and from
\* handlers only, and handlers begin no operation.
UsesUdpAsAgreed == Udp!Spec

\* No handler runs, and so none reads the list or writes the database, before
\* they are there or after Startup::cleanup has closed them.
DataOutlivesHandlers ==
    \A p \in Ports :
        connected /\ thread[p] = "handling" => ready = Data

\* udp_interface.cpp 143: to request a send of a worker is thread-safe; so a
\* send works on a worker that has not been deleted.
SendsUseLiveWorker ==
    \A t \in Threads : call[t].live

\* cleanup() goes through the map in the order of its keys.  When the interface
\* port is the smaller one its thread, the only one that sends through the other
\* worker, has been joined before a worker is deleted that it may be using.
InterfaceFirstFindsWorker ==
    InterfacePort < NecPort => SendsUseLiveWorker

\* In that order a datagram is also written to an open socket: it is not
\* closed, deleted or set to null between the test of m_socket and the write.
InterfaceFirstFindsSocket ==
    InterfacePort < NecPort =>
        \A t \in Threads :
            call[t].at = "write" => socket[call[t].port] = "open"

\* The messages main() sends at the end of initialize() are lost while a worker
\* is not ready, and are never written to a socket that is not bound, however
\* long its thread takes: the 200 ms of sleep (meta_manage.cpp 75) are no guard.
MainSendsFindSocket ==
    call[Main].at = "write" => socket[call[Main].port] = "open"

\* Once ~UDPInterface has run no worker is left in the map, alive or in its
\* thread, on every way out of main(): ~MetaManage finds nothing to stop in the
\* destroyed object (meta_manage.cpp 91-93), and no thread outlives the data.
EndMeansJoined ==
    stage \in {"udpDestroyed", "metaDestroyed", "ended"} /\ op = Udp!NoOp
        => mapped = {} /\ alive = {} /\ \A p \in Ports : thread[p] = "none"

\* Once quit is typed, or a key pressed after a failed start, the process ends:
\* it waits for workers in whatever they do, and that comes to an end.
QuitEnds == stage \in {"stopping", "returned"} ~> (stage = "ended" \/ crashed)

=============================================================================
