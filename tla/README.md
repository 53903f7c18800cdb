# NENet in TLA+

NENet is a Windows console program (Qt 5, C++) that stands between a training
engine (NEC, over UDP), interface programs (over UDP), a database of metadata
(SQLite or MySQL) and acquisition boards (JF plates, over TCP). This directory
holds TLA+ models of it, the TLC runs that check them and proofs that TLAPS
checks. Paths below are relative to `src/src/`.

## 1. The system

### Threads and calls

There are three threads and no event loop in the main one. `main()` initializes,
reads commands from standard input and cleans up. Each UDP port has a worker
thread (`UDPWorker`) with an event loop of its own. Every Qt connection between
them is a `Qt::DirectConnection`, so `emit` is a plain call in the thread that
makes it: a handler runs in the worker thread that received the datagram, and a
send runs in the thread that sends, on a socket that lives in another thread.
No lock protects what the threads share.

### Inventory

| component | state | operations | talks to | what is hard |
|---|---|---|---|---|
| UDP transport (`network/udp_interface.cpp`, `network/udp_worker.cpp`) | map port → worker; per worker: thread, socket pointer, connected slots, queued datagrams | `bindToPort`, `unbindFromPort`, `cleanup`, `sendBytesByPort`, `sendBytes`, `run`, `onReadyRead`, `sendData`, destructor | called by MetaManage; calls its handlers back | object and socket life time against sends from other threads; start-up and shutdown order; bind failure in another thread |
| Message handlers (`core/meta_manage.cpp`, `network/protocol.cpp`) | `m_necConnected`, registered clients, routes; the metadata list in GlobalData | `processNECMessage`, `processInterfaceMessage`, `applySetValue`, `emitMdInSnapshotToNEC` | UDP transport, database, GlobalData | three threads without a lock; memory and table kept in step through failures and crashes |
| Database access (`database/db_queries.cpp`, `db_connection.cpp`) | rows of `ne_md_info`, an open transaction, the connection | `initialize`, `close`, `updateMetadataValues`, loaders | MetaManage, Startup | results of `transaction()` and `commit()` are dropped; a list that cannot be loaded stays empty |
| Life cycle (`main.cpp`, `core/startup.cpp`) | stage of `main()`, what is loaded | `dataInit`, command loop, `cleanup`, destructors of the singletons | everything | early returns with threads running; shutdown while handlers run; singletons that use each other while they are destroyed |
| Single instance (`main.cpp` 19-55) | a named Windows mutex | `isAnotherInstanceRunning` | other processes | processes that end or are killed at any step |
| JF plate (`hardware/jf_plate.cpp`) | socket, receive buffer, two wait lists, two "may send" flags, serial number | `initialize`, `cleanup`, `setEachDO`, `setSlaveEachDO`, `onReadyRead` | the board | frames cut by TCP, acknowledgements, reconnection |
| Configuration (`config/ini_config.cpp`) | INI file, `IniConfigInfo` | `loadConfig`, `saveConfig` | Startup | settings read from two sections and written to one |
| Global data (`core/global_data.cpp`) | lists and maps of everything loaded | accessors, `clearAllData` | all | handed out by reference, read without its mutex |
| Legacy hardware maps (`core/startup.cpp` 87-185) | maps board → channels → id and value | rebuild at start, copies of `applySetValue` | loaders, MetaManage | order of rows; two sources of a value; no loader fills the type of a board, so they stay empty |
| Stubs (CAN, QJ, NEC interface), Logger, utilities | - | - | - | nothing to check: a flag, one mutex around one write, pure conversions |

What makes each correct:

* UDP transport: nobody uses a worker or a socket that is gone; the map is not
  changed under a reader; destructors free nothing twice; `cleanup` ends and
  leaves no thread.
* Handlers and database: between two setValues memory and table agree; a
  setValue is stored as a whole or not at all and survives a crash once it is
  acknowledged; NEC sees only committed values and is told what was acknowledged.
* Life cycle: the program uses the transport the way it must be used; data and
  database are there before the first handler runs and outlive the last; every
  way out of `main()` joins the threads before a destructor looks for them.
* Legacy maps: they say what the rows say, and a channel shows the value that was
  last set.
* Single instance: at most one runs, and a refusal is justified.
* JF plate: the receiver stays in step with the board; one batch of a channel is
  outstanding at a time; a channel opens again.
* Configuration: saving and loading lose no setting.

## 2. The modules

| module | models | kind |
|---|---|---|
| `UdpInterface` | the UDP transport | component |
| `MetaManage` | handlers, metadata list, database call | component |
| `MetaStore` | what an interface client may rely on | abstract specification, implemented by `MetaManage` |
| `NENet` | `main()`, initialization, handlers and shutdown over `INSTANCE UdpInterface` | composition |
| `SingleInstance` | the single-instance check | component |
| `JFFrame` | building frames and finding them in bytes | operators |
| `JFReceiver` | `onReadyRead` on arbitrary streams | component, over `JFFrame` |
| `JFPlate` | the board's client with login, channels and reconnection | component, over `JFFrame` |
| `IniConfig` | load and save | component |
| `LegacyMaps` | the rebuild of the legacy maps and the copies kept in them, and what the maps should say | operators |
| `Startup` | what `dataInit` makes of INI file and tables, and `applySetValue` of the maps | component, over `IniConfig` and `LegacyMaps` |
| `MC*` | values and history variables for TLC | |
| `UdpInterfaceProofs`, `NENetProofs`, `MetaManageProofs`, `SingleInstanceProofs`, `StartupProofs`, `JFReceiverProofs`, `JFPlateProofs` | theorems about the component of the name (`StartupProofs`: about `IniConfig`, `LegacyMaps` and `Startup`) | proofs |
| `DataInduction` | induction on numbers and on the size of data, and recursive functions | lemmas |

Some modules hold definitions marked "Mutant of X", next to X: X with a plausible
bug. They are used by no specification. With X replaced by its mutant, the run
named in `PROJECT.json` fails on the property named there, so each property is
known to be able to fail.

### UdpInterface

A worker and its thread are named by the port. `mapped` is the key set of
`m_workers`, `alive` the workers that exist, `thread[p]` the line of `run()` or
`onReadyRead` the thread is at, `socket[p]` what `m_socket` points to (null, an
open, closed or deleted socket), `slot` the workers whose `requestSendData` is
connected to `sendData`, `exited` those that `quit()` was called for - before
`exec()` too, which then returns at once. `op` is the step `bindToPort`,
`unbindFromPort` or `cleanup` is at and `call[t]` the step of thread `t`'s
`sendBytesByPort`: look-up, emit, test of `m_socket`, write. A call that has
looked a worker up keeps the pointer; `live` turns false when the worker is
deleted meanwhile. A use of freed memory may kill the process or go unnoticed
(`crashed' \in BOOLEAN`).

The client, any code that uses the transport, is bound to a discipline:
it binds before it connects its handlers, connects once, and starts operations
from the main thread only. `NENet` is shown to keep to it (`UsesUdpAsAgreed`).

### MetaManage and MetaStore

`table` is what the database has committed, `view` what the connection sees,
`md` the list in memory. `applySetValue` and `updateMetadataValues` are split
at the points where another thread can look or the process can die: begin, one
step per UPDATE, commit or rollback, one step per row in memory, answer. A
snapshot is read row by row (`snap[t]`) by any of the three threads.
`DbFaults` says which database calls may fail. After a COMMIT that failed the
transaction is open still (SQLite) or rolled back (MySQL); both are modelled.
A BEGIN in an open transaction fails, as in SQLite.

`MetaStore` stores a request in one step or refuses it, answers afterwards and
may die at any time. The refinement maps `table` to `stored`, and the steps
begin/exec/commit to "open", apply/answer to "stored".

A value is text in the message and goes through `toInt()`, whose verdict nobody
asks for: `Garbage` is stored as 0. The known ids are those of the list in
memory, which is empty when it could not be loaded; then every setValue is
answered ok:0 and every snapshot is empty. `pk_id` is taken to be unique.

`told` and `late` are history variables, kept when `History` is true: the last
snapshot NEC was sent, and the threads whose snapshot was begun before the list
changed. With them `NecIsCurrent` says that NEC can be behind after an ok:1 in
one way only, by a snapshot that was begun earlier and sent later, and
`AcknowledgedIsAnnounced`, which leads from the step that answers ok:1, that the
values are sent at all. `lost` is one more: whether a COMMIT of an open
transaction has failed. `OnlyCommitLoses` says that, while UPDATEs work, nothing
else takes list and table apart or loses what was answered ok:1.

The copies in the DO/DI tables are in `LegacyMaps`.

### NENet

Instantiates `UdpInterface` with the ports of all configurations in `Configs`, of
which a behaviour has one (`config`). A port is an int in the configuration and
a `quint16` for the transport, so two numbers can be one port; port 0, for which
the system picks one, is left out. A handler is the
list of ports it still has to send through (`script`), chosen from what
`processNECMessage` and `processInterfaceMessage` can do. If both ports are one,
the second bind is refused and `main()` waits for a key and returns with a worker
running. `ready` is what there is to use: configuration, database, lists.

After `main()` the singletons are destroyed, the last created first:
`~UDPInterface` cleans up what is left, then `~MetaManage` calls `cleanup()` on
the object that has just been destroyed. That does nothing if its map is empty,
which is what `EndMeansJoined` says. `DestroyMeta` is therefore a step that only
looks; it would not be one if the map had a worker in it.

If the end of input is reached the command loop never ends; `Quit` and
`KeyPressed` have no fairness.

### SingleInstance

The mutex exists while a handle to it is open. When its owner ends, it is
abandoned, and the next to wait owns it with `WAIT_ABANDONED`, which the code
treats as "another instance". `CreateMutexA` may fail at any time. `WAIT_FAILED` is
left out: it takes a handle that is not valid, and a handle that `CreateMutexA`
has returned and nobody has closed is.

### JFFrame, JFReceiver, JFPlate

What comes from the board is bytes, decoded as `onReadyRead` decodes them; what
goes to it is abstracted to commands. `setEachDO` and `setSlaveEachDO` differ in
names only and are one action with a channel. The last byte of a slave frame is
a checksum over an uninitialized byte: it comes out right or wrong
(`Batches`), and the board ignores a wrong one. Board and network are external.
The program has no long-lived plate yet (`core/meta_manage.cpp` 332 announces
one); the module takes any caller of the class. `deaf` and `clean` are history
variables that say when the board cannot answer and when a connection began
with an empty buffer.

### IniConfig

One key stands for the many that are read and written alike. `Loaded` and
`Saved` are the two functions; the specification lets a program load, change
and save in any order.

### LegacyMaps and Startup

`LegacyMaps` has the two loops of `dataInit` (lines 98-172) as functions of the
number of rows treated (`WithPlates`, `WithMetaInfo`), and next to them a definition of what should come out that does not
mention their order: `ProperSlots` and `Claims`. A slot is one vector of
channels, identified by kind, board and address. Counters, names and the fields
that are copied from row to board are left out.

`Startup` reads a configuration, then the plates, then the metadata, any of
which may fail, rebuilds the maps and takes setValues. `typed` says whether the
loaders fill the columns that the maps are made from. They do not
(`database/db_queries.cpp` 25-35, 56-70), so that the maps of the program are
empty (section 5), and with `typed = FALSE` the two properties of the maps say
nothing. Their content is the case `typed = TRUE`: what the rebuild and the copies of
`applySetValue` do once the loaders fill those columns.

## 3. The runs

| run | shows | bounds |
|---|---|---|
| `udp` | type, `OwnPortIsSafe`, `MapReadersExcludeWriters`, `EmptyMapMeansQuiet`, `DestructorFindsNoSocket`, `CleanupEnds` | 2 ports, 3 datagrams |
| `meta` | type, `MemoryMatchesTable`, `NothingUncommittedIsRead`, `AckIsDurable`, `UnloadedListRefuses`, refinement of `MetaStore` | 2 rows, 2 values and garbage, 2 items, UPDATEs and the load fail |
| `meta_faults` | `InterfaceSnapshotIsExact`, `NecIsCurrent`, `AcknowledgedIsAnnounced`, `OnlyCommitLoses` | setValues of one known row or of one batch of both, BEGIN and COMMIT fail, with history |
| `meta_commit` | `AckIsDurable` violated | 1 item, COMMIT fails |
| `meta_torn` | `SnapshotIsAState` violated | 2 items |
| `nenet` | type, `DataOutlivesHandlers`, `InterfaceFirstFindsWorker`, `InterfaceFirstFindsSocket`, `MainSendsFindSocket`, `EndMeansJoined`, `UsesUdpAsAgreed`, `QuitEnds` | both orders of two ports, two numbers that are one port; 3 datagrams |
| `nenet_delete` | `SendsUseLiveWorker` violated | the shipped order of ports, 1 datagram |
| `instance` | type, `OnlyOneRuns` | 4 processes, symmetric |
| `instance_verdict` | `RefusedMeansAnother` violated | 2 processes |
| `jf_receiver` | `CutsDoNotMatter`, `BufferIsOneFrame` | streams of 4 of 6 pieces, every cut |
| `jf_plate` | type, `InStep`, `OneBatchOutstanding`, `ChannelOpensAgain` | 2 connections, 1 pair per batch, a serial number that wraps at once, reads of 3 bytes or of all there are |
| `ini_config` | `SaveAfterLoadIsHarmless`, `ChangedPortsAreKept`, `MapsMatchRows`, `MirrorFollowsList` | 3 addresses, 3 numbers; up to 3 plates, 2 rows of metadata, 2 channels |

Liveness properties are checked under `FairSpec`, and so are the other
properties of those runs, which it does not weaken: fairness rules out no finite
behaviour.

Why the bounds are enough. The program binds two ports. Three datagrams let both
workers be in a handler at once and one of them read again. A batch of two
updates has a first, a last and a repeated row, and two rows are enough for one
to be updated and the other not. In `meta_faults`, whose states carry the history of
the messages to NEC, every id is known; `meta` has unknown and repeated ids and
garbage without the history. Four processes are an owner, one that waits,
one that starts and one that is refused. Pieces of frames are made of header
bytes, so every way to fall out of step is in four of them. The plate sees a
whole connection, its loss inside any frame, and another one; reads of 3 bytes
end at every offset of the frames, inside a header too, and `jf_receiver` has
every cut; outputs in a batch are not told apart, and the serial number is never
read by anyone.

Three plates are a board, its child before or after it and an orphan, or one
board with two slots; two rows of metadata can claim one channel. File and tables
vary one at a time in `ini_config`, since nothing of one is read with the other.

Deadlock is not checked in runs whose system may stop: the program may have
ended, the bound on datagrams may be used up, or the link may be lost for good.

Whether a send can meet a deleted worker depends on which port is smaller, since
`cleanup` destroys the workers in ascending order and only the interface thread
sends through the other one's worker. With the interface port the smaller one it
cannot (`InterfaceFirstFindsWorker`). The shipped configuration has NEC's port
smaller, and there it can (`nenet_delete`).

### Fairness

* `UdpInterface`, `NENet`: the operating system schedules every thread that can
  run (weak fairness of each thread's steps). In `UdpInterface` handlers make any
  number of sends, so that a handler returns in the end is strong fairness of
  `HandlerReturns`; the code's handlers make two at most, and in `NENet`, which
  counts them, weak fairness is enough. Nothing is assumed of `Quit`,
  of `KeyPressed` or of the network. The bound on datagrams stands for a sender that pauses: under an
  endless flood `onReadyRead` need not return.
* `MetaManage`: threads are scheduled and database calls return. Crashes, new
  messages and failures have no fairness.
* `JFPlate`: the socket's thread reads what arrives, and the board answers while
  the link is up. Callers have no fairness.

## 4. The proofs

`tlapm` checks them with no bound on any constant: any set of ports, rows, values,
processes, any length of a message, a table or a stream. They rest on the named
assumptions of the modules (`UdpAssumption`, `TableAssumption`,
`PlateAssumption`, ...), which say what kind of value a constant is; TLC evaluates
them in every run. Two say more: `pk_id` is the primary key of its table
(`TableAssumption`), and a batch has at most 127 pairs, which its length byte can
count (`PlateAssumption`). Theorems state both refinements that are checked and
every invariant of a passing run but `MapsMatchRows` and
`MirrorFollowsList`, and an action property, `UnloadedListRefuses`.

### UdpInterfaceProofs

`TypeCorrect`, `OwnPortSafety`, `MapSafety`, `QuietWhenEmpty`, `DestructorSafety`.
The properties are not inductive. `IndInv` adds what ties a worker's thread to its
socket (`SocketInv`: open from bind to close, null before and after), an operation
to the workers it has still to treat (`OpInv`: they are in the map, those it has
destroyed are not alive), and a call to the thread that makes it (`CallInv`: a
worker thread is in a call only while it is in a handler, after the handlers
were connected, and a call through a thread's own port finds its worker and
socket there). `CallInv` is the reason that shutdown is safe for answers:
`wait()` returns only when the thread is not in a handler. `Inductive` proves
that every step keeps `IndInv`, each part in a lemma of its own.

### NENetProofs

`UsesTransport`: `NENet` implements the specification of the transport. Its
initial states and steps are shown to be those of `UdpInterface`; what makes the
steps of `main()` legal is `ClientInv` (it binds before it connects, connects once,
and does one thing at a time), proved together with the transport's own
`IndInv`, which the instance `UP` brings along. On this rest:

* `HandlersFindData` and `NoWorkerIsLeft`, from `StageInv`: what is loaded and
  which operation may run at each stage of `main()`, and that the map is empty
  once a clean-up with connected handlers is over;
* `MainFindsSocket`, from `SendInv` and `ExitInv`: while `main()` announces NENet
  nobody has called `quit()`, so a socket that was tested stays open;
* `FirstFindsWorker` and `FirstFindsSocket`, from `FirstInv`: `cleanup` goes through
  the ports in ascending order, so with the interface port the smaller one its
  thread is joined before NEC's worker is told to stop. `nenet_delete` shows that
  the hypothesis is needed.

### MetaManageProofs

`Typing` adds to the types which step of a setValue may have counted, and that an
id that the list lacks gets no further than the check. On it rest `SnapInv` and
`LateInv` (what a snapshot holds while it is built, and who may be late with one)
and `DurInv` and `MatchInv` (how table, connection and list differ while a
setValue is on its way: the first `job.done` updates are in one of them and not
in the other).

| theorem | which failures it allows |
|---|---|
| `TypeCorrect`, `OwnSnapshotIsExact`, `NoListNoWrite`, `Currency` | all; `Currency` needs the history variables kept (`History`) |
| `Durability` | all but COMMIT |
| `Matching` | all but COMMIT, and not BEGIN together with UPDATE |
| `OnlyCommitCosts` | all, but not BEGIN together with UPDATE |
| `OnlyCommitted`, `Atomicity` | UPDATE and the load, not BEGIN or COMMIT |

The hypotheses are where the code loses a failure: the results of
`transaction()` and `commit()` are not looked at (`database/db_queries.cpp` 127,
151). None can be dropped: on the constants of `meta` TLC finds all four
properties violated when "commit" is among the faults, `NothingUncommittedIsRead`
and `StoresAtomically` with "begin" alone, and `MemoryMatchesTable` with "begin"
and "exec". Crashes are allowed in all. `Atomicity` is the refinement of
`MetaStore`: a request is stored in the one step in which COMMIT happens, and
every other step begins one, refuses it, answers, crashes or is a stutter.
`OnlyCommitCosts` (of `OnlyCommitLoses`) has a COMMIT fail outside a transaction
change nothing, since the table then is what the connection sees.
`NoListNoWrite` rests on `UnloadedInv`: without a list the connection sees what is
committed, since it was opened after the last write and no step without a list
writes.

### SingleInstanceProofs

`TypeCorrect` and `MutualExclusion`, from `RunnerOwns`: whoever runs still owns
the mutex, because nobody releases it and its handle stays open.

### StartupProofs

* `SaveAfterLoad` and `PortsKept`, from the types of file and configuration
  (`SettingsInv`).
* `RebuildIsExact`: what the two loops of `dataInit` make of any two lists, dropped
  children included, by induction on the number of rows that they have treated. It
  is about `Rebuilt` as a function of its lists; that the loaders fill no column it
  looks at is another matter (section 5).

### JFReceiverProofs and JFPlateProofs

`DecodeIsLoop` shows that `Decode`, a recursion on the bytes, is a function with
the types one expects; `LoopInduction` is the induction along it. The main lemma
is `DecodeConcat`: to decode `a \o b` is to decode `a` and then what it left
followed by `b`. `CutsAreHarmless` follows, for every stream and every cut, and
`BufferStaysSmall` from `RestIsOneFrame`. `DecodeSendMsg` says that a frame built
by `SendMsg` is decoded to what it was built from.

`JFPlateProofs` takes these lemmas through the instance `Receiver`. `TypeCorrect`
needs `TypeInv`: what is on its way to the board are commands it knows.
`StaysInStep` and `OneBatch` are parts of `BatchInv`, which for every channel says
more than the two properties: a channel that is open, or closed for a batch that the
board cannot answer, has no batch on its way at all. Without the second part an
answer could open a channel for a batch other than its own. `LinkInv` says why a
new connection starts that way: `initialize` comes between any two connections
and opens every channel.

### DataInduction

The induction theorems of the library take an operator as a parameter, which the
provers cannot instantiate. The lemmas here state induction with sets in its
place, proved from the library's facts about well-founded relations:
`SetInduction`, `LoopInvariant` and `RecursiveFunction` for loops that count, and
`InductionBySize`, `RecursionIsUnique` and `RecursionBySize` for a recursion whose
argument becomes smaller.

### Only model-checked

The liveness properties (`CleanupEnds`, `QuitEnds`, `AcknowledgedIsAnnounced`,
`ChannelOpensAgain`), since the prover has no fairness and no ENABLED; `MapsMatchRows`
and `MirrorFollowsList`, which are about loaders that the program does not have;
and the violations of section 5, which are single behaviours.

## 5. Where code and documentation disagree

| run | the code | the text |
|---|---|---|
| `nenet_delete` | `cleanup` deletes NEC's worker under a handler of the interface port | `network/udp_interface.cpp` 143 |
| `meta_commit` | the result of `commit()` is dropped | `database/db_queries.h` 35 |
| `meta_torn` | the list is read and written without a lock | `core/global_data.h` 14 |
| `instance_verdict` | an abandoned mutex counts as another instance | `main.cpp` 17 |

Further ones that reading the code shows without a run. `bindToPort` returns true
before the thread has tried to bind (`network/udp_interface.h` 38).
`writeDatagram` runs in the sender's thread while the worker reads the same
socket (`UDP_SEND_FIX.md` 102). The 200 ms of sleep after the binds guarantee
nothing (`UDP_SEND_SOLUTION.md` 79). A missing `[NENetIP]` section never leads to
the address in `[IP]`, because the first look-up has a default
(`config/ini_config.cpp` 67). `config/ini_config.h` 19 says "Save configuration to
INI file", but `saveConfig` writes the interface port and the external address to
`[IP]` only: if `[NENetIP]` has the key, as the shipped file does, a change is lost
at the next load. `ChangedPortsAreKept` leaves that case out. `core/startup.cpp` 87
says "Rebuild legacy hardware maps" and `core/meta_manage.cpp` 189-190 "when
receiving NEC messages, trigger hardware DO commands", but the loaders fill neither
the type of a plate nor that of a row of metadata, so that the maps stay empty and
nothing is triggered or copied. A new connection to a board inherits the receive
buffer of the one before (`hardware/jf_plate.cpp` 178, 187); the history variable
`clean` keeps `InStep` to connections for which it was empty. The models contain
these behaviours. A destructor uses a singleton that is destroyed already (`core/meta_manage.cpp`
92); `EndMeansJoined` says why nothing comes of it.

Known and not turned into a property, since no text says what should be: a
setValue with some unknown ids is applied in part, answered ok:0 and not
announced; a value that is no number is stored as 0 and answered ok:1; when
`transaction()` has failed and then an UPDATE fails, those before it stay in the
table while client and list do not know of them (with the faults "begin" and
"exec" together TLC finds `MemoryMatchesTable` violated, so `meta` is without
"begin"); `m_necConnected` is never reset; a batch flushed while its channel is
closed is thrown away with the result true; a batch that could not be written
closes its channel until `initialize` is called again; the command loop spins at
the end of its input; a child board whose row comes before its parent's is
dropped, which is why `MapsMatchRows` asks for every slot only of tables in which
boards come first - the SELECT has no ORDER BY; before the first setValue a
channel shows `init_value` while the list has `current_value`.

## 6. What is left, in this order

1. The action properties that TLC has not been asked yet and that the invariants
   would give: what a step of a handler, of `cleanup` or of a setValue may never
   do.
2. A refinement of `JFPlate` by an abstract channel (open, closed, answered), from
   `BatchInv`.
3. What a batch without a transaction still promises: when BEGIN fails and no
   UPDATE does, each row is stored by itself, in order.

## 7. Not modelled

* CAN, QJ and NEC interfaces: stubs, every operation sets a flag or does nothing.
* Logger: one mutex around one write; no other lock is taken while it is held.
* Utilities: pure conversions that no modelled component calls.
* Virtual machine detection: commented out at its only call.
* Of the global data: the two queues and the map of plates, which nobody fills or
  reads, and the list of flows, which is loaded and never read.
* JSON itself, the wording of messages and logs, the fields of a frame or of a row
  that no property tells apart.
