----------------------------- MODULE MetaManage -----------------------------
(***************************************************************************)
(* The message handlers of MetaManage (core/meta_manage.cpp) with the two  *)
(* stores they keep in step: the list of metadata in GlobalData and the    *)
(* rows of ne_md_info behind DBQueries (database/db_queries.cpp).          *)
(*                                                                         *)
(* Three threads run this code at once, with no lock: main() at the end of *)
(* initialize(), the worker of the NEC port and the worker of the          *)
(* interface port.  Only the last one handles setValue.  A send is one     *)
(* step here; module UdpInterface has its steps.                           *)
(*                                                                         *)
(* Left out: the copy of a value into the DO/DI tables of a controller and *)
(* triggerLegacyNecHardwareDO.  Modules LegacyMaps and Startup have the    *)
(* tables, which stay empty: the loaders give no board a type.             *)
(***************************************************************************)
EXTENDS Naturals, Sequences

CONSTANTS
    Rows,       \* the number of rows of ne_md_info; pk_id is the position
    Values,     \* values of current_value, 0 among them
    Garbage,    \* a value that is no string, or a string that is no number
    Unknown,    \* an id that no row has
    Clients,    \* the address:port of interface clients
    MaxItems,   \* bound: items in a setValue
    DbFaults,   \* the database calls that may fail
    History     \* whether told and late are kept; no other variable depends on it

ASSUME MetaAssumption ==
    /\ Rows \in Nat \ {0}
    /\ 0 \in Values /\ Garbage \notin Values
    /\ Unknown \notin 1 .. Rows
    /\ MaxItems \in Nat /\ History \in BOOLEAN
    /\ DbFaults \subseteq {"load", "begin", "exec", "commit"}

VARIABLES
    table,          \* committed rows: id |-> current_value
    view,           \* the rows as the program's connection sees them
    txOpen,         \* the connection has a transaction open
    md,             \* GlobalData's metadata list: id |-> current_value
    up,             \* the process runs
    necConnected,   \* m_necConnected
    registered,     \* keys of m_registeredClients
    pc,             \* the step each thread is at
    snap,           \* the md_in message a thread is building: values so far
    told,           \* history: the last md_in message sent to NEC since the start
    lost,           \* history: a COMMIT of an open transaction has failed
    late,           \* history: whose message was begun before the list changed,
                    \* "sent" for the last message that was sent
    job,            \* the last setValue: its updates, how many are done, allKnown
    answer          \* the answer to it, once sent

dbVars == <<table, view, txOpen, lost>>
procVars == <<up, necConnected, registered>>
necVars == <<snap, told, late>>
vars == <<dbVars, md, procVars, pc, necVars, job, answer>>

-----------------------------------------------------------------------------

Ids == 1 .. Rows
Threads == {"main", "nec", "interface"}
Steps == {"idle", "begin", "exec", "commit", "apply", "answer", "read"}

\* A setValue datagram after parseMessage: a value may be garbage, an id unknown,
\* and the value of an unknown one is never looked at.
Items == [d : Ids, v : Values \cup {Garbage}] \cup [d : {Unknown}, v : {0}]
Messages == UNION {[1 .. n -> Items] : n \in 0 .. MaxItems}

\* meta.v.toInt(), the result of which nobody tests.
ToInt(v) == IF v = Garbage THEN 0 ELSE v

Updates == UNION {[1 .. n -> [d : Ids, v : Values]] : n \in 0 .. MaxItems}
Jobs == [updates : Updates, done : 0 .. MaxItems, allKnown : BOOLEAN]

\* Rows after the first n of the updates: the last one for an id wins.
After(rows, updates, n) ==
    [d \in Ids |->
        LET hits == {k \in 1 .. n : updates[k].d = d}
        IN  IF hits = {} THEN rows[d]
            ELSE updates[CHOOSE k \in hits : \A h \in hits : h <= k].v]

Stored(rows, updates) == After(rows, updates, Len(updates))

At(t, step) == up /\ pc[t] = step
Moves(t, step) == pc' = [pc EXCEPT ![t] = step]

\* The list changes, and whoever has begun to read it is late.
Readers == {t \in Threads : pc[t] = "read"}
ListBecomes(list) ==
    /\ md' = list
    /\ late' = IF History /\ list # md THEN late \cup Readers ELSE late

\* Mutant of KnownIds: the ids of the schema, not those of the list.
KnownIdsOfSchema == Ids

\* m_metaRouteById, which is rebuilt from the list: the ids that are known.
KnownIds == DOMAIN md

Init ==
    /\ table \in [Ids -> Values]
    /\ view = table
    /\ txOpen = FALSE /\ lost = FALSE
    /\ md = table
    /\ up = FALSE /\ necConnected = FALSE /\ registered = {}
    /\ pc = [t \in Threads |-> "idle"]
    /\ snap = [t \in Threads |-> <<>>]
    /\ told = <<>> /\ late = {}
    /\ job = [updates |-> <<>>, done |-> 0, allKnown |-> TRUE]
    /\ answer = "none"

-----------------------------------------------------------------------------
(* The process: Startup::dataInit loads the rows, initialize() ends with a *)
(* snapshot from the main thread; it may be killed at any time.            *)

\* What selectAllMetaInfo leaves in the list: every row, or none when it fails.
Loaded == {view} \cup (IF "load" \in DbFaults THEN {<<>>} ELSE {})

\* A load that fails is a warning: the program goes on with an empty list.
Start ==
    /\ ~up
    /\ up' = TRUE
    /\ md' \in Loaded
    /\ Moves("main", "read")
    /\ UNCHANGED <<dbVars, necConnected, registered, necVars, job, answer>>

\* Memory goes, and with the connection the transaction that was open.
Crash ==
    /\ up
    /\ up' = FALSE /\ necConnected' = FALSE /\ registered' = {}
    /\ view' = table /\ txOpen' = FALSE
    /\ pc' = [t \in Threads |-> "idle"]
    /\ snap' = [t \in Threads |-> <<>>]
    /\ told' = <<>> /\ late' = {}
    /\ job' = [job EXCEPT !.done = 0]
    /\ UNCHANGED <<table, lost, md, answer>>

-----------------------------------------------------------------------------
(* emitMdInSnapshotToNEC, in any thread: the list is read row by row.      *)

ReadRow(t) ==
    /\ At(t, "read")
    /\ Len(snap[t]) < Len(md)
    /\ snap' = [snap EXCEPT ![t] = Append(@, md[Len(@) + 1])]
    /\ UNCHANGED <<dbVars, md, procVars, pc, told, late, job, answer>>

\* The message is sent; the next one begins with what is left of it.
SendLeaving(t, left) ==
    /\ At(t, "read")
    /\ Len(snap[t]) = Len(md)
    /\ told' = IF History THEN snap[t] ELSE told
    /\ late' = (late \ {t, "sent"}) \cup (IF t \in late THEN {"sent"} ELSE {})
    /\ snap' = [snap EXCEPT ![t] = left]
    /\ Moves(t, "idle")
    /\ UNCHANGED <<dbVars, md, procVars, job, answer>>

\* Mutant of SendSnapshot: the message is kept and not built anew next time.
SendSnapshotKeepsMessage(t) == SendLeaving(t, snap[t])

SendSnapshot(t) == SendLeaving(t, <<>>)

-----------------------------------------------------------------------------
(* processNECMessage.                                                      *)

\* NECRunSuccess is answered once in the life of the process.
NECRunSuccess ==
    /\ At("nec", "idle")
    /\ ~necConnected
    /\ necConnected' = TRUE
    /\ Moves("nec", "read")
    /\ UNCHANGED <<dbVars, md, up, registered, necVars, job, answer>>

\* md_change or md_in; every other message leaves all of this alone.
NECAsks ==
    /\ At("nec", "idle")
    /\ Moves("nec", "read")
    /\ UNCHANGED <<dbVars, md, procVars, necVars, job, answer>>

-----------------------------------------------------------------------------
(* processInterfaceMessage.                                                *)

AddRegListen(c) ==
    /\ At("interface", "idle")
    /\ registered' = registered \cup {c}
    /\ Moves("interface", "read")
    /\ UNCHANGED <<dbVars, md, up, necConnected, necVars, job, answer>>

\* The interface thread takes a setValue with these updates; with none left,
\* the answer is ok:0 at once.
Take(updates, allKnown) ==
    /\ At("interface", "idle")
    /\ job' = [updates |-> updates, done |-> 0, allKnown |-> allKnown]
    /\ IF updates = <<>>
         THEN answer' = "no" /\ UNCHANGED pc
         ELSE answer' = "none" /\ Moves("interface", "begin")
    /\ UNCHANGED <<dbVars, md, procVars, necVars>>

Converted(item) == [d |-> item.d, v |-> ToInt(item.v)]

\* Mutant of SetValue: an unknown id is noticed, and kept in the updates.
SetValueKeepsUnknown(msg) ==
    Take([k \in DOMAIN msg |-> Converted(msg[k])], \A k \in DOMAIN msg : msg[k].d \in KnownIds)

\* The items whose ids are known, in their order.
KnownPart(msg) ==
    LET part[n \in 0 .. Len(msg)] ==
            IF n = 0 THEN <<>>
            ELSE IF msg[n].d \in KnownIds THEN Append(part[n - 1], Converted(msg[n]))
                 ELSE part[n - 1]
    IN  part[Len(msg)]

\* applySetValue up to the database call: the unknown ids are dropped.
SetValue(msg) ==
    Take(KnownPart(msg), \A k \in DOMAIN msg : msg[k].d \in KnownIds)

\* The step of a loop over the updates that treats the next one, and the step
\* that follows the loop.
NextUpdate == job.updates[job.done + 1]
LoopThen(step) ==
    IF job.done + 1 = Len(job.updates)
      THEN job' = [job EXCEPT !.done = 0] /\ Moves("interface", step)
      ELSE job' = [job EXCEPT !.done = @ + 1] /\ UNCHANGED pc

\* Mutant of BeginTransaction: db.transaction() is not called.
BeginWithoutTransaction ==
    /\ At("interface", "begin")
    /\ Moves("interface", "exec")
    /\ UNCHANGED <<dbVars, md, procVars, necVars, job, answer>>

\* Mutant of BeginTransaction: after a BEGIN that failed no UPDATE is tried, and
\* the call returns true all the same.
BeginOrSkip ==
    /\ At("interface", "begin")
    /\ \/ ~txOpen /\ txOpen' = TRUE /\ Moves("interface", "exec")
       \/ (txOpen \/ "begin" \in DbFaults) /\ UNCHANGED txOpen /\ Moves("interface", "apply")
    /\ UNCHANGED <<table, view, lost, md, procVars, necVars, job, answer>>

\* db.transaction(): its result is not looked at.  It fails in an open one.
BeginTransaction ==
    /\ At("interface", "begin")
    /\ Moves("interface", "exec")
    /\ \/ ~txOpen /\ txOpen' = TRUE
       \/ (txOpen \/ "begin" \in DbFaults) /\ UNCHANGED txOpen
    /\ UNCHANGED <<table, view, lost, md, procVars, necVars, job, answer>>

\* One UPDATE; outside a transaction it is committed by itself.
ExecLeaving(list) ==
    /\ At("interface", "exec")
    /\ view' = [view EXCEPT ![NextUpdate.d] = NextUpdate.v]
    /\ table' = IF txOpen THEN table ELSE view'
    /\ ListBecomes(list)
    /\ LoopThen("commit")
    /\ UNCHANGED <<txOpen, lost, procVars, snap, told, answer>>

\* Mutant of ExecUpdate: the list in memory is updated along with the row.
ExecUpdateAndMemory == ExecLeaving([md EXCEPT ![NextUpdate.d] = NextUpdate.v])

ExecUpdate == ExecLeaving(md)

\* An UPDATE fails: break, and the call ends with these values of the
\* connection's variables, at this step, with this answer.
ExecFailsTo(rows, open, step, said) ==
    /\ At("interface", "exec")
    /\ "exec" \in DbFaults
    /\ view' = rows /\ txOpen' = open
    /\ job' = [job EXCEPT !.done = 0]
    /\ answer' = said
    /\ Moves("interface", step)
    /\ UNCHANGED <<table, lost, md, procVars, necVars>>

\* Mutants of ExecFails: no rollback; the loop is left without allOk = false.
ExecFailsNoRollback == ExecFailsTo(view, txOpen, "idle", "no")
ExecFailsUnnoticed == ExecFailsTo(view, txOpen, "commit", answer)

\* db.rollback(), false, and the handler's answer.
ExecFails == ExecFailsTo(table, FALSE, "idle", "no")

\* db.commit()
Commit ==
    /\ At("interface", "commit")
    /\ table' = view
    /\ txOpen' = FALSE
    /\ Moves("interface", "apply")
    /\ UNCHANGED <<view, lost, md, procVars, necVars, job, answer>>

\* db.commit() fails, which nobody looks at: the transaction stays open, or
\* the database has rolled it back.
CommitFails ==
    /\ At("interface", "commit")
    /\ "commit" \in DbFaults
    /\ \/ UNCHANGED <<view, txOpen>>
       \/ view' = table /\ txOpen' = FALSE
    /\ lost' = (lost \/ txOpen)
    /\ Moves("interface", "apply")
    /\ UNCHANGED <<table, md, procVars, necVars, job, answer>>

\* One turn of the loop over updates in applySetValue.
ApplyUpdate ==
    /\ At("interface", "apply")
    /\ ListBecomes([md EXCEPT ![NextUpdate.d] = NextUpdate.v])
    /\ LoopThen("answer")
    /\ UNCHANGED <<dbVars, procVars, snap, told, answer>>

\* The answer, and the step after it.
AnswerThen(step) ==
    /\ At("interface", "answer")
    /\ answer' = IF job.allKnown THEN "yes" ELSE "no"
    /\ Moves("interface", step)
    /\ UNCHANGED <<dbVars, md, procVars, necVars, job>>

\* Mutant of Answer: no snapshot follows.
AnswerWithoutSnapshot == AnswerThen("idle")

\* ok:1 and a snapshot when every id was known, else ok:0 and no snapshot.
Answer == AnswerThen(IF job.allKnown THEN "read" ELSE "idle")

-----------------------------------------------------------------------------

Snapshot(t) == ReadRow(t) \/ SendSnapshot(t)

SetValueStep ==
    \/ BeginTransaction \/ ExecUpdate \/ ExecFails \/ Commit \/ CommitFails
    \/ ApplyUpdate \/ Answer

Next ==
    \/ Start \/ Crash
    \/ \E t \in Threads : Snapshot(t)
    \/ NECRunSuccess \/ NECAsks
    \/ \E c \in Clients : AddRegListen(c)
    \/ \E msg \in Messages : SetValue(msg)
    \/ SetValueStep

Spec == Init /\ [][Next]_vars

\* Every thread is scheduled and no call of the database blocks for ever.
Fairness ==
    /\ \A t \in Threads : WF_vars(Snapshot(t))
    /\ WF_vars(SetValueStep)

FairSpec == Spec /\ Fairness

-----------------------------------------------------------------------------

\* Every variable has its type.  In particular no update of an id that the list
\* does not have gets past the check of applySetValue (meta_manage.cpp 263-269).
TypeOK ==
    /\ table \in [Ids -> Values] /\ view \in [Ids -> Values]
    /\ md \in [Ids -> Values] \cup {<<>>}
    /\ txOpen \in BOOLEAN /\ lost \in BOOLEAN
    /\ up \in BOOLEAN /\ necConnected \in BOOLEAN
    /\ registered \subseteq Clients
    /\ pc \in [Threads -> Steps]
    /\ snap \in [Threads -> Seq(Values)] /\ \A t \in Threads : Len(snap[t]) <= Rows
    /\ told \in Seq(Values) /\ late \subseteq Threads \cup {"sent"}
    /\ job \in Jobs
    /\ answer \in {"none", "yes", "no"}

\* Between two setValues the list in memory and the rows of the database agree,
\* also after an UPDATE has failed half-way through a batch, after a restart,
\* and after a batch that was refused because some of its ids were unknown.
MemoryMatchesTable ==
    up /\ pc["interface"] \in {"idle", "answer", "read"}
        => (md = table \/ md = <<>>) /\ view = table /\ ~txOpen

\* NEC is never sent a value before the row that holds it is committed: while
\* the database call runs, every row of a snapshot is a committed one.
NothingUncommittedIsRead ==
    up /\ pc["interface"] \in {"begin", "exec", "commit"} => md = table

\* What a client was told is ok:1 is in the table, for as long as no later
\* setValue is taken, and through any number of crashes.
AckIsDurable ==
    answer = "yes" => table = Stored(table, job.updates)

\* db_queries.cpp 127 and 151 drop two results; while no UPDATE fails, only the
\* second one costs anything.  As long as every COMMIT has worked, list and table
\* agree between setValues and what was answered ok:1 is stored, however often BEGIN
\* has failed, the UPDATEs were committed one by one and the process died between
\* two of them.
OnlyCommitLoses == lost \/ (MemoryMatchesTable /\ AckIsDurable)

\* The interface thread's own snapshot is a state the list is in when it is
\* sent: no other thread changes the list under it.
InterfaceSnapshotIsExact ==
    At("interface", "read")
        => \A k \in 1 .. Len(snap["interface"]) : snap["interface"][k] = md[k]

Quiet == up /\ \A t \in Threads : pc[t] = "idle"

\* NEC is behind after a setValue that was answered ok:1 only when a message
\* begun before the list changed was sent after the one that announced it: three
\* threads send without a lock (meta_manage.cpp 213-214, 312-327).
NecIsCurrent ==
    Quiet /\ answer = "yes" /\ "sent" \notin late => told = md

\* The interface thread is about to answer ok:1.
Acknowledges == At("interface", "answer") /\ job.allKnown

\* A setValue that is answered ok:1 is announced: NEC is sent the list with
\* its values in it, unless the process dies (meta_manage.cpp 210-215).
AcknowledgedIsAnnounced ==
    Acknowledges ~> told = md \/ ~up

\* While the list could not be loaded (startup.cpp 78-85), no setValue changes
\* a row, the list itself or what the connection sees, and none is answered ok:1
\* (meta_manage.cpp 263-277): there is no id that is known.
UnloadedListRefuses ==
    [][up /\ md = <<>>
         => UNCHANGED <<table, view, md>> /\ (answer' = "yes" => answer = "yes")]_vars

\* How far the interface thread is with the last setValue, as a client sees it.
Phase ==
    IF up /\ pc["interface"] \in {"begin", "exec", "commit"} THEN "open"
    ELSE IF up /\ pc["interface"] \in {"apply", "answer"} THEN "stored"
    ELSE "idle"

\* A setValue is stored as a whole or not at all, and answered truthfully.
Store == INSTANCE MetaStore WITH
    stored <- table,
    request <- job.updates,
    whole <- job.allKnown,
    phase <- Phase,
    Requests <- Updates,
    Effect <- Stored

StoresAtomically == Store!Spec

=============================================================================
