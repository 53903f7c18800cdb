-------------------------- MODULE MetaManageProofs --------------------------
(***************************************************************************)
(* Theorems about MetaManage, for any number of rows, values, clients and  *)
(* items in a setValue.                                                    *)
(*                                                                         *)
(* Typing is inductive by itself; SnapInv and LateInv (what the messages   *)
(* to NEC hold) rest on it, and so do DurInv and MatchInv (how the rows,   *)
(* the connection's view of them and the list in memory differ while a     *)
(* setValue is on its way).  The last two say how far each of them is: the *)
(* first job.done updates are in it, whatever the updates are.             *)
(*                                                                         *)
(* Which calls of the database may fail is a hypothesis of the theorems it *)
(* matters to: the others hold with any of them failing.                   *)
(***************************************************************************)
EXTENDS MetaManage, DataInduction, SequenceTheorems

\* Only the two loops count (updateMdDefaultValues, and applySetValue after it);
\* the interface thread is past the check for known ids only with an update left
\* to treat and a list that has ids; it has not answered yet; a process that
\* does not run has no thread at work.
JobInv ==
    /\ pc["interface"] \in {"exec", "apply"} \/ job.done = 0
    /\ pc["interface"] \in {"begin", "exec", "commit", "apply"}
          => job.done < Len(job.updates) /\ md # <<>>
    /\ pc["interface"] \in {"begin", "exec", "commit", "apply", "answer"}
          => answer = "none" /\ md # <<>>
    /\ ~up => \A t \in Threads : pc[t] = "idle"

Update == [d : Ids, v : Values]

\* The updates of a call are a sequence of rows and values.
LEMMA UpdatesType ==
  ASSUME NEW u \in Updates
  PROVE  /\ u \in Seq(Update) /\ Len(u) \in 0 .. MaxItems
         /\ u = <<>> \/ Len(u) > 0
         /\ \A k \in 1 .. Len(u) : u[k].d \in Ids /\ u[k].v \in Values
<1>. USE MetaAssumption
<1>1. PICK n \in 0 .. MaxItems : u \in [1 .. n -> Update]
  BY DEF Updates, Update
<1>. n \in Nat
  OBVIOUS
<1>2. u \in Seq(Update) /\ Len(u) = n
  BY <1>1
<1>3. \A k \in 1 .. n : u[k] \in Update
  BY <1>1
<1>. QED
  BY <1>2, <1>3 DEF Update

\* A sequence of rows and values that is no longer than a message is one.
LEMMA UpdatesMember ==
  ASSUME NEW u \in Seq(Update), Len(u) <= MaxItems
  PROVE  u \in Updates
<1>1. u \in [1 .. Len(u) -> Update] /\ Len(u) \in 0 .. MaxItems
  BY MetaAssumption
<1>. QED
  BY <1>1 DEF Updates, Update

\* The list is empty, or has a value for every row: selectAllMetaInfo loads all
\* or nothing.
LEMMA MdType ==
  ASSUME TypeOK PROVE  /\ md \in Seq(Values) 
                       /\ md # <<>> => md \in [Ids -> Values] /\ Len(md) = Rows /\ DOMAIN md = Ids
                       /\ Len(md) \in Nat /\ Len(md) <= Rows
<1>. Rows \in Nat
  BY MetaAssumption
<1>1. CASE md = <<>>
  BY <1>1
<1>2. CASE md \in [Ids -> Values]
  <2>1. md \in Seq(Values) /\ Len(md) = Rows
    BY <1>2 DEF Ids
  <2>. QED BY <1>2, <2>1
<1>. QED
  BY <1>1, <1>2 DEF TypeOK

\* The loop of applySetValue over the items of a message (meta_manage.cpp
\* 262-271) leaves updates of ids of the list with values of theirs, for a message
\* of any length: by induction on the number of items the loop has treated.
LEMMA KnownPartType ==
  ASSUME TypeOK, NEW msg \in Messages
  PROVE  /\ KnownPart(msg) \in Updates
         /\ md = <<>> => KnownPart(msg) = <<>>
<1>. DEFINE m == Len(msg)
            S == Seq(Update)
            Body(part, n) == IF n = 0 THEN <<>>
                             ELSE IF msg[n].d \in KnownIds
                                    THEN Append(part[n - 1], Converted(msg[n]))
                             ELSE part[n - 1]
            part == CHOOSE f : f = [n \in 0 .. m |-> Body(f, n)]
            Step == [n \in 1 .. m |-> [x \in S |-> IF msg[n].d \in KnownIds
                             THEN Append(x, Converted(msg[n])) ELSE x]]
<1>1. m \in Nat /\ m <= MaxItems /\ \A n \in 1 .. m : msg[n] \in Items
  <2>1. PICK n \in 0 .. MaxItems : msg \in [1 .. n -> Items]
    BY DEF Messages
  <2>2. n \in Nat /\ n <= MaxItems /\ m = n
    BY <2>1, MetaAssumption
  <2>. QED
    BY <2>1, <2>2
<1>2. ASSUME NEW n \in 1 .. m, msg[n].d \in KnownIds PROVE Converted(msg[n]) \in Update /\ md # <<>>
  <2>1. msg[n].d \in Ids /\ md # <<>>
    BY <1>2, MetaAssumption DEF KnownIds, TypeOK
  <2>2. msg[n].v \in Values \cup {Garbage}
    BY <1>1, MetaAssumption DEF Items
  <2>3. ToInt(msg[n].v) \in Values
    BY <2>2, MetaAssumption DEF ToInt
  <2>. QED
    BY <2>1, <2>3 DEF Converted, Update
<1>. HIDE DEF S
<1>3. Step \in [1 .. m -> [S -> S]]
  BY <1>2 DEF S
<1>4. <<>> \in S
  BY DEF S
<1>5. PICK g : Iterates(g, m, S, <<>>, Step)
  <2>. HIDE DEF Step, m, Body
  <2>1. m \in Nat
    BY <1>1
  <2>. QED BY <2>1, <1>3, <1>4, RecursiveFunction, Zenon
<1>6. g = [n \in 0 .. m |-> Body(g, n)]
  <2>0. g \in [0 .. m -> S] /\ g[0] = <<>> /\ \A n \in 1 .. m : g[n] = Step[n][g[n - 1]]
    BY <1>5 DEF Iterates
  <2>1. ASSUME NEW n \in 0 .. m PROVE g[n] = Body(g, n)
    <3>1. CASE n = 0
      BY <2>0, <3>1
    <3>2. CASE n # 0
      <4>1. n \in 1 .. m /\ n - 1 \in 0 .. m
        BY <1>1, <3>2
      <4>2. g[n - 1] \in S /\ g[n] = Step[n][g[n - 1]]
        BY <2>0, <4>1
      <4>. QED
        BY <4>1, <4>2
    <3>. QED
      BY <3>1, <3>2
  <2>. HIDE DEF Body
  <2>. QED
    BY <2>0, <2>1
<1>7. part = [n \in 0 .. m |-> Body(part, n)]
  <2>. HIDE DEF Body, m
  <2>. QED BY <1>6, Zenon
<1>8. KnownPart(msg) = part[m]
  BY Zenon DEF KnownPart
<1>. HIDE DEF part
<1>. DEFINE P == {n \in Nat : n <= m => /\ part[n] \in S /\ Len(part[n]) <= n
                                        /\ md = <<>> => part[n] = <<>>}
<1>9. 0 \in P
  BY <1>1, <1>4, <1>7
<1>10. ASSUME NEW n \in Nat, n \in P PROVE n + 1 \in P
  <2>. SUFFICES ASSUME n + 1 <= m
                PROVE /\ part[n + 1] \in S /\ Len(part[n + 1]) <= n + 1
                      /\ md = <<>> => part[n + 1] = <<>>
    OBVIOUS
  <2>1. n + 1 \in 1 .. m /\ n + 1 \in 0 .. m /\ n + 1 # 0 /\ n + 1 - 1 = n /\ n <= m
    BY <1>1
  <2>2. part[n + 1] = IF msg[n + 1].d \in KnownIds THEN Append(part[n], Converted(msg[n + 1]))
                             ELSE part[n]
    <3>1. part[n + 1] = Body(part, n + 1)
      <4>. HIDE DEF Body
      <4>. QED BY <1>7, <2>1
    <3>2. CASE msg[n + 1].d \in KnownIds
      BY <3>1, <3>2, <2>1
    <3>3. CASE msg[n + 1].d \notin KnownIds
      BY <3>1, <3>3, <2>1
    <3>. QED BY <3>2, <3>3
  <2>3. part[n] \in S /\ Len(part[n]) <= n /\ (md = <<>> => part[n] = <<>>)
    BY <1>10, <2>1
  <2>4. CASE msg[n + 1].d \in KnownIds
    BY <1>2, <2>1, <2>2, <2>3, <2>4 DEF S
  <2>5. CASE msg[n + 1].d \notin KnownIds
    BY <1>2, <2>1, <2>2, <2>3, <2>5 DEF S
  <2>. QED BY <2>4, <2>5
<1>11. m \in P
  <2>. HIDE DEF P
  <2>. QED BY <1>1, <1>9, <1>10, SetInduction, Zenon
<1>12. part[m] \in S /\ Len(part[m]) <= MaxItems /\ (md = <<>> => part[m] = <<>>)
  BY <1>1, <1>11, MetaAssumption DEF S
<1>. QED
  BY <1>8, <1>12, UpdatesMember DEF S

\* One turn of a loop over the updates: the next one is an update, and the count
\* is either reset with the thread at the step after the loop, or one more.
LEMMA LoopType ==
  ASSUME TypeOK, JobInv, NEW step \in Steps, LoopThen(step),
         pc["interface"] \in {"exec", "apply"}
  PROVE  /\ NextUpdate \in Update /\ NextUpdate.d \in Ids /\ NextUpdate.v \in Values
         /\ NextUpdate = job.updates[job.done + 1] /\ job.done + 1 \in 1 .. Len(job.updates)
         /\ job' \in Jobs /\ job'.updates = job.updates /\ job'.allKnown = job.allKnown
         /\ pc' \in [Threads -> Steps]
         /\ \A t \in Threads \ {"interface"} : pc'[t] = pc[t]
         /\ \/ /\ job.done + 1 = Len(job.updates)
               /\ job'.done = 0 /\ pc'["interface"] = step
            \/ /\ job.done + 1 < Len(job.updates)
               /\ job'.done = job.done + 1 /\ pc' = pc
<1>. DEFINE u == job.updates
            n == job.done
<1>1. u \in Updates /\ n \in Nat /\ job.allKnown \in BOOLEAN
  BY MetaAssumption DEF TypeOK, Jobs
<1>2. Len(u) \in 0 .. MaxItems /\ u \in Seq(Update)
  BY <1>1, UpdatesType
<1>3. n < Len(u)
  BY DEF JobInv
<1>4. n + 1 \in 1 .. Len(u) /\ n + 1 \in 0 .. MaxItems /\ MaxItems \in Nat
  BY <1>1, <1>2, <1>3, MetaAssumption
<1>5. NextUpdate \in Update
  BY <1>2, <1>4 DEF NextUpdate
<1>6. NextUpdate.d \in Ids /\ NextUpdate.v \in Values
  BY <1>5 DEF Update
<1>7. job \in [updates : Updates, done : 0 .. MaxItems, allKnown : BOOLEAN]
  BY DEF TypeOK, Jobs
<1>8. pc \in [Threads -> Steps] /\ "interface" \in Threads
  BY DEF TypeOK, Threads
<1>9. CASE n + 1 = Len(u)
  <2>1. job' = [job EXCEPT !.done = 0] /\ pc' = [pc EXCEPT !["interface"] = step]
    BY <1>9 DEF LoopThen, Moves
  <2>2. 0 \in 0 .. MaxItems
    BY <1>4
  <2>. QED
    BY <1>1, <1>4, <1>5, <1>6, <1>7, <1>8, <1>9, <2>1, <2>2 DEF Jobs, NextUpdate
<1>10. CASE n + 1 # Len(u)
  <2>1. job' = [job EXCEPT !.done = n + 1] /\ pc' = pc
    BY <1>10 DEF LoopThen
  <2>2. n + 1 < Len(u)
    BY <1>2, <1>4, <1>10
  <2>. QED
    BY <1>1, <1>4, <1>5, <1>6, <1>7, <1>8, <2>1, <2>2 DEF Jobs, NextUpdate
<1>. QED
  BY <1>9, <1>10

Typing == TypeOK /\ JobInv

\* Resetting the count leaves the updates as they are.
LEMMA JobReset ==
  ASSUME job \in Jobs, NEW j, j = [job EXCEPT !.done = 0]
  PROVE  j \in Jobs /\ j.done = 0 /\ j.updates = job.updates /\ j.allKnown = job.allKnown
<1>1. 0 \in 0 .. MaxItems
  BY MetaAssumption
<1>. QED
  BY <1>1 DEF Jobs

\* The initial state has its types.
LEMMA TypingInit == Init => Typing
<1>. SUFFICES ASSUME Init PROVE Typing
  OBVIOUS
<1>. USE MetaAssumption DEF Init
<1>1. <<>> \in Updates
  <2>1. <<>> \in Seq(Update) /\ Len(<<>>) <= MaxItems
    OBVIOUS
  <2>. QED BY <2>1, UpdatesMember
<1>2. job \in Jobs
  BY <1>1 DEF Jobs
<1>3. TypeOK
  <2>1. md \in [Ids -> Values] /\ view \in [Ids -> Values]
    OBVIOUS
  <2>2. snap \in [Threads -> Seq(Values)] /\ \A t \in Threads : Len(snap[t]) <= Rows
    OBVIOUS
  <2>3. pc \in [Threads -> Steps]
    BY DEF Steps
  <2>. QED
    <3>1. /\ told \in Seq(Values) /\ late \subseteq Threads \cup {"sent"}
          /\ table \in [Ids -> Values] /\ txOpen = FALSE /\ lost = FALSE /\ up = FALSE
          /\ necConnected = FALSE /\ registered = {} /\ answer = "none"
      OBVIOUS
    <3>. HIDE DEF Init
    <3>. QED BY <1>2, <2>1, <2>2, <2>3, <3>1 DEF TypeOK
<1>4. JobInv
  BY DEF JobInv, Threads
<1>. QED
  BY <1>3, <1>4 DEF Typing

\* Every step keeps them: one case per handler and step of a handler.
LEMMA TypingStep == Typing /\ [Next]_vars => Typing'
<1>. SUFFICES ASSUME TypeOK, JobInv, [Next]_vars PROVE TypeOK' /\ JobInv'
  BY DEF Typing
<1>. USE MetaAssumption
<1>0. "interface" \in Threads /\ "main" \in Threads /\ "nec" \in Threads
      /\ pc \in [Threads -> Steps]
      /\ snap \in [Threads -> Seq(Values)] 
  BY DEF TypeOK, Threads
<1>1. CASE Start
  <2>. USE <1>1 DEF Start, Moves
  <2>1. md' \in [Ids -> Values] \cup {<<>>}
    BY DEF TypeOK, Loaded
  <2>2. TypeOK'
    BY <1>0, <2>1 DEF TypeOK, dbVars, necVars, Steps
  <2>3. JobInv'
    BY <1>0 DEF JobInv, Threads
  <2>. QED BY <2>2, <2>3
<1>2. CASE Crash
  <2>. USE <1>2 DEF Crash
  <2>1. job' \in Jobs /\ job'.done = 0
    BY JobReset DEF TypeOK
  <2>2. pc' \in [Threads -> Steps]
        /\ snap' \in [Threads -> Seq(Values)] /\ \A t \in Threads : Len(snap'[t]) <= Rows
    BY DEF Steps
  <2>3. TypeOK'
    <3>1. told' \in Seq(Values) /\ late' \subseteq Threads \cup {"sent"}
      OBVIOUS
    <3>2. UNCHANGED <<table, lost, md, answer>> /\ view' = table /\ txOpen' = FALSE
          /\ up' = FALSE /\ necConnected' = FALSE /\ registered' = {}
      OBVIOUS
    <3>. HIDE DEF Crash
    <3>. QED BY <2>1, <2>2, <3>1, <3>2 DEF TypeOK
  <2>4. JobInv'
    BY <1>0, <2>1 DEF JobInv
  <2>. QED BY <2>3, <2>4
<1>3. ASSUME NEW t \in Threads, ReadRow(t) PROVE TypeOK' /\ JobInv'
  <2>. USE <1>3 DEF ReadRow, At
  <2>1. Len(snap[t]) < Len(md) /\ Len(snap[t]) \in Nat /\ md \in Seq(Values) /\ Len(md) <= Rows
    BY <1>0, MdType
  <2>2. md[Len(snap[t]) + 1] \in Values
    BY <2>1
  <2>3. snap' = [snap EXCEPT ![t] = Append(snap[t], md[Len(snap[t]) + 1])]
    OBVIOUS
  <2>4. Append(snap[t], md[Len(snap[t]) + 1]) \in Seq(Values)
        /\ Len(Append(snap[t], md[Len(snap[t]) + 1])) <= Rows
    BY <1>0, <2>1, <2>2
  <2>5. snap' \in [Threads -> Seq(Values)] /\ \A s \in Threads : Len(snap'[s]) <= Rows
    BY <1>0, <2>3, <2>4 DEF TypeOK
  <2>6. DOMAIN snap' = Threads
    BY <2>5
  <2>7. TypeOK'
    BY <2>5, <2>6 DEF TypeOK, dbVars, procVars
  <2>8. JobInv'
    BY DEF JobInv, procVars
  <2>. QED BY <2>7, <2>8
<1>4. ASSUME NEW t \in Threads, SendSnapshot(t) PROVE TypeOK' /\ JobInv'
  <2>. USE <1>4 DEF SendSnapshot, SendLeaving, At, Moves
  <2>1. \A s \in Threads : snap'[s] \in Seq(Values) /\ Len(snap'[s]) <= Rows
    BY <1>0 DEF TypeOK
  <2>2. told' \in Seq(Values) /\ late' \subseteq Threads \cup {"sent"}
    BY <1>0 DEF TypeOK
  <2>3. pc' \in [Threads -> Steps] /\ pc' = [pc EXCEPT ![t] = "idle"]
    BY <1>0 DEF Steps
  <2>4. TypeOK'
    BY <2>1, <2>2, <2>3 DEF TypeOK, dbVars, procVars
  <2>5. JobInv'
    BY <1>0, <2>3 DEF JobInv, procVars
  <2>. QED BY <2>4, <2>5
<1>5. CASE NECRunSuccess \/ NECAsks
  <2>1. pc' = [pc EXCEPT !["nec"] = "read"] /\ necConnected' \in BOOLEAN
        /\ UNCHANGED <<dbVars, md, up, registered, necVars, job, answer>> /\ up
    BY <1>5 DEF NECRunSuccess, NECAsks, Moves, procVars, TypeOK, At
  <2>2. pc' \in [Threads -> Steps] /\ pc'["interface"] = pc["interface"]
    BY <1>0, <2>1 DEF Steps
  <2>. QED
    BY <2>1, <2>2 DEF TypeOK, JobInv, dbVars, necVars
<1>6. ASSUME NEW c \in Clients, AddRegListen(c) PROVE TypeOK' /\ JobInv'
  <2>1. pc' = [pc EXCEPT !["interface"] = "read"] /\ registered' \subseteq Clients
        /\ UNCHANGED <<dbVars, md, up, necConnected, necVars, job, answer>>
        /\ up /\ pc["interface"] = "idle"
    BY <1>6 DEF AddRegListen, Moves, TypeOK, At
  <2>2. pc' \in [Threads -> Steps] /\ pc'["interface"] = "read"
    BY <1>0, <2>1 DEF Steps
  <2>. QED
    BY <2>1, <2>2 DEF TypeOK, JobInv, dbVars, necVars
<1>7. ASSUME NEW msg \in Messages, SetValue(msg) PROVE TypeOK' /\ JobInv'
  <2>. DEFINE u == KnownPart(msg)
              all == \A k \in DOMAIN msg : msg[k].d \in KnownIds
  <2>1. u \in Updates /\ (md = <<>> => u = <<>>)
        /\ Len(u) \in 0 .. MaxItems /\ (u = <<>> \/ Len(u) > 0)
    BY KnownPartType, UpdatesType
  <2>2. all \in BOOLEAN
    OBVIOUS
  <2>3. Take(u, all)
    BY <1>7 DEF SetValue
  <2>. HIDE DEF u, all
  <2>. USE <2>3 DEF Take, At, Moves
  <2>4. job' \in Jobs /\ job'.updates = u /\ job'.done = 0
    BY <2>1, <2>2 DEF Jobs
  <2>5. pc' \in [Threads -> Steps]
    BY <1>0 DEF Steps
  <2>6. answer' \in {"none", "yes", "no"}
    BY DEF TypeOK
  <2>7. TypeOK'
    BY <2>4, <2>5, <2>6 DEF TypeOK, dbVars, procVars, necVars
  <2>8. JobInv'
    BY <1>0, <2>1, <2>4 DEF JobInv, dbVars, procVars, necVars
  <2>. QED BY <2>7, <2>8
<1>8. CASE BeginTransaction
  <2>. USE <1>8 DEF BeginTransaction, At, Moves
  <2>1. pc' \in [Threads -> Steps] /\ txOpen' \in BOOLEAN /\ pc'["interface"] = "exec"
    BY <1>0 DEF Steps, TypeOK
  <2>. QED
    BY <2>1 DEF TypeOK, JobInv, procVars, necVars
<1>9. CASE ExecUpdate
  <2>. USE <1>9 DEF ExecUpdate, ExecLeaving, ListBecomes, At
  <2>1. /\ NextUpdate.d \in Ids /\ NextUpdate.v \in Values
        /\ job' \in Jobs /\ job'.updates = job.updates /\ job.done + 1 \in 1 .. Len(job.updates)
        /\ pc' \in [Threads -> Steps]
        /\ \/ job'.done = 0 /\ pc'["interface"] = "commit"
           \/ /\ job.done + 1 < Len(job.updates)
              /\ job'.done = job.done + 1 /\ pc' = pc
    BY LoopType, "commit" \in Steps DEF Steps
  <2>2. view' \in [Ids -> Values] /\ table' \in [Ids -> Values]
    BY <2>1 DEF TypeOK
  <2>3. late' = late
    OBVIOUS
  <2>4. TypeOK'
    BY <2>1, <2>2, <2>3 DEF TypeOK, procVars
  <2>5. JobInv'
    BY <2>1 DEF JobInv, procVars
  <2>. QED BY <2>4, <2>5
<1>10. CASE ExecFails
  <2>. USE <1>10 DEF ExecFails, ExecFailsTo, At, Moves
  <2>1. pc' \in [Threads -> Steps] /\ pc'["interface"] = "idle"
    BY <1>0 DEF Steps
  <2>2. job' \in Jobs /\ job'.done = 0
    BY JobReset DEF TypeOK
  <2>. QED
    BY <2>1, <2>2 DEF TypeOK, JobInv, procVars, necVars
<1>11. CASE Commit \/ CommitFails
  <2>1. /\ up /\ pc["interface"] = "commit" /\ pc' = [pc EXCEPT !["interface"] = "apply"]
        /\ UNCHANGED <<md, procVars, necVars, job, answer>>
        /\ table' \in {view, table} /\ view' \in {view, table} /\ txOpen' \in BOOLEAN
        /\ lost' \in BOOLEAN
    BY <1>11 DEF Commit, CommitFails, At, Moves, TypeOK
  <2>2. pc' \in [Threads -> Steps] /\ pc'["interface"] = "apply"
    BY <1>0, <2>1 DEF Steps
  <2>. QED
    BY <2>1, <2>2 DEF TypeOK, JobInv, procVars, necVars
<1>12. CASE ApplyUpdate
  <2>. USE <1>12 DEF ApplyUpdate, ListBecomes, At
  <2>1. /\ NextUpdate.d \in Ids /\ NextUpdate.v \in Values
        /\ job' \in Jobs /\ job'.updates = job.updates /\ job.done + 1 \in 1 .. Len(job.updates)
        /\ pc' \in [Threads -> Steps]
        /\ \/ job'.done = 0 /\ pc'["interface"] = "answer"
           \/ /\ job.done + 1 < Len(job.updates)
              /\ job'.done = job.done + 1 /\ pc' = pc
    BY LoopType, "answer" \in Steps DEF Steps
  <2>2. md \in [Ids -> Values]
    BY DEF TypeOK, JobInv
  <2>3. md' \in [Ids -> Values]
    BY <2>1, <2>2
  <2>4. md' # <<>>
    BY <2>3 DEF Ids
  <2>5. late' \subseteq Threads \cup {"sent"}
    BY DEF TypeOK, Readers
  <2>6. TypeOK'
    BY <2>1, <2>3, <2>5 DEF TypeOK, procVars, dbVars
  <2>7. JobInv'
    BY <2>1, <2>4 DEF JobInv, procVars
  <2>. QED BY <2>6, <2>7
<1>13. CASE Answer
  <2>. USE <1>13 DEF Answer, AnswerThen, At, Moves
  <2>1. pc' \in [Threads -> Steps] /\ pc'["interface"] \in {"read", "idle"}
    BY <1>0 DEF Steps
  <2>2. job.done = 0
    BY DEF JobInv
  <2>. QED
    BY <2>1, <2>2 DEF TypeOK, JobInv, procVars, necVars, dbVars
<1>14. CASE UNCHANGED vars
  BY <1>14 DEF TypeOK, JobInv, vars, dbVars, procVars, necVars
<1>. QED
  BY <1>1, <1>2, <1>3, <1>4, <1>5, <1>6, <1>7, <1>8, <1>9, <1>10, <1>11, <1>12, <1>13, <1>14
     DEF Next, Snapshot, SetValueStep

\* The steps that leave the messages to NEC and the list alone.
Aside ==
    \/ NECRunSuccess \/ NECAsks
    \/ \E c \in Clients : AddRegListen(c)
    \/ \E msg \in Messages : SetValue(msg)
    \/ BeginTransaction \/ ExecUpdate \/ ExecFails \/ Commit \/ CommitFails \/ Answer
    \/ UNCHANGED vars

\* They do not touch the list, a message or the history, no thread stops reading,
\* and ok:1 is said only by the step that has the interface thread read the list.
LEMMA AsideFrame ==
  ASSUME Typing, Aside
  PROVE  /\ UNCHANGED <<md, snap, told, late>> /\ up' = up
         /\ pc' \in [Threads -> Steps]
         /\ \A t \in Threads : pc[t] = "read" => pc'[t] = "read"
         /\ answer' = "yes" => answer = "yes" \/ (up /\ pc'["interface"] = "read")
<1>. USE DEF Moves, At
<1>0. "interface" \in Threads /\ "nec" \in Threads
      /\ pc \in [Threads -> Steps]
  BY DEF Typing, TypeOK, Threads
<1>. DEFINE Goal == /\ UNCHANGED <<md, snap, told, late>> /\ up' = up
                    /\ pc' \in [Threads -> Steps]
                    /\ \A t \in Threads : pc[t] = "read" => pc'[t] = "read"
                    /\ answer' = "yes" => answer = "yes" \/ (up /\ pc'["interface"] = "read")
<1>1. CASE NECRunSuccess \/ NECAsks
  BY <1>0, <1>1 DEF NECRunSuccess, NECAsks, necVars, procVars, Steps
<1>2. ASSUME NEW c \in Clients, AddRegListen(c) PROVE Goal
  BY <1>0, <1>2 DEF AddRegListen, necVars, procVars, Steps
<1>3. ASSUME NEW msg \in Messages, SetValue(msg) PROVE Goal
  <2>1. PICK u, all : Take(u, all)
    BY <1>3, Zenon DEF SetValue
  <2>. QED BY <1>0, <2>1 DEF Take, necVars, procVars, Steps
<1>4. CASE BeginTransaction
  BY <1>0, <1>4 DEF BeginTransaction, necVars, procVars, Steps
<1>5. CASE ExecUpdate
  <2>1. pc' = pc \/ pc' = [pc EXCEPT !["interface"] = "commit"]
    BY <1>5 DEF ExecUpdate, ExecLeaving, LoopThen
  <2>2. UNCHANGED <<md, snap, told, late, up, answer>> /\ pc["interface"] = "exec"
    BY <1>5 DEF ExecUpdate, ExecLeaving, ListBecomes, procVars
  <2>. QED BY <1>0, <2>1, <2>2 DEF Steps
<1>6. CASE ExecFails
  BY <1>0, <1>6 DEF ExecFails, ExecFailsTo, necVars, procVars, Steps
<1>7. CASE Commit \/ CommitFails
  BY <1>0, <1>7 DEF Commit, CommitFails, necVars, procVars, Steps
<1>8. CASE Answer
  <2>1. job.allKnown \in BOOLEAN
    BY DEF Typing, TypeOK, Jobs
  <2>. QED BY <1>0, <1>8, <2>1 DEF Answer, AnswerThen, necVars, procVars, Steps
<1>9. CASE UNCHANGED vars
  BY <1>0, <1>9 DEF vars, necVars, procVars
<1>. QED
  BY <1>1, <1>2, <1>3, <1>4, <1>5, <1>6, <1>7, <1>8, <1>9 DEF Aside

\* A step begins or ends the process, writes the list, reads it, or is aside.
LEMMA NextCases ==
  ASSUME [Next]_vars
  PROVE  \/ Start \/ Crash \/ ApplyUpdate \/ Aside
         \/ \E t \in Threads : ReadRow(t) \/ SendSnapshot(t)
BY Zenon DEF Next, Snapshot, SetValueStep, Aside

\* A message holds rows only while it is built (a QJsonArray of the function),
\* never more than the list has, and the interface thread's holds the list's.
SnapInv ==
    /\ \A t \in Threads : pc[t] # "read" => snap[t] = <<>>
    /\ \A t \in Threads : Len(snap[t]) <= Len(md)
    /\ \A k \in 1 .. Len(snap["interface"]) : snap["interface"][k] = md[k]

\* It holds initially.
LEMMA SnapInit == Init => SnapInv
<1>. SUFFICES ASSUME Init PROVE SnapInv
  OBVIOUS
<1>1. table \in Seq(Values)
  BY MetaAssumption DEF Init, Ids
<1>. QED
  BY <1>1 DEF Init, SnapInv, Threads

\* Every step keeps it: only the interface thread itself writes the list.
LEMMA SnapStep == Typing /\ SnapInv /\ [Next]_vars => SnapInv'
<1>. SUFFICES ASSUME Typing, SnapInv, [Next]_vars PROVE SnapInv'
  OBVIOUS
<1>0. /\ "interface" \in Threads /\ "main" \in Threads /\ pc \in [Threads -> Steps]
      /\ snap \in [Threads -> Seq(Values)]
  BY DEF Typing, TypeOK, Threads
<1>m. md \in Seq(Values) /\ (md # <<>> => md \in [Ids -> Values]) /\ Len(md) \in Nat
  BY MdType DEF Typing
<1>1. CASE Start
  <2>1. snap' = [t \in Threads |-> <<>>]
    BY <1>0, <1>1 DEF Start, necVars, SnapInv, Typing, JobInv
  <2>2. md' \in Seq(Values)
    <3>1. view \in Seq(Values)
      BY MetaAssumption DEF Typing, TypeOK, Ids
    <3>2. md' = view \/ md' = <<>>
      BY <1>1 DEF Start, Loaded
    <3>3. <<>> \in Seq(Values)
      OBVIOUS
    <3>. QED BY <3>1, <3>2, <3>3, Zenon
  <2>3. Len(md') \in Nat
    BY <2>2
  <2>. QED BY <1>0, <2>1, <2>3 DEF SnapInv
<1>2. CASE Crash
  <2>1. snap' = [t \in Threads |-> <<>>] /\ md' = md
    BY <1>2 DEF Crash
  <2>. QED BY <1>0, <1>m, <2>1 DEF SnapInv
<1>3. ASSUME NEW t \in Threads, ReadRow(t) PROVE SnapInv'
  <2>. DEFINE s == snap[t]
              next == Append(s, md[Len(s) + 1])
  <2>1. Len(s) < Len(md) /\ snap' = [snap EXCEPT ![t] = next] /\ UNCHANGED <<md, pc>>
        /\ pc[t] = "read"
    BY <1>3 DEF ReadRow, At
  <2>2. s \in Seq(Values) /\ Len(s) \in Nat
    BY <1>0
  <2>3. Len(next) = Len(s) + 1 /\ next[Len(s) + 1] = md[Len(s) + 1]
        /\ \A k \in 1 .. Len(s) : next[k] = s[k]
    BY <2>2
  <2>. HIDE DEF s, next
  <2>4. \A r \in Threads : snap'[r] = IF r = t THEN next ELSE snap[r]
    BY <1>0, <2>1
  <2>5. \A r \in Threads : Len(snap'[r]) <= Len(md)
    BY <1>m, <2>1, <2>2, <2>3, <2>4 DEF SnapInv
  <2>6. ASSUME NEW k \in 1 .. Len(snap'["interface"]) PROVE snap'["interface"][k] = md[k]
    <3>1. CASE t = "interface"
      <4>1. k \in 1 .. Len(s) \/ k = Len(s) + 1
        BY <1>0, <2>2, <2>3, <2>4, <3>1
      <4>. QED BY <1>0, <2>3, <2>4, <3>1, <4>1 DEF SnapInv, s
    <3>2. CASE t # "interface"
      BY <1>0, <2>4, <3>2 DEF SnapInv
    <3>. QED BY <3>1, <3>2
  <2>. QED BY <2>1, <2>4, <2>5, <2>6 DEF SnapInv
<1>4. ASSUME NEW t \in Threads, SendSnapshot(t) PROVE SnapInv'
  <2>1. /\ md' = md /\ pc' = [pc EXCEPT ![t] = "idle"] /\ snap' = [snap EXCEPT ![t] = <<>>]
    BY <1>4 DEF SendSnapshot, SendLeaving, Moves
  <2>2. \A r \in Threads : r # t => pc'[r] = pc[r] /\ snap'[r] = snap[r]
    BY <1>0, <2>1
  <2>3. snap'[t] = <<>>
    BY <1>0, <2>1
  <2>. QED BY <1>0, <1>m, <2>1, <2>2, <2>3 DEF SnapInv
<1>5. CASE ApplyUpdate
  <2>1. /\ md' = [md EXCEPT ![NextUpdate.d] = NextUpdate.v]
        /\ snap' = snap /\ pc["interface"] = "apply" /\ LoopThen("answer")
    BY <1>5 DEF ApplyUpdate, ListBecomes, At
  <2>2. /\ NextUpdate.d \in Ids /\ NextUpdate.v \in Values
        /\ \A t \in Threads \ {"interface"} : pc'[t] = pc[t]
        /\ pc'["interface"] \in {"apply", "answer"}
    BY <1>5, <2>1, LoopType, "answer" \in Steps DEF Typing, Steps
  <2>3. md \in [Ids -> Values] /\ md' \in [Ids -> Values]
    BY <1>m, <2>1, <2>2 DEF Typing, JobInv
  <2>4. Len(md') = Len(md)
    BY <2>3, MetaAssumption DEF Ids
  <2>5. snap["interface"] = <<>>
    BY <1>0, <2>1 DEF SnapInv
  <2>. QED BY <1>0, <2>1, <2>2, <2>4, <2>5 DEF SnapInv
<1>6. CASE Aside
  <2>1. UNCHANGED <<md, snap>> /\ \A t \in Threads : pc[t] = "read" => pc'[t] = "read"
    BY <1>6, AsideFrame
  <2>. QED BY <2>1 DEF SnapInv
<1>. QED
  BY <1>1, <1>2, <1>3, <1>4, <1>5, <1>6, NextCases

\* Only a reader is late, and never the interface thread, which writes the list;
\* a message of a thread that is not late is a part of the list; after ok:1, NEC has
\* the list or a thread that is not late is about to send it.
LateInv ==
    /\ \A t \in Threads \cap late : pc[t] = "read"
    /\ "interface" \notin late
    /\ ~up => late = {}
    /\ \A t \in Threads \ late : \A k \in 1 .. Len(snap[t]) : snap[t][k] = md[k]
    /\ up /\ answer = "yes" /\ "sent" \notin late
          => told = md \/ \E t \in Threads \ late : pc[t] = "read"

\* It holds initially.
LEMMA LateInit == Init => LateInv
BY DEF Init, LateInv, Threads

\* Every step keeps it, when the history is kept.
LEMMA LateStep ==
  ASSUME History
  PROVE  Typing /\ SnapInv /\ LateInv /\ [Next]_vars => LateInv'
<1>. SUFFICES ASSUME Typing, SnapInv, LateInv, [Next]_vars PROVE LateInv'
  OBVIOUS
<1>0. /\ "interface" \in Threads /\ "main" \in Threads /\ "sent" \notin Threads
      /\ pc \in [Threads -> Steps] /\ snap \in [Threads -> Seq(Values)]
  BY DEF Typing, TypeOK, Threads
<1>m. md \in Seq(Values) /\ Len(md) \in Nat
  BY MdType DEF Typing
<1>1. CASE Start
  <2>1. ~up /\ snap' = snap /\ late' = late /\ pc' = [pc EXCEPT !["main"] = "read"] /\ up'
    BY <1>1 DEF Start, necVars, Moves
  <2>2. late = {} /\ \A t \in Threads : snap[t] = <<>>
    BY <2>1 DEF LateInv, SnapInv, Typing, JobInv
  <2>3. pc'["main"] = "read"
    BY <1>0, <2>1
  <2>. QED BY <1>0, <2>1, <2>2, <2>3 DEF LateInv
<1>2. CASE Crash
  <2>1. snap' = [t \in Threads |-> <<>>] /\ late' = {} /\ ~up'
    BY <1>2 DEF Crash
  <2>. QED BY <1>0, <2>1 DEF LateInv
<1>3. ASSUME NEW t \in Threads, ReadRow(t) PROVE LateInv'
  <2>. DEFINE s == snap[t]
              next == Append(s, md[Len(s) + 1])
  <2>1. snap' = [snap EXCEPT ![t] = next] /\ UNCHANGED <<md, pc, late, up, answer, told>>
    BY <1>3 DEF ReadRow, procVars
  <2>2. s \in Seq(Values) /\ Len(s) \in Nat
    BY <1>0
  <2>3. Len(next) = Len(s) + 1 /\ next[Len(s) + 1] = md[Len(s) + 1]
        /\ \A k \in 1 .. Len(s) : next[k] = s[k]
    BY <2>2
  <2>. HIDE DEF s, next
  <2>4. \A r \in Threads : snap'[r] = IF r = t THEN next ELSE snap[r]
    BY <1>0, <2>1
  <2>5. ASSUME t \notin late, NEW k \in 1 .. Len(next) PROVE next[k] = md[k]
    <3>1. k \in 1 .. Len(s) \/ k = Len(s) + 1
      BY <2>2, <2>3
    <3>. QED BY <2>3, <2>5, <3>1 DEF LateInv, s
  <2>. QED BY <1>0, <2>1, <2>4, <2>5 DEF LateInv
<1>4. ASSUME NEW t \in Threads, SendSnapshot(t) PROVE LateInv'
  <2>1. /\ up /\ pc[t] = "read" /\ UNCHANGED <<md, up, answer>> /\ Len(snap[t]) = Len(md)
        /\ pc' = [pc EXCEPT ![t] = "idle"] /\ snap' = [snap EXCEPT ![t] = <<>>]
        /\ told' = snap[t]
        /\ late' = (late \ {t, "sent"}) \cup (IF t \in late THEN {"sent"} ELSE {})
    BY <1>4 DEF SendSnapshot, SendLeaving, Moves, At, procVars
  <2>2. \A r \in Threads \ {t} : pc'[r] = pc[r] /\ snap'[r] = snap[r]
                                /\ (r \in late' <=> r \in late)
    BY <1>0, <2>1
  <2>3. snap'[t] = <<>> /\ t \notin late'
    BY <1>0, <2>1
  <2>4. ASSUME "sent" \notin late' PROVE told' = md'
    <3>1. t \notin late
      BY <2>1, <2>4
    <3>2. \A k \in 1 .. Len(md) : snap[t][k] = md[k]
      BY <2>1, <3>1 DEF LateInv
    <3>3. snap[t] \in Seq(Values)
      BY <1>0
    <3>4. snap[t] = md
      BY <1>m, <2>1, <3>2, <3>3, SeqEqual
    <3>. QED BY <2>1, <3>4
  <2>. QED BY <1>0, <2>1, <2>2, <2>3, <2>4 DEF LateInv
<1>5. CASE ApplyUpdate
  <2>1. /\ up /\ snap' = snap /\ pc["interface"] = "apply" /\ LoopThen("answer")
        /\ UNCHANGED <<up, answer>>
        /\ \/ md' = md /\ late' = late
           \/ late' = late \cup Readers
    BY <1>5 DEF ApplyUpdate, ListBecomes, At, procVars
  <2>2. /\ \A t \in Threads \ {"interface"} : pc'[t] = pc[t]
        /\ pc'["interface"] \in {"apply", "answer"}
    BY <1>5, <2>1, LoopType, "answer" \in Steps DEF Typing, Steps
  <2>3. answer = "none"
    BY <2>1 DEF Typing, JobInv
  <2>4. "interface" \notin late'
    BY <2>1 DEF LateInv, Readers
  <2>5. ASSUME NEW t \in Threads \ late' PROVE t \notin late /\ (md' = md \/ snap[t] = <<>>)
    BY <2>1 DEF SnapInv, Readers
  <2>6. \A t \in Threads \cap late' : pc'[t] = "read"
    BY <2>1, <2>2, <2>4 DEF LateInv, Readers
  <2>. QED BY <2>1, <2>3, <2>4, <2>5, <2>6 DEF LateInv
<1>6. CASE Aside
  BY <1>0, <1>6, AsideFrame DEF LateInv
<1>. QED
  BY <1>1, <1>2, <1>3, <1>4, <1>5, <1>6, NextCases

\* Every variable has its type in every reachable state.  In particular no id that
\* the list lacks gets past the check of applySetValue (meta_manage.cpp 263-269).
THEOREM TypeCorrect == Spec => []TypeOK
<1>1. Spec => []Typing
  BY TypingInit, TypingStep, PTL DEF Spec
<1>2. Typing => TypeOK
  BY DEF Typing
<1>. QED
  BY <1>1, <1>2, PTL

\* While there is no list every step of a setValue but the first is out of reach, and
\* that one has no update left to take.
LEMMA UnloadedStep ==
  ASSUME Typing, up, md = <<>>, Next
  PROVE  UNCHANGED <<table, md>> /\ (answer' = "yes" => answer = "yes")
         /\ (UNCHANGED view \/ Crash)
<1>. USE DEF dbVars, procVars, necVars
<1>1. ASSUME NEW t \in Threads, Snapshot(t)
      PROVE  UNCHANGED <<table, view, md, answer>>
  BY <1>1 DEF Snapshot, ReadRow, SendSnapshot, SendLeaving
<1>2. ASSUME NEW msg \in Messages, SetValue(msg)
      PROVE  UNCHANGED <<table, view, md>> /\ answer' = "no"
  <2>1. KnownPart(msg) = <<>>
    BY KnownPartType DEF Typing
  <2>. QED
    BY <1>2, <2>1 DEF SetValue, Take
<1>3. ~SetValueStep
  BY DEF SetValueStep, BeginTransaction, ExecUpdate, ExecLeaving, ExecFails, ExecFailsTo,
         Commit, CommitFails, ApplyUpdate, Answer, AnswerThen, At, Typing, JobInv
<1>4. CASE Crash
  BY <1>4 DEF Crash
<1>5. ASSUME NEW c \in Clients, AddRegListen(c) PROVE UNCHANGED <<table, view, md, answer>>
  BY <1>5 DEF AddRegListen
<1>6. CASE NECRunSuccess \/ NECAsks
  BY <1>6 DEF NECRunSuccess, NECAsks
<1>7. ~Start
  BY DEF Start
<1>. QED
  BY <1>1, <1>2, <1>3, <1>4, <1>5, <1>6, <1>7 DEF Next

\* Without a list, or a process, the connection sees what is committed: nothing has
\* been written since the connection was opened.
UnloadedInv == ~up \/ md = <<>> => view = table

\* A list is lost and gained with the process only; in between no step without one
\* writes (startup.cpp 78-85).
LEMMA UnloadedInvStep == Typing /\ UnloadedInv /\ [Next]_vars => UnloadedInv'
<1>. SUFFICES ASSUME Typing, UnloadedInv, [Next]_vars PROVE UnloadedInv'
  OBVIOUS
<1>1. CASE Crash
  BY <1>1 DEF Crash, UnloadedInv
<1>2. CASE Start
  BY <1>2 DEF Start, dbVars, UnloadedInv
<1>3. CASE UNCHANGED vars
  BY <1>3 DEF vars, dbVars, procVars, UnloadedInv
<1>4. CASE up /\ md = <<>> /\ Next /\ ~Crash
  BY <1>4, UnloadedStep DEF UnloadedInv
<1>5. CASE ~(up /\ md = <<>>) /\ Next /\ ~Crash /\ ~Start /\ ~UNCHANGED vars
  <2>1. CASE ~up
    <3>1. \A t \in Threads : pc[t] = "idle"
      BY <2>1 DEF Typing, JobInv
    <3>. QED
      BY <1>5, <2>1 DEF Next, Snapshot, ReadRow, SendSnapshot, SendLeaving, At, NECRunSuccess,
           NECAsks, AddRegListen, SetValue, Take, SetValueStep, BeginTransaction, ExecUpdate,
           ExecLeaving, ExecFails, ExecFailsTo, Commit, CommitFails, ApplyUpdate, Answer, AnswerThen
  <2>2. CASE up /\ md # <<>>
    <3>1. CASE ApplyUpdate
      <4>1. md' # <<>> /\ up'
        BY <2>2, <3>1, TypingStep DEF ApplyUpdate, ListBecomes, procVars, At, Typing, JobInv, LoopThen
      <4>. QED
        BY <4>1 DEF UnloadedInv
    <3>2. CASE Aside
      BY <2>2, <3>2, AsideFrame DEF UnloadedInv
    <3>3. ASSUME NEW t \in Threads, ReadRow(t) \/ SendSnapshot(t) PROVE UnloadedInv'
      BY <2>2, <3>3 DEF ReadRow, SendSnapshot, SendLeaving, procVars, UnloadedInv
    <3>. QED
      BY <1>5, <3>1, <3>2, <3>3, NextCases
  <2>. QED
    BY <1>5, <2>1, <2>2
<1>. QED
  BY <1>1, <1>2, <1>3, <1>4, <1>5

\* Whatever calls of the database fail, a process without a list stores nothing and
\* acknowledges nothing (meta_manage.cpp 263-277).
THEOREM NoListNoWrite == Spec => UnloadedListRefuses
<1>. DEFINE I == Typing /\ UnloadedInv
            Refuses == up /\ md = <<>>
                         => UNCHANGED <<table, view, md>> /\ (answer' = "yes" => answer = "yes")
<1>1. Init => I
  BY TypingInit DEF Init, UnloadedInv
<1>2. I /\ [Next]_vars => I'
  BY TypingStep, UnloadedInvStep
<1>3. I /\ [Next]_vars => [Refuses]_vars
  <2>. SUFFICES ASSUME Typing, UnloadedInv, Next, up, md = <<>>
                PROVE  UNCHANGED <<table, view, md>> /\ (answer' = "yes" => answer = "yes")
    BY DEF Refuses
  <2>1. UNCHANGED view
    BY UnloadedStep DEF UnloadedInv, Crash
  <2>. QED
    BY <2>1, UnloadedStep
<1>4. Init /\ [][Next]_vars => [][Refuses]_vars
  BY <1>1, <1>2, <1>3, PTL
<1>. QED
  BY <1>4 DEF Spec, UnloadedListRefuses, Refuses

\* The snapshot that follows a setValue (meta_manage.cpp 213-214) is built by the
\* only thread that writes the list, so it is a state of the list.
THEOREM OwnSnapshotIsExact == Spec => []InterfaceSnapshotIsExact
<1>. DEFINE I == Typing /\ SnapInv
<1>1. Init => I
  BY TypingInit, SnapInit
<1>2. I /\ [Next]_vars => I'
  BY TypingStep, SnapStep
<1>3. I => InterfaceSnapshotIsExact
  BY DEF SnapInv, InterfaceSnapshotIsExact
<1>. QED
  BY <1>1, <1>2, <1>3, PTL DEF Spec

\* With no message to NEC under way, and unless the last one was begun before the
\* list changed, what NEC was sent last is the list as of the last ok:1, for any
\* interleaving of the three threads that send (meta_manage.cpp 312-327).
THEOREM Currency ==
  ASSUME History
  PROVE  Spec => []NecIsCurrent
<1>. DEFINE I == Typing /\ SnapInv /\ LateInv
<1>1. Init => I
  BY TypingInit, SnapInit, LateInit
<1>2. I /\ [Next]_vars => I'
  BY TypingStep, SnapStep, LateStep
<1>3. I => NecIsCurrent
  BY DEF LateInv, NecIsCurrent, Quiet
<1>. QED
  BY <1>1, <1>2, <1>3, PTL DEF Spec
\* No update leaves the rows as they are.
LEMMA AfterNone ==
  ASSUME NEW rows \in [Ids -> Values], NEW u
  PROVE  After(rows, u, 0) = rows
BY DEF After

\* One update more writes one row more: the last update for an id wins.
LEMMA AfterNext ==
  ASSUME NEW rows \in [Ids -> Values], NEW u \in Seq(Update), NEW n \in Nat
  PROVE  After(rows, u, n + 1) = [After(rows, u, n) EXCEPT ![u[n + 1].d] = u[n + 1].v]
<1>. DEFINE Hits(d, m) == {k \in 1 .. m : u[k].d = d}
            Value(d, S) == IF S = {} THEN rows[d]
                           ELSE u[CHOOSE k \in S : \A h \in S : h <= k].v
<1>1. \A m : After(rows, u, m) = [d \in Ids |-> Value(d, Hits(d, m))]
  BY DEF After
<1>2. ASSUME NEW d \in Ids, d = u[n + 1].d PROVE Value(d, Hits(d, n + 1)) = u[n + 1].v
  <2>1. n + 1 \in Hits(d, n + 1) /\ \A h \in Hits(d, n + 1) : h <= n + 1
    BY <1>2
  <2>2. \A k \in Hits(d, n + 1) : (\A h \in Hits(d, n + 1) : h <= k) => k = n + 1
    BY <2>1
  <2>. HIDE DEF Hits
  <2>3. (CHOOSE k \in Hits(d, n + 1) : \A h \in Hits(d, n + 1) : h <= k) = n + 1
    BY <2>1, <2>2
  <2>. QED BY <2>1, <2>3
<1>3. ASSUME NEW d \in Ids, d # u[n + 1].d PROVE Value(d, Hits(d, n + 1)) = Value(d, Hits(d, n))
  <2>1. Hits(d, n + 1) = Hits(d, n)
    BY <1>3
  <2>. HIDE DEF Hits, Value
  <2>. QED BY <2>1
<1>. HIDE DEF Hits, Value
<1>. QED
  BY <1>1, <1>2, <1>3

\* A row after some updates depends on that row only, and not at all on one that
\* an update wrote.
LEMMA AfterPoint ==
  ASSUME NEW r1 \in [Ids -> Values], NEW r2 \in [Ids -> Values],
         NEW u \in Seq(Update), NEW n \in Nat, NEW d \in Ids,
         r1[d] = r2[d] \/ \E k \in 1 .. n : u[k].d = d
  PROVE  After(r1, u, n)[d] = After(r2, u, n)[d]
<1>. DEFINE S == {k \in 1 .. n : u[k].d = d}
            Value(r) == IF S = {} THEN r[d]
                        ELSE u[CHOOSE k \in S : \A h \in S : h <= k].v
<1>1. \A r : After(r, u, n)[d] = Value(r)
  BY DEF After
<1>2. r1[d] = r2[d] \/ S # {}
  OBVIOUS
<1>. HIDE DEF S
<1>3. Value(r1) = Value(r2)
  BY <1>2
<1>. QED
  BY <1>1, <1>3

\* The updates leave the same rows.
LEMMA AfterDomain ==
  ASSUME NEW rows \in [Ids -> Values], NEW u \in Seq(Update), NEW n \in Nat
  PROVE  After(rows, u, n) = [d \in Ids |-> After(rows, u, n)[d]]
BY DEF After

\* Rows in which the first n updates are done already have n + 1 of them done once
\* the next one is written.
LEMMA AfterWritten ==
  ASSUME NEW rows \in [Ids -> Values], NEW u \in Seq(Update), NEW n \in Nat,
         rows = After(rows, u, n), NEW new \in [Ids -> Values],
         \A d \in Ids : new[d] = IF d = u[n + 1].d THEN u[n + 1].v ELSE rows[d]
  PROVE  new = After(new, u, n + 1)
<1>1. After(new, u, n + 1) = [After(new, u, n) EXCEPT ![u[n + 1].d] = u[n + 1].v]
  BY AfterNext
<1>2. ASSUME NEW d \in Ids, d # u[n + 1].d PROVE After(new, u, n)[d] = rows[d]
  <2>1. new[d] = rows[d]
    BY <1>2
  <2>2. After(new, u, n)[d] = After(rows, u, n)[d]
    BY <2>1, AfterPoint
  <2>. QED BY <2>2
<1>3. After(new, u, n) = [d \in Ids |-> After(new, u, n)[d]]
  BY AfterDomain
<1>4. After(new, u, n + 1)
         = [d \in Ids |-> IF d = u[n + 1].d THEN u[n + 1].v ELSE rows[d]]
  BY <1>1, <1>2, <1>3
<1>. QED
  BY <1>4

\* What a row that will be written held does not matter.
LEMMA StoredIgnoresWritten ==
  ASSUME NEW rows \in [Ids -> Values], NEW u \in Seq(Update),
         NEW k \in 1 .. Len(u), u[k].d \in Ids, NEW v \in Values
  PROVE  Stored([rows EXCEPT ![u[k].d] = v], u) = Stored(rows, u)
<1>. DEFINE new == [rows EXCEPT ![u[k].d] = v]
            n == Len(u)
<1>0. new \in [Ids -> Values] /\ n \in Nat
  OBVIOUS
<1>1. ASSUME NEW d \in Ids PROVE After(new, u, n)[d] = After(rows, u, n)[d]
  <2>1. CASE d = u[k].d
    <3>1. \E h \in 1 .. n : u[h].d = d
      BY <2>1
    <3>. HIDE DEF new, n
    <3>. QED BY <1>0, <3>1, AfterPoint
  <2>2. CASE d # u[k].d
    <3>1. new[d] = rows[d]
      BY <2>2
    <3>. HIDE DEF new, n
    <3>. QED BY <1>0, <3>1, AfterPoint
  <2>. QED BY <2>1, <2>2
<1>. HIDE DEF new, n
<1>2. After(new, u, n) = After(rows, u, n)
  BY <1>0, <1>1, AfterDomain
<1>. QED
  BY <1>2 DEF Stored, new, n

\* The steps that do not concern a setValue.
Listening ==
    \/ NECRunSuccess \/ NECAsks
    \/ \E c \in Clients : AddRegListen(c)
    \/ \E t \in Threads : ReadRow(t) \/ SendSnapshot(t)
    \/ UNCHANGED vars

\* They leave the stores alone, and the interface thread outside a setValue.
LEMMA ListeningFrame ==
  ASSUME Typing, Listening
  PROVE  /\ UNCHANGED <<table, view, txOpen, md, up, job, answer>>
         /\ \/ pc'["interface"] = pc["interface"]
            \/ {pc["interface"], pc'["interface"]} \subseteq {"idle", "read"}
<1>. USE DEF Moves, At, dbVars
<1>0. "interface" \in Threads /\ "nec" \in Threads
      /\ pc \in [Threads -> Steps]
  BY DEF Typing, TypeOK, Threads
<1>. DEFINE Goal == /\ UNCHANGED <<table, view, txOpen, md, up, job, answer>>
                    /\ \/ pc'["interface"] = pc["interface"]
                       \/ {pc["interface"], pc'["interface"]} \subseteq {"idle", "read"}
<1>1. CASE NECRunSuccess \/ NECAsks
  BY <1>0, <1>1 DEF NECRunSuccess, NECAsks, procVars
<1>2. ASSUME NEW c \in Clients, AddRegListen(c) PROVE Goal
  BY <1>0, <1>2 DEF AddRegListen
<1>3. ASSUME NEW t \in Threads, ReadRow(t) PROVE Goal
  BY <1>0, <1>3 DEF ReadRow, procVars
<1>4. ASSUME NEW t \in Threads, SendSnapshot(t) PROVE Goal
  BY <1>0, <1>4 DEF SendSnapshot, SendLeaving, procVars
<1>5. CASE UNCHANGED vars
  BY <1>5 DEF vars, procVars
<1>. QED
  BY <1>1, <1>2, <1>3, <1>4, <1>5 DEF Listening

\* Every step begins or ends the process, belongs to a setValue, or does not.
LEMMA StoreCases ==
  ASSUME [Next]_vars
  PROVE  \/ Start \/ Crash \/ Listening \/ SetValueStep
         \/ \E msg \in Messages : SetValue(msg)
BY Zenon DEF Next, Snapshot, Listening

\* applySetValue up to the database call: nothing is stored, and with no update
\* left the answer is no at once.
LEMMA TakenJob ==
  ASSUME Typing, NEW msg \in Messages, SetValue(msg)
  PROVE  /\ up /\ pc["interface"] = "idle"
         /\ UNCHANGED <<table, view, txOpen, md, up>>
         /\ job'.updates \in Updates /\ job'.done = 0 /\ job'.allKnown \in BOOLEAN
         /\ \/ answer' = "no" /\ pc'["interface"] = "idle"
            \/ answer' = "none" /\ pc'["interface"] = "begin" /\ md # <<>>
<1>. DEFINE u == KnownPart(msg)
            all == \A k \in DOMAIN msg : msg[k].d \in KnownIds
<1>1. u \in Updates /\ (md = <<>> => u = <<>>)
  BY KnownPartType DEF Typing
<1>2. Take(u, all) /\ all \in BOOLEAN
  BY DEF SetValue
<1>3. "interface" \in Threads /\ pc \in [Threads -> Steps]
  BY DEF Typing, TypeOK, Threads
<1>. HIDE DEF u, all
<1>. QED
  BY <1>1, <1>2, <1>3 DEF Take, At, Moves, dbVars, procVars

\* Only a COMMIT that fails in an open transaction sets lost, for good.
LEMMA LostStep ==
  ASSUME Typing, [Next]_vars
  PROVE  /\ lost => lost'
         /\ lost' => lost \/ ("commit" \in DbFaults /\ CommitFails /\ txOpen)
<1>. USE DEF dbVars
<1>1. CASE CommitFails
  BY <1>1 DEF CommitFails
<1>2. CASE Start \/ Crash
  BY <1>2 DEF Start, Crash
<1>3. CASE NECRunSuccess \/ NECAsks
  BY <1>3 DEF NECRunSuccess, NECAsks
<1>4. ASSUME NEW c \in Clients, AddRegListen(c) PROVE lost' = lost
  BY <1>4 DEF AddRegListen
<1>5. ASSUME NEW t \in Threads, Snapshot(t) PROVE lost' = lost
  BY <1>5 DEF Snapshot, ReadRow, SendSnapshot, SendLeaving
<1>6. ASSUME NEW msg \in Messages, SetValue(msg) PROVE lost' = lost
  BY <1>6 DEF SetValue, Take
<1>7. CASE BeginTransaction \/ ExecUpdate \/ ExecFails \/ Commit \/ ApplyUpdate \/ Answer
  BY <1>7 DEF BeginTransaction, ExecUpdate, ExecLeaving, ExecFails, ExecFailsTo, Commit,
       ApplyUpdate, Answer, AnswerThen
<1>8. CASE UNCHANGED vars
  BY <1>8 DEF vars
<1>. QED
  BY <1>1, <1>2, <1>3, <1>4, <1>5, <1>6, <1>7, <1>8 DEF Next, SetValueStep

\* Where no commit fails none is lost.
LEMMA NoneLost ==
  ASSUME "commit" \notin DbFaults
  PROVE  Typing /\ ~lost /\ [Next]_vars => ~lost'
BY LostStep

\* The rows as the connection sees them hold the first updates of the batch, all
\* of them at commit (db_queries.cpp 94-125); after it the table holds them.
DurInv ==
    /\ ~txOpen => view = table
    /\ pc["interface"] = "exec" => view = After(view, job.updates, job.done)
    /\ pc["interface"] = "commit" => view = Stored(view, job.updates)
    /\ pc["interface"] \in {"apply", "answer"} => table = Stored(table, job.updates)
    /\ AckIsDurable

\* It holds initially.
LEMMA DurInit == Init => DurInv
BY DEF Init, DurInv, AckIsDurable, Threads

\* Every step keeps it, unless a commit of an open transaction has failed unnoticed;
\* outside a transaction there is nothing left to commit.
LEMMA DurStep == Typing /\ DurInv /\ [Next]_vars /\ ~lost' => DurInv'
<1>. SUFFICES ASSUME Typing, DurInv, [Next]_vars, ~lost' PROVE DurInv'
  OBVIOUS
<1>. DEFINE u == job.updates
            n == job.done
<1>0. "interface" \in Threads /\ pc \in [Threads -> Steps]
  BY DEF Typing, TypeOK, Threads
<1>t. /\ table \in [Ids -> Values] /\ view \in [Ids -> Values] /\ job \in Jobs
      /\ u \in Updates /\ n \in Nat
  BY MetaAssumption DEF Typing, TypeOK, Jobs
<1>u. u \in Seq(Update) /\ Len(u) \in Nat
  BY <1>t, UpdatesType, MetaAssumption
<1>1. CASE Start
  <2>1. UNCHANGED <<table, view, txOpen, job, answer>> /\ pc' = [pc EXCEPT !["main"] = "read"]
    BY <1>1 DEF Start, dbVars, Moves
  <2>. QED BY <1>0, <2>1 DEF DurInv, AckIsDurable
<1>2. CASE Crash
  <2>1. /\ view' = table /\ UNCHANGED <<table, answer>> /\ pc' = [t \in Threads |-> "idle"]
        /\ job' = [job EXCEPT !.done = 0]
    BY <1>2 DEF Crash
  <2>2. job'.updates = u
    BY <1>t, <2>1, JobReset
  <2>. QED BY <1>0, <2>1, <2>2 DEF DurInv, AckIsDurable
<1>3. CASE Listening
  BY <1>3, ListeningFrame DEF DurInv, AckIsDurable
<1>4. ASSUME NEW msg \in Messages, SetValue(msg) PROVE DurInv'
  BY <1>4, TakenJob DEF DurInv, AckIsDurable
<1>5. CASE BeginTransaction
  <2>1. /\ UNCHANGED <<table, view, job, answer>> /\ txOpen' \in {TRUE, txOpen}
        /\ pc["interface"] = "begin" /\ pc' = [pc EXCEPT !["interface"] = "exec"]
    BY <1>5 DEF BeginTransaction, At, Moves
  <2>2. n = 0
    BY <2>1 DEF Typing, JobInv
  <2>3. view = After(view, u, 0)
    BY <1>t, AfterNone
  <2>. QED BY <1>0, <2>1, <2>2, <2>3 DEF DurInv, AckIsDurable
<1>6. CASE ExecUpdate
  <2>1. /\ pc["interface"] = "exec" /\ LoopThen("commit") /\ UNCHANGED <<txOpen, answer>>
        /\ view' = [view EXCEPT ![NextUpdate.d] = NextUpdate.v]
        /\ table' = IF txOpen THEN table ELSE view'
    BY <1>6 DEF ExecUpdate, ExecLeaving, At
  <2>2. /\ u[n + 1].d \in Ids /\ u[n + 1].v \in Values /\ NextUpdate = u[n + 1]
        /\ job'.updates = u
        /\ \/ n + 1 = Len(u) /\ pc'["interface"] = "commit"
           \/ job'.done = n + 1 /\ pc' = pc
    BY <2>1, LoopType, "commit" \in Steps DEF Typing, Steps
  <2>3. view' = After(view', u, n + 1)
    <3>1. view = After(view, u, n)
      BY <2>1 DEF DurInv
    <3>2. /\ view' \in [Ids -> Values]
          /\ \A d \in Ids : view'[d] = IF d = u[n + 1].d THEN u[n + 1].v ELSE view[d]
      BY <1>t, <2>1, <2>2
    <3>. HIDE DEF u, n
    <3>. QED BY <1>t, <1>u, <3>1, <3>2, AfterWritten
  <2>4. answer = "none"
    BY <2>1 DEF Typing, JobInv
  <2>. QED BY <2>1, <2>2, <2>3, <2>4 DEF DurInv, AckIsDurable, Stored
<1>7. CASE ExecFails
  <2>1. /\ view' = table /\ pc' = [pc EXCEPT !["interface"] = "idle"] /\ answer' = "no"
        /\ table' = table
    BY <1>7 DEF ExecFails, ExecFailsTo, Moves
  <2>. QED BY <1>0, <2>1 DEF DurInv, AckIsDurable
<1>8. CASE Commit
  <2>1. /\ table' = view /\ view' = view /\ pc' = [pc EXCEPT !["interface"] = "apply"]
        /\ UNCHANGED <<job, answer>> /\ pc["interface"] = "commit"
    BY <1>8 DEF Commit, Moves, At
  <2>2. answer = "none"
    BY <2>1 DEF Typing, JobInv
  <2>. QED BY <1>0, <2>1, <2>2 DEF DurInv, AckIsDurable
<1>9. CASE CommitFails
  <2>1. /\ table' = table /\ view' \in {view, table} /\ pc' = [pc EXCEPT !["interface"] = "apply"]
        /\ UNCHANGED <<job, answer>> /\ pc["interface"] = "commit" /\ ~txOpen
    BY <1>9 DEF CommitFails, Moves, At
  <2>2. answer = "none"
    BY <2>1 DEF Typing, JobInv
  <2>3. view = table /\ view = Stored(view, u)
    BY <2>1 DEF DurInv
  <2>. QED BY <1>0, <2>1, <2>2, <2>3 DEF DurInv, AckIsDurable
<1>10. CASE ApplyUpdate
  <2>1. /\ pc["interface"] = "apply" /\ LoopThen("answer")
        /\ UNCHANGED <<table, view, txOpen, answer>>
    BY <1>10 DEF ApplyUpdate, At, dbVars
  <2>2. pc'["interface"] \in {"apply", "answer"} /\ job'.updates = u
    BY <2>1, LoopType, "answer" \in Steps DEF Typing, Steps
  <2>. QED BY <2>1, <2>2 DEF DurInv, AckIsDurable
<1>11. CASE Answer
  <2>1. /\ pc["interface"] = "answer" /\ pc'["interface"] \in {"read", "idle"}
        /\ UNCHANGED <<table, view, txOpen, job>>
    BY <1>0, <1>11 DEF Answer, AnswerThen, At, Moves, dbVars
  <2>. QED BY <2>1 DEF DurInv, AckIsDurable
<1>. QED
  BY <1>1, <1>2, <1>3, <1>4, <1>5, <1>6, <1>7, <1>8, <1>9, <1>10, <1>11, StoreCases
     DEF SetValueStep

\* A setValue that was answered ok:1 is in the table until the next one is taken,
\* also through crashes and restarts.  Assumed: db.commit() does not fail.  Its
\* result is ignored (db_queries.cpp 123), and with it failing the property is
\* violated; db.transaction() or an UPDATE may fail.
THEOREM Durability ==
  ASSUME "commit" \notin DbFaults
  PROVE  Spec => []AckIsDurable
<1>. DEFINE I == Typing /\ ~lost /\ DurInv
<1>1. Init => I
  BY TypingInit, DurInit DEF Init
<1>2. I /\ [Next]_vars => I'
  BY TypingStep, NoneLost, DurStep
<1>3. I => AckIsDurable
  BY DEF DurInv
<1>. QED
  BY <1>1, <1>2, <1>3, PTL DEF Spec

\* What the next theorems assume of the database: not both db.transaction() and an
\* UPDATE may fail, of which the first goes unnoticed and then the second comes too
\* late to undo anything (db_queries.cpp 127, 151); and no commit fails.
NoHalfBatch == ~({"begin", "exec"} \subseteq DbFaults)
NoTornCall == "commit" \notin DbFaults /\ NoHalfBatch

\* Outside the database call the list is the table, or empty after a load that
\* failed; during it the view is the list with the first updates done; during the
\* loop that writes the list (meta_manage.cpp 286-301) the table is what the list
\* will be.
MatchInv ==
    /\ ~txOpen => view = table
    /\ pc["interface"] \in {"idle", "answer", "read", "begin"}
          => view = table /\ ~txOpen /\ (up => md = table \/ md = <<>>)
    /\ pc["interface"] \in {"exec", "commit"}
          => IF txOpen THEN md = table ELSE "begin" \in DbFaults
    /\ pc["interface"] = "exec" => view = After(md, job.updates, job.done)
    /\ pc["interface"] = "commit" => view = Stored(md, job.updates)
    /\ pc["interface"] = "apply"
          => /\ view = table /\ ~txOpen
             /\ table = Stored(md, job.updates)
             /\ md = After(md, job.updates, job.done)

\* It holds initially.
LEMMA MatchInit == Init => MatchInv
BY DEF Init, MatchInv, Threads

\* Every step keeps it, with the same exception.
LEMMA MatchStep ==
  ASSUME NoHalfBatch
  PROVE  Typing /\ MatchInv /\ [Next]_vars /\ ~lost' => MatchInv'
<1>. SUFFICES ASSUME Typing, MatchInv, [Next]_vars, ~lost' PROVE MatchInv'
  OBVIOUS
<1>. DEFINE u == job.updates
            n == job.done
<1>0. "interface" \in Threads /\ "main" # "interface" /\ pc \in [Threads -> Steps]
  BY DEF Typing, TypeOK, Threads
<1>t. /\ table \in [Ids -> Values] /\ view \in [Ids -> Values] /\ job \in Jobs
      /\ u \in Updates /\ n \in Nat
  BY MetaAssumption DEF Typing, TypeOK, Jobs
<1>u. u \in Seq(Update) /\ Len(u) \in Nat
  BY <1>t, UpdatesType, MetaAssumption
<1>m. md # <<>> => md \in [Ids -> Values]
  BY DEF Typing, TypeOK
<1>1. CASE Start
  <2>1. UNCHANGED <<table, view, txOpen>> /\ pc' = [pc EXCEPT !["main"] = "read"]
        /\ md' \in {view, <<>>} /\ ~up
    BY <1>1 DEF Start, dbVars, Moves, Loaded
  <2>2. pc["interface"] = "idle" /\ pc'["interface"] = "idle"
    BY <1>0, <2>1 DEF Typing, JobInv
  <2>. QED BY <2>1, <2>2 DEF MatchInv
<1>2. CASE Crash
  <2>1. view' = table /\ table' = table /\ pc' = [t \in Threads |-> "idle"] /\ ~txOpen' /\ ~up'
    BY <1>2 DEF Crash
  <2>. QED BY <1>0, <2>1 DEF MatchInv
<1>3. CASE Listening
  <2>1. \/ pc["interface"] \in {"idle", "read"} /\ pc'["interface"] \in {"idle", "read"}
        \/ pc'["interface"] = pc["interface"]
    BY <1>3, ListeningFrame
  <2>2. UNCHANGED <<table, view, txOpen, md, up, job>>
    BY <1>3, ListeningFrame
  <2>. QED BY <2>1, <2>2 DEF MatchInv
<1>4. ASSUME NEW msg \in Messages, SetValue(msg) PROVE MatchInv'
  BY <1>4, TakenJob DEF MatchInv
<1>5. CASE BeginTransaction
  <2>1. /\ UNCHANGED <<table, view, job, md>>
        /\ \/ txOpen' = TRUE
           \/ txOpen' = txOpen /\ (txOpen \/ "begin" \in DbFaults)
        /\ up /\ pc["interface"] = "begin" /\ pc' = [pc EXCEPT !["interface"] = "exec"]
    BY <1>5 DEF BeginTransaction, At, Moves, TypeOK
  <2>2. n = 0 /\ md # <<>>
    BY <2>1 DEF Typing, JobInv
  <2>3. view = table /\ md = table /\ ~txOpen
    BY <2>1, <2>2 DEF MatchInv
  <2>4. view = After(md, u, 0)
    BY <1>t, <2>3, AfterNone
  <2>. QED BY <1>0, <2>1, <2>2, <2>3, <2>4 DEF MatchInv
<1>6. CASE ExecUpdate
  <2>1. /\ pc["interface"] = "exec" /\ LoopThen("commit") /\ UNCHANGED <<txOpen, md>>
        /\ view' = [view EXCEPT ![NextUpdate.d] = NextUpdate.v]
        /\ table' = IF txOpen THEN table ELSE view'
    BY <1>6 DEF ExecUpdate, ExecLeaving, ListBecomes, At
  <2>2. /\ NextUpdate = u[n + 1] /\ job'.updates = u
        /\ \/ n + 1 = Len(u) /\ pc'["interface"] = "commit"
           \/ job'.done = n + 1 /\ pc' = pc
    BY <2>1, LoopType, "commit" \in Steps DEF Typing, Steps
  <2>3. md \in [Ids -> Values]
    BY <1>m, <2>1 DEF Typing, JobInv
  <2>4. view = After(md, u, n)
    BY <2>1 DEF MatchInv
  <2>. HIDE DEF u, n
  <2>5. After(md, u, n + 1) = [After(md, u, n) EXCEPT ![u[n + 1].d] = u[n + 1].v]
    BY <1>t, <1>u, <2>3, AfterNext
  <2>6. view' = After(md, u, n + 1)
    BY <2>1, <2>2, <2>4, <2>5
  <2>. QED BY <2>1, <2>2, <2>6 DEF MatchInv, Stored, u
<1>7. CASE ExecFails
  <2>1. /\ view' = table /\ pc' = [pc EXCEPT !["interface"] = "idle"] /\ ~txOpen'
        /\ UNCHANGED <<table, md>> /\ pc["interface"] = "exec" /\ "exec" \in DbFaults
    BY <1>7 DEF ExecFails, ExecFailsTo, Moves, At
  <2>2. md = table
    BY <2>1 DEF MatchInv, NoHalfBatch
  <2>. QED BY <1>0, <2>1, <2>2 DEF MatchInv
<1>8. CASE Commit
  <2>1. /\ table' = view /\ view' = view /\ pc' = [pc EXCEPT !["interface"] = "apply"]
        /\ UNCHANGED <<job, md>> /\ pc["interface"] = "commit" /\ ~txOpen'
    BY <1>8 DEF Commit, Moves, At
  <2>2. n = 0 /\ md \in [Ids -> Values]
    BY <1>m, <2>1 DEF Typing, JobInv
  <2>3. md = After(md, u, 0)
    BY <2>2, AfterNone
  <2>. QED BY <1>0, <2>1, <2>2, <2>3 DEF MatchInv
<1>9. CASE CommitFails
  <2>1. /\ table' = table /\ view' \in {view, table} /\ pc' = [pc EXCEPT !["interface"] = "apply"]
        /\ UNCHANGED <<job, md>> /\ pc["interface"] = "commit" /\ (txOpen' = txOpen \/ txOpen' = FALSE)
        /\ ~txOpen
    BY <1>9 DEF CommitFails, Moves, At
  <2>2. n = 0 /\ md \in [Ids -> Values]
    BY <1>m, <2>1 DEF Typing, JobInv
  <2>3. md = After(md, u, 0)
    BY <2>2, AfterNone
  <2>4. view = table /\ view = Stored(md, u)
    BY <2>1 DEF MatchInv
  <2>5. /\ view' = table' /\ table' = Stored(md', job'.updates)
        /\ md' = After(md', job'.updates, job'.done) /\ pc'["interface"] = "apply"
    BY <1>0, <2>1, <2>2, <2>3, <2>4
  <2>6. ~txOpen'
    BY <2>1, Zenon
  <2>. HIDE DEF u, n
  <2>. QED BY <2>5, <2>6 DEF MatchInv
<1>10. CASE ApplyUpdate
  <2>1. /\ pc["interface"] = "apply" /\ LoopThen("answer")
        /\ UNCHANGED <<table, view, txOpen>>
        /\ md' = [md EXCEPT ![NextUpdate.d] = NextUpdate.v]
    BY <1>10 DEF ApplyUpdate, ListBecomes, At, dbVars
  <2>2. /\ NextUpdate = u[n + 1] /\ n + 1 \in 1 .. Len(u)
        /\ u[n + 1].d \in Ids /\ u[n + 1].v \in Values /\ job'.updates = u
        /\ \/ n + 1 = Len(u) /\ pc'["interface"] = "answer"
           \/ job'.done = n + 1 /\ pc' = pc
    BY <2>1, LoopType, "answer" \in Steps DEF Typing, Steps
  <2>3. md \in [Ids -> Values]
    BY <1>m, <2>1 DEF Typing, JobInv
  <2>4. view = table /\ ~txOpen /\ table = Stored(md, u) /\ md = After(md, u, n)
    BY <2>1 DEF MatchInv
  <2>5. /\ md' \in [Ids -> Values]
        /\ \A d \in Ids : md'[d] = IF d = u[n + 1].d THEN u[n + 1].v ELSE md[d]
    BY <2>1, <2>2, <2>3
  <2>. HIDE DEF u, n
  <2>6. md' = After(md', u, n + 1)
    BY <1>t, <1>u, <2>3, <2>4, <2>5, AfterWritten
  <2>7. Stored([md EXCEPT ![u[n + 1].d] = u[n + 1].v], u) = Stored(md, u)
    BY <1>t, <1>u, <2>2, <2>3, StoredIgnoresWritten
  <2>8. table = Stored(md', u)
    BY <2>1, <2>2, <2>4, <2>7
  <2>9. n + 1 = Len(u) => md' = table
    BY <2>6, <2>8 DEF Stored
  <2>. QED BY <2>1, <2>2, <2>4, <2>6, <2>8, <2>9 DEF MatchInv, u
<1>11. CASE Answer
  <2>1. /\ pc["interface"] = "answer" /\ pc'["interface"] \in {"read", "idle"}
        /\ UNCHANGED <<table, view, txOpen, md, up>>
    BY <1>0, <1>11 DEF Answer, AnswerThen, At, Moves, dbVars, procVars
  <2>. QED BY <2>1 DEF MatchInv
<1>. QED
  BY <1>1, <1>2, <1>3, <1>4, <1>5, <1>6, <1>7, <1>8, <1>9, <1>10, <1>11, StoreCases
     DEF SetValueStep

\* Between two setValues the list in memory and the rows agree, also after an UPDATE
\* has failed in the middle of a batch, after a crash and after a load that failed.
THEOREM Matching ==
  ASSUME NoTornCall
  PROVE  Spec => []MemoryMatchesTable
<1>. DEFINE I == Typing /\ ~lost /\ MatchInv
<1>1. Init => I
  BY TypingInit, MatchInit DEF Init
<1>2. I /\ [Next]_vars => I'
  BY TypingStep, NoneLost, MatchStep DEF NoTornCall
<1>3. I => MemoryMatchesTable
  BY DEF MatchInv, MemoryMatchesTable
<1>. QED
  BY <1>1, <1>2, <1>3, PTL DEF Spec

\* Where every COMMIT may fail and every BEGIN, list and table agree and what was
\* answered ok:1 is stored until the first COMMIT of an open transaction has failed:
\* updates that a failed BEGIN left to be committed one by one cost nothing
\* (db_queries.cpp 94-151).  Assumed: not both db.transaction() and an UPDATE fail.
THEOREM OnlyCommitCosts ==
  ASSUME NoHalfBatch
  PROVE  Spec => []OnlyCommitLoses
<1>. DEFINE I == Typing /\ (lost \/ (DurInv /\ MatchInv))
<1>1. Init => I
  BY TypingInit, DurInit, MatchInit
<1>2. I /\ [Next]_vars => I'
  BY TypingStep, LostStep, DurStep, MatchStep
<1>3. I => OnlyCommitLoses
  BY DEF DurInv, MatchInv, MemoryMatchesTable, OnlyCommitLoses
<1>. QED
  BY <1>1, <1>2, <1>3, PTL DEF Spec

\* What the last two theorems assume of the database: db.transaction() and
\* db.commit() do what they say; an UPDATE and the load may fail.
NoTransactionFault == {"begin", "commit"} \cap DbFaults = {}

\* While a database call runs, its updates are in a transaction and not in the list.
LEMMA OpenIsUnread ==
  ASSUME NoTransactionFault, Typing, MatchInv
  PROVE  NothingUncommittedIsRead
         /\ (pc["interface"] \in {"exec", "commit"} => txOpen)
BY DEF NoTransactionFault, Typing, JobInv, MatchInv, NothingUncommittedIsRead

\* NEC is never sent a value that is not committed: while the call runs, the list
\* three threads read (meta_manage.cpp 312-327) is the committed table.
THEOREM OnlyCommitted ==
  ASSUME NoTransactionFault
  PROVE  Spec => []NothingUncommittedIsRead
<1>. DEFINE I == Typing /\ ~lost /\ MatchInv
<1>0. NoTornCall
  BY DEF NoTransactionFault, NoTornCall, NoHalfBatch
<1>1. Init => I
  BY TypingInit, MatchInit DEF Init
<1>2. I /\ [Next]_vars => I'
  BY <1>0, TypingStep, NoneLost, MatchStep DEF NoTornCall
<1>3. I => NothingUncommittedIsRead
  BY OpenIsUnread
<1>. QED
  BY <1>1, <1>2, <1>3, PTL DEF Spec

\* The initial state is one of the abstract store.
LEMMA StoreInit ==
  ASSUME Init
  PROVE  Store!Init
<1>1. job.updates \in Updates
  BY TypingInit DEF Typing, TypeOK, Jobs
<1>. QED
  BY <1>1 DEF Init, Store!Init, Phase

\* Every step is one of the abstract store or leaves it alone: the commit is the
\* store, the rollback the refusal, a crash the death.
LEMMA StoreStep ==
  ASSUME NoTransactionFault, Typing, MatchInv, [Next]_vars
  PROVE  [Store!Next]_(Store!vars)
<1>. DEFINE Same == UNCHANGED <<table, job.updates, job.allKnown, Phase, answer>>
<1>0. "interface" \in Threads /\ "main" # "interface" /\ pc \in [Threads -> Steps]
  BY DEF Typing, TypeOK, Threads
<1>s. Same => [Store!Next]_(Store!vars)
  BY DEF Store!vars
<1>j. job \in Jobs /\ job.updates \in Updates /\ job.allKnown \in BOOLEAN
  BY DEF Typing, TypeOK, Jobs
<1>1. CASE Start
  <2>1. UNCHANGED <<table, job, answer>> /\ pc' = [pc EXCEPT !["main"] = "read"] /\ ~up
    BY <1>1 DEF Start, dbVars, Moves
  <2>2. pc["interface"] = "idle" /\ pc'["interface"] = "idle"
    BY <1>0, <2>1 DEF Typing, JobInv
  <2>3. Phase' = Phase
    BY <2>1, <2>2 DEF Phase
  <2>. QED BY <1>s, <2>1, <2>3
<1>2. CASE Crash
  <2>1. /\ UNCHANGED <<table, answer>> /\ ~up' /\ job' = [job EXCEPT !.done = 0]
    BY <1>2 DEF Crash
  <2>2. UNCHANGED <<job.updates, job.allKnown>>
    BY <1>j, <2>1, JobReset
  <2>3. Phase' = "idle"
    BY <2>1 DEF Phase
  <2>4. Store!Die
    BY <2>1, <2>2, <2>3 DEF Store!Die
  <2>. QED BY <2>4 DEF Store!Next
<1>3. CASE Listening
  <2>1. UNCHANGED <<table, up, job, answer>> /\ Phase' = Phase
    BY <1>3, ListeningFrame DEF Phase
  <2>. QED BY <1>s, <2>1
<1>4. ASSUME NEW msg \in Messages, SetValue(msg) PROVE Store!Next
  <2>1. /\ up /\ pc["interface"] = "idle" /\ table' = table /\ up' = up
        /\ job'.updates \in Updates /\ job'.allKnown \in BOOLEAN
        /\ \/ answer' = "no" /\ pc'["interface"] = "idle"
           \/ answer' = "none" /\ pc'["interface"] = "begin"
    BY <1>4, TakenJob
  <2>2. Phase = "idle" /\ Phase' = IF pc'["interface"] = "begin" THEN "open" ELSE "idle"
    BY <2>1 DEF Phase
  <2>3. Store!Take(job'.updates)
    BY <2>1, <2>2 DEF Store!Take
  <2>. QED BY <2>1, <2>3 DEF Store!Next
<1>5. CASE BeginTransaction
  <2>1. /\ UNCHANGED <<table, job, answer, up>> /\ pc["interface"] = "begin"
        /\ pc' = [pc EXCEPT !["interface"] = "exec"]
    BY <1>5 DEF BeginTransaction, At, Moves, procVars
  <2>2. Phase' = Phase
    BY <1>0, <2>1 DEF Phase
  <2>. QED BY <1>s, <2>1, <2>2
<1>6. CASE ExecUpdate
  <2>1. /\ pc["interface"] = "exec" /\ LoopThen("commit") /\ UNCHANGED <<answer, up>>
        /\ table' = IF txOpen THEN table ELSE view'
    BY <1>6 DEF ExecUpdate, ExecLeaving, At, procVars
  <2>2. table' = table
    BY <2>1, OpenIsUnread
  <2>3. /\ UNCHANGED <<job.updates, job.allKnown>> /\ pc'["interface"] \in {"exec", "commit"}
    BY <2>1, LoopType, "commit" \in Steps DEF Typing, Steps
  <2>4. Phase' = Phase
    BY <2>1, <2>3 DEF Phase
  <2>. QED BY <1>s, <2>1, <2>2, <2>3, <2>4
<1>7. CASE ExecFails
  <2>1. /\ UNCHANGED <<table, up>> /\ up /\ pc["interface"] = "exec" /\ answer' = "no"
        /\ pc' = [pc EXCEPT !["interface"] = "idle"] /\ job' = [job EXCEPT !.done = 0]
    BY <1>7 DEF ExecFails, ExecFailsTo, Moves, At, procVars
  <2>2. UNCHANGED <<job.updates, job.allKnown>>
    BY <1>j, <2>1, JobReset
  <2>3. Phase = "open" /\ Phase' = "idle"
    BY <1>0, <2>1 DEF Phase
  <2>4. Store!Refuse
    BY <2>1, <2>2, <2>3 DEF Store!Refuse
  <2>. QED BY <2>4 DEF Store!Next
<1>8. CASE Commit
  <2>1. /\ table' = view /\ UNCHANGED <<job, answer, up>> /\ up /\ pc["interface"] = "commit"
        /\ pc' = [pc EXCEPT !["interface"] = "apply"]
    BY <1>8 DEF Commit, At, Moves, procVars
  <2>2. Phase = "open" /\ Phase' = "stored"
    BY <1>0, <2>1 DEF Phase
  <2>3. table' = Stored(table, job.updates)
    BY <2>1, OpenIsUnread DEF MatchInv, NothingUncommittedIsRead
  <2>4. Store!Store
    BY <2>1, <2>2, <2>3 DEF Store!Store
  <2>. QED BY <2>4 DEF Store!Next
<1>9. CASE CommitFails
  BY <1>9 DEF CommitFails, NoTransactionFault
<1>10. CASE ApplyUpdate
  <2>1. /\ pc["interface"] = "apply" /\ LoopThen("answer") /\ UNCHANGED <<table, answer, up>>
    BY <1>10 DEF ApplyUpdate, At, dbVars, procVars
  <2>2. pc'["interface"] \in {"apply", "answer"} /\ UNCHANGED <<job.updates, job.allKnown>>
    BY <2>1, LoopType, "answer" \in Steps DEF Typing, Steps
  <2>3. Phase' = Phase
    BY <2>1, <2>2 DEF Phase
  <2>. QED BY <1>s, <2>1, <2>2, <2>3
<1>11. CASE Answer
  <2>1. /\ up /\ pc["interface"] = "answer" /\ pc'["interface"] \in {"read", "idle"}
        /\ UNCHANGED <<table, job>> /\ answer' = IF job.allKnown THEN "yes" ELSE "no"
    BY <1>0, <1>11 DEF Answer, AnswerThen, At, Moves, dbVars
  <2>2. Phase = "stored" /\ Phase' = "idle"
    BY <2>1 DEF Phase
  <2>3. Store!Answer
    BY <2>1, <2>2 DEF Store!Answer
  <2>. QED BY <2>3 DEF Store!Next
<1>. QED
  BY <1>1, <1>2, <1>3, <1>4, <1>5, <1>6, <1>7, <1>8, <1>9, <1>10, <1>11, StoreCases
     DEF SetValueStep

\* A setValue is stored as a whole or not at all, once, and answered truthfully: the
\* handlers, the transaction and the crashes implement MetaStore.
THEOREM Atomicity ==
  ASSUME NoTransactionFault
  PROVE  Spec => StoresAtomically
<1>. DEFINE I == Typing /\ ~lost /\ MatchInv
<1>0. NoTornCall
  BY DEF NoTransactionFault, NoTornCall, NoHalfBatch
<1>1. Init => I /\ Store!Init
  BY TypingInit, MatchInit, StoreInit DEF Init
<1>2. I /\ [Next]_vars => I' /\ [Store!Next]_(Store!vars)
  BY <1>0, TypingStep, NoneLost, MatchStep, StoreStep DEF NoTornCall
<1>. QED
  BY <1>1, <1>2, PTL DEF Spec, StoresAtomically, Store!Spec

=============================================================================
