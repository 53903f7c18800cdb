-------------------------- MODULE MCMetaManageFaults --------------------------
(* MetaManage with calls of the database that fail, and the history of the *)
(* messages to NEC.  Bound: setValues of one known row or of these two, and *)
(* no NECRunSuccess, which does here what NECAsks does.                    *)
EXTENDS MCMetaManage

Batch == <<[d |-> 1, v |-> 1], [d |-> 2, v |-> 1]>>
Few == {<<>>, Batch} \cup {<<[d |-> i, v |-> v]>> : i \in Ids, v \in Values}

FaultsNext ==
    \/ Start \/ Crash
    \/ \E t \in Threads : Snapshot(t)
    \/ NECAsks
    \/ \E msg \in Few : SetValue(msg)
    \/ SetValueStep

FaultsSpec == Init /\ [][FaultsNext]_vars /\ Fairness

=============================================================================
