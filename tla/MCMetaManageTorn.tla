-------------------------- MODULE MCMetaManageTorn --------------------------
(* MetaManage with a history variable: the states the list of metadata has *)
(* been in since a thread began to read it.                                *)
EXTENDS MCMetaManage

VARIABLE window

WindowInit == Init /\ window = [t \in Threads |-> {}]

WindowNext ==
    /\ Next
    /\ window' = [t \in Threads |->
                     IF ~At(t, "read")' THEN {}
                     ELSE {md'} \cup (IF At(t, "read") THEN window[t] ELSE {})]

WindowSpec == WindowInit /\ [][WindowNext]_<<vars, window>>

\* core/global_data.h 13-14: GlobalData is a thread-safe container.  So what a
\* thread reads of its list is a state the list has been in while it read.
SnapshotIsAState ==
    \A t \in Threads :
        At(t, "read") /\ Len(snap[t]) = Rows
            => \E m \in window[t] : \A k \in Ids : snap[t][k] = m[k]

=============================================================================
