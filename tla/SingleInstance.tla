--------------------------- MODULE SingleInstance ---------------------------
(***************************************************************************)
(* isAnotherInstanceRunning (main.cpp 19-55): processes that are started   *)
(* on one machine share a named mutex, and only the one that acquires it   *)
(* goes on.  The mutex is a Windows kernel object: it lives as long as a   *)
(* handle to it is open, and is abandoned when its owner ends first.       *)
(*                                                                         *)
(* The program never releases the mutex and never closes the handle of a   *)
(* process that runs: the end of the process does both.                    *)
(***************************************************************************)

CONSTANTS
    Procs,      \* the processes; one that has ended may be started again
    Nobody      \* the owner of a mutex that is free

ASSUME ProcsAssumption == Nobody \notin Procs

VARIABLES
    pc,         \* where each process is
    handles,    \* the processes with a handle of the mutex: it exists iff any
    owner,      \* whose main thread owns the mutex
    abandoned   \* its last owner has ended without a release

vars == <<pc, handles, owner, abandoned>>

States == {"off",       \* not started, or ended
           "create",    \* before CreateMutexA
           "wait",      \* in WaitForSingleObject, for 100 ms
           "close",     \* before CloseHandle; the verdict is true
           "refused",   \* waits for a key, then returns 1
           "running"}   \* the verdict is false: the program runs

Init ==
    /\ pc = [p \in Procs |-> "off"]
    /\ handles = {}
    /\ owner = Nobody
    /\ abandoned = FALSE

Goes(p, from, to) ==
    /\ pc[p] = from
    /\ pc' = [pc EXCEPT ![p] = to]

-----------------------------------------------------------------------------

Start(p) ==
    /\ Goes(p, "off", "create")
    /\ UNCHANGED <<handles, owner, abandoned>>

\* CreateMutexA(nullptr, FALSE, name) creates the mutex or opens it.
CreateMutex(p) ==
    /\ Goes(p, "create", "wait")
    /\ handles' = handles \cup {p}
    /\ UNCHANGED <<owner, abandoned>>

\* Mutant of CreateFails: the null handle is not looked at.
CreateFailsUnnoticed(p) ==
    /\ Goes(p, "create", "wait")
    /\ UNCHANGED <<handles, owner, abandoned>>

\* A null handle, whatever the reason: the verdict is true.
CreateFails(p) ==
    /\ Goes(p, "create", "refused")
    /\ UNCHANGED <<handles, owner, abandoned>>

\* WAIT_OBJECT_0
Acquired(p) ==
    /\ Goes(p, "wait", "running")
    /\ owner = Nobody /\ ~abandoned
    /\ owner' = p
    /\ UNCHANGED <<handles, abandoned>>

\* WAIT_ABANDONED (not WAIT_FAILED, which a valid handle does not lead to): p owns the mutex now, and the code takes it for a failure.
AcquiredAbandoned(p) ==
    /\ Goes(p, "wait", "close")
    /\ abandoned
    /\ owner' = p
    /\ abandoned' = FALSE
    /\ UNCHANGED handles

\* Mutant of TimedOut: the result of the wait is not looked at.
TimedOutUnnoticed(p) ==
    /\ Goes(p, "wait", "running")
    /\ owner # Nobody
    /\ UNCHANGED <<handles, owner, abandoned>>

\* WAIT_TIMEOUT
TimedOut(p) ==
    /\ Goes(p, "wait", "close")
    /\ owner # Nobody
    /\ UNCHANGED <<handles, owner, abandoned>>

\* With its last handle the mutex goes, owned or not.
LeaveMutex(p, newOwner, newAbandoned) ==
    /\ handles' = handles \ {p}
    /\ owner' = IF handles' = {} THEN Nobody ELSE newOwner
    /\ abandoned' = (handles' # {} /\ newAbandoned)

\* CloseHandle does not give up the ownership.
CloseHandle(p) ==
    /\ Goes(p, "close", "refused")
    /\ LeaveMutex(p, owner, abandoned)

\* The process returns from main() or is killed.
End(p) ==
    /\ pc[p] # "off"
    /\ pc' = [pc EXCEPT ![p] = "off"]
    /\ IF owner = p THEN LeaveMutex(p, Nobody, TRUE)
                    ELSE LeaveMutex(p, owner, abandoned)

-----------------------------------------------------------------------------

Next ==
    \E p \in Procs :
        \/ Start(p) \/ CreateMutex(p) \/ CreateFails(p)
        \/ Acquired(p) \/ AcquiredAbandoned(p) \/ TimedOut(p)
        \/ CloseHandle(p) \/ End(p)

Spec == Init /\ [][Next]_vars

-----------------------------------------------------------------------------

\* The mutex exists for the processes between CreateMutexA and CloseHandle or
\* their end, and is owned by a process that has not ended.
TypeOK ==
    /\ pc \in [Procs -> States]
    /\ handles = {p \in Procs : pc[p] \in {"wait", "close", "running"}}
    /\ owner \in Procs \cup {Nobody}
    /\ abandoned \in BOOLEAN
    /\ abandoned => owner = Nobody
    /\ owner # Nobody => pc[owner] # "off"

\* At most one process gets past the check (main.cpp 110-121), whatever is
\* killed, started again or waits at the time.
OnlyOneRuns ==
    \A p, q \in Procs : pc[p] = "running" /\ pc[q] = "running" => p = q

\* main.cpp 17: the verdict is true only if another instance exists.
RefusedMeansAnother ==
    [][\A p \in Procs :
          pc[p] = "wait" /\ pc'[p] = "close"
            => \E q \in Procs \ {p} : pc[q] # "off"]_vars

=============================================================================
