------------------------ MODULE SingleInstanceProofs ------------------------
(***************************************************************************)
(* Proofs about SingleInstance for every set of processes.  OnlyOneRuns is *)
(* not inductive: it needs that whoever runs still owns the mutex.         *)
(***************************************************************************)
EXTENDS SingleInstance, TLAPS

\* A process that runs owns the mutex, which nobody else can own then.
RunnerOwns == \A p \in Procs : pc[p] = "running" => owner = p

IndInv == TypeOK /\ RunnerOwns

\* Nothing is open, owned or running at first (main.cpp 101-108).
LEMMA InitIndInv == Init => IndInv
  BY DEF Init, IndInv, TypeOK, RunnerOwns, States

\* Every step of every process keeps the types and the ownership of the one
\* that runs (main.cpp 19-55).
LEMMA StepIndInv == IndInv /\ [Next]_vars => IndInv'
<1>. SUFFICES ASSUME IndInv, [Next]_vars PROVE IndInv'
  OBVIOUS
<1>. USE ProcsAssumption DEF IndInv, TypeOK, RunnerOwns, States
<1>1. ASSUME NEW p \in Procs, Start(p) PROVE IndInv'
  BY <1>1 DEF Start, Goes
<1>2. ASSUME NEW p \in Procs, CreateMutex(p) PROVE IndInv'
  BY <1>2 DEF CreateMutex, Goes
<1>3. ASSUME NEW p \in Procs, CreateFails(p) PROVE IndInv'
  BY <1>3 DEF CreateFails, Goes
<1>4. ASSUME NEW p \in Procs, Acquired(p) PROVE IndInv'
  BY <1>4 DEF Acquired, Goes
<1>5. ASSUME NEW p \in Procs, AcquiredAbandoned(p) PROVE IndInv'
  BY <1>5 DEF AcquiredAbandoned, Goes
<1>6. ASSUME NEW p \in Procs, TimedOut(p) PROVE IndInv'
  BY <1>6 DEF TimedOut, Goes
<1>7. ASSUME NEW p \in Procs, CloseHandle(p) PROVE IndInv'
  BY <1>7 DEF CloseHandle, LeaveMutex, Goes
<1>8. ASSUME NEW p \in Procs, End(p) PROVE IndInv'
  <2>1. CASE owner = p
    BY <1>8, <2>1 DEF End, LeaveMutex
  <2>2. CASE owner # p
    BY <1>8, <2>2 DEF End, LeaveMutex
  <2>. QED BY <2>1, <2>2
<1>9. CASE UNCHANGED vars
  BY <1>9 DEF vars
<1>. QED
  BY <1>1, <1>2, <1>3, <1>4, <1>5, <1>6, <1>7, <1>8, <1>9 DEF Next

\* Handles, owner and program counters agree in every state.
THEOREM TypeCorrect == Spec => []TypeOK
<1>1. IndInv => TypeOK
  BY DEF IndInv
<1>. QED
  BY <1>1, InitIndInv, StepIndInv, PTL DEF Spec

\* At most one process is past the check of main.cpp 110-121.
THEOREM MutualExclusion == Spec => []OnlyOneRuns
<1>1. IndInv => OnlyOneRuns
  BY DEF IndInv, RunnerOwns, OnlyOneRuns
<1>. QED
  BY <1>1, InitIndInv, StepIndInv, PTL DEF Spec

=============================================================================
