----------------------------- MODULE MetaStore ------------------------------
(***************************************************************************)
(* What an interface client may rely on: a setValue changes the stored     *)
(* rows in one step or not at all, its answer comes after, and ok:1 is     *)
(* said only of a setValue that is stored as a whole.  The process may die *)
(* at any time; what is stored stays.                                      *)
(***************************************************************************)
EXTENDS Naturals

CONSTANTS
    Ids,                \* the rows
    Values,
    Requests,           \* what a setValue may ask for: its known updates
    Effect(_, _)        \* the rows after a request on given rows

VARIABLES
    stored,     \* id |-> value, as it survives a crash
    request,    \* the request that was taken last
    whole,      \* every id of it was known
    phase,      \* "open": taken, "stored": applied, "idle": answered or lost
    answer

vars == <<stored, request, whole, phase, answer>>

Init ==
    /\ stored \in [Ids -> Values]
    /\ request \in Requests
    /\ whole \in BOOLEAN
    /\ phase = "idle"
    /\ answer = "none"

Take(r) ==
    /\ phase = "idle"
    /\ request' = r
    /\ whole' \in BOOLEAN
    /\ \/ phase' = "open" /\ answer' = "none"
       \/ phase' = "idle" /\ answer' = "no"
    /\ UNCHANGED stored

Store ==
    /\ phase = "open"
    /\ stored' = Effect(stored, request)
    /\ phase' = "stored"
    /\ UNCHANGED <<request, whole, answer>>

Refuse ==
    /\ phase = "open"
    /\ answer' = "no"
    /\ phase' = "idle"
    /\ UNCHANGED <<stored, request, whole>>

Answer ==
    /\ phase = "stored"
    /\ answer' = IF whole THEN "yes" ELSE "no"
    /\ phase' = "idle"
    /\ UNCHANGED <<stored, request, whole>>

Die ==
    /\ phase' = "idle"
    /\ UNCHANGED <<stored, request, whole, answer>>

Next ==
    \/ \E r \in Requests : Take(r)
    \/ Store \/ Refuse \/ Answer \/ Die

Spec == Init /\ [][Next]_vars

=============================================================================
