------------------------------ MODULE Startup -------------------------------
(***************************************************************************)
(* What Startup::dataInit makes of the INI file (module IniConfig) and of  *)
(* the rows of the database: the lists of plates and metadata, read by     *)
(* database/db_queries.cpp, and the legacy hardware maps, kept up to date  *)
(* by applySetValue afterwards.                                            *)
(*                                                                         *)
(* The loaders do not fill the legacy columns of a row, so that in the     *)
(* program as it stands the maps stay empty (typed = FALSE).  With         *)
(* typed = TRUE they do, which is what the rebuild is written for.         *)
(***************************************************************************)
EXTENDS IniConfig, LegacyMaps

CONSTANTS
    PlateTables,    \* contents of ne_plate_type: sequences of ne_plate
    MdTables        \* contents of ne_md_info: sequences of ne_md_info

\* pk_id is the primary key of a table.
ASSUME TableAssumption ==
    /\ PlateTables \subseteq Seq(ne_plate) /\ MdTables \subseteq Seq(ne_md_info)
    /\ \A t \in PlateTables \cup MdTables :
          \A j, k \in DOMAIN t : t[j].pk_id = t[k].pk_id => j = k

VARIABLES
    typed,      \* whether the loaders fill the legacy columns
    step,       \* where dataInit is
    plates,     \* GlobalData's list of plates
    mds,        \* GlobalData's list of metadata
    hard,       \* GlobalData's legacy hardware maps
    written     \* history: the ids that a setValue has written

tableVars == <<typed, plates, mds, hard, written>>
allVars == <<vars, tableVars, step>>

\* What selectAllPlates takes of a row.
PlateRead(row) ==
    IF typed THEN row
    ELSE [row EXCEPT !.plate_type_id = 0, !.plate_parent_id = 0, !.hard_addr = 0]

\* What selectAllMetaInfo takes of a row.
MdRead(row) ==
    IF typed THEN row
    ELSE [row EXCEPT !.plate_type_id = 0, !.plate_control_id = 0,
                     !.plate_hard_addr = 0, !.tport = 0, !.init_value = 0]

StartupInit ==
    /\ Init
    /\ typed \in BOOLEAN
    /\ step = "settings"
    /\ plates = <<>> /\ mds = <<>> /\ hard = NoMaps /\ written = {}

\* Another use of load and save, before the tables are read.
UseSettings ==
    /\ step = "settings"
    /\ Next
    /\ UNCHANGED <<tableVars, step>>

\* A query that fails leaves its list as it is: empty.
LoadPlates ==
    /\ step = "settings" /\ config = Loaded(file)
    /\ step' = "metadata"
    /\ \E table \in PlateTables :
          plates' \in {<<>>, [k \in DOMAIN table |-> PlateRead(table[k])]}
    /\ UNCHANGED <<vars, typed, mds, hard, written>>

LoadMetaInfo ==
    /\ step = "metadata"
    /\ step' = "maps"
    /\ \E table \in MdTables :
          mds' \in {<<>>, [k \in DOMAIN table |-> MdRead(table[k])]}
    /\ UNCHANGED <<vars, typed, plates, hard, written>>

RebuildMaps ==
    /\ step = "maps"
    /\ step' = "running"
    /\ hard' = Rebuilt(plates, mds)
    /\ UNCHANGED <<vars, typed, plates, mds, written>>

\* What applySetValue does in memory for one update, found by its id.
SetValue(k, v) ==
    /\ step = "running"
    /\ mds' = [mds EXCEPT ![k].current_value = v]
    /\ hard' = Mirrored(hard, mds[k], v)
    /\ written' = written \cup {mds[k].pk_id}
    /\ UNCHANGED <<vars, typed, plates, step>>

StartupNext ==
    \/ UseSettings \/ LoadPlates \/ LoadMetaInfo \/ RebuildMaps
    \/ \E k \in DOMAIN mds, v \in Levels : SetValue(k, v)

StartupSpec == StartupInit /\ [][StartupNext]_allVars

-----------------------------------------------------------------------------

\* When every board's row precedes those of its children, the maps have the
\* slots that the rows call for and nothing else, and the last row that claims a
\* channel has it: the order in which a SELECT without ORDER BY returns the rest
\* of the rows does not matter (startup.cpp 98-172).
MapsMatchRows ==
    step = "running" =>
        /\ DOMAIN hard.ids \subseteq ProperSlots(plates)
        /\ BoardsFirst(plates) => DOMAIN hard.ids = ProperSlots(plates)
        /\ \A slot \in DOMAIN hard.ids, c \in Channels :
              LET claims == Claims(mds, slot, c)
              IN  IF claims = {} THEN hard.ids[slot][c] = 0
                  ELSE \E k \in claims : /\ \A j \in claims : j <= k
                                         /\ hard.ids[slot][c] = mds[k].pk_id

\* The k-th row of metadata is a DO or DI with a channel that no other row claims.
HasChannel(k) ==
    /\ mds[k].plate_type_id \in {3, 4} /\ Fits(hard, mds[k])
    /\ Claims(mds, PlaceOf(mds[k]), mds[k].tport) = {k}

\* The value a channel shows is the one the list has for its metadata, once a
\* setValue has written it, unless two rows claim the channel (meta_manage.cpp
\* 284-307).  Before, it shows init_value, whatever the list says.
MirrorFollowsList ==
    step = "running" =>
        \A k \in {k \in DOMAIN mds : HasChannel(k)} :
            hard.values[PlaceOf(mds[k])][mds[k].tport] =
                IF mds[k].pk_id \in written THEN mds[k].current_value
                                            ELSE mds[k].init_value

=============================================================================
