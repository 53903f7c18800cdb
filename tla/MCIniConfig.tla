---------------------------- MODULE MCIniConfig -----------------------------
(* Startup with one address and one number besides the defaults.  Either   *)
(* the INI file or the tables vary: nothing of one is read with the other. *)
EXTENDS Startup

MCPorts == {0, 6001, 7000}

Plate(id, type, parent, addr) ==
    [pk_id |-> id, plate_type_id |-> type, plate_parent_id |-> parent,
     hard_addr |-> addr]

\* Board 1 and, with or without an address, analog board 2; children of both,
\* of a board that is not there, and without an address.
MCPlates == {Plate(1, 2, 0, 0), Plate(2, 5, 0, 1), Plate(2, 5, 0, 0),
             Plate(3, 3, 1, 1), Plate(3, 3, 1, 0), Plate(3, 4, 2, 1),
             Plate(4, 4, 1, 1), Plate(4, 3, 9, 1)}

MCPlateTables ==
    {t \in UNION {[1 .. n -> MCPlates] : n \in 0 .. 3} :
        \A i, j \in DOMAIN t : i # j => t[i].pk_id # t[j].pk_id}

\* A DO or DI of board 1 or an analog value of board 2, on a channel or outside.
Md(id, type, port) ==
    [pk_id |-> id, plate_id |-> 2, plate_type_id |-> type, plate_control_id |-> 1,
     plate_hard_addr |-> 1, tport |-> port, init_value |-> id - 1,
     current_value |-> 0]

MCMdTables == {<<>>} \cup
    {<<Md(1, t, p), Md(2, u, q)>> : t, u \in {3, 4, 5}, p, q \in {1, 2}}

EmptyFile == [k \in HostKeys \cup PortKeys |-> Absent]

MCInit == StartupInit /\ (typed => file = EmptyFile)
MCNext == StartupNext /\ (file # EmptyFile => plates' = <<>> /\ mds' = <<>>)
MCSpec == MCInit /\ [][MCNext]_allVars
=============================================================================
