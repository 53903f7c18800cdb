----------------------------- MODULE LegacyMaps -----------------------------
(***************************************************************************)
(* The legacy hardware maps: which metadata is on which channel of which   *)
(* board (core/startup.cpp 87-172, GlobalData's m_jfHardAllDict), and the  *)
(* copy of the values that applySetValue keeps there (meta_manage.cpp      *)
(* 295-306).  Counters, names and addresses of a board are left out.       *)
(***************************************************************************)
EXTENDS Integers, Sequences

CONSTANTS
    RowIds,     \* values of pk_id and of the fields that refer to a row
    Addrs,      \* values of hard_addr
    TPorts,     \* values of tport
    Levels,     \* values of init_value and current_value
    Channels    \* the channels of a board, 0 .. 15 in the code

ASSUME LegacyAssumption ==
    /\ 0 \in RowIds \cap Addrs \cap TPorts \cap Levels
    /\ RowIds \cup Addrs \cup TPorts \cup Levels \subseteq Int
    /\ Channels \subseteq Nat

\* plate_type_id: 2 and 5 are boards, 3 and 4 the DO and DI boards below one.
PlateTypes == {0, 2, 3, 4, 5}

ne_plate == [pk_id : RowIds, plate_type_id : PlateTypes,
             plate_parent_id : RowIds, hard_addr : Addrs]

ne_md_info == [pk_id : RowIds, plate_id : RowIds, plate_type_id : PlateTypes,
               plate_control_id : RowIds, plate_hard_addr : Addrs,
               tport : TPorts, init_value : Levels, current_value : Levels]

\* A slot is a vector of channels: allDOIdMap (3), allDIIdMap (4) or allMNdMap
\* (5) of a board, at an address.
Slots == {3, 4, 5} \X RowIds \X Addrs

\* boards: the keys of jfHardDict.  ids and values: the vectors by slot; the
\* values of analog slots exist in the model only and stay 0.
NoMaps == [boards |-> {}, ids |-> <<>>, values |-> <<>>]

IsBoard(plate) == plate.plate_type_id \in {2, 5}
IsChild(plate) == plate.plate_type_id \in {3, 4}

\* The slot a row of plates makes, if its address is more than 0.
SlotOf(plate) ==
    <<plate.plate_type_id,
      IF IsChild(plate) THEN plate.plate_parent_id ELSE plate.pk_id,
      plate.hard_addr>>

MakesSlot(plate) == plate.plate_type_id \in {3, 4, 5} /\ plate.hard_addr > 0

\* A slot of zeros, in place of one that is there.
WithSlot(maps, slot) ==
    LET keys == DOMAIN maps.ids \cup {slot}
        Zeroed(f) == [s \in keys |-> IF s = slot THEN [c \in Channels |-> 0] ELSE f[s]]
    IN  [maps EXCEPT !.ids = Zeroed(@), !.values = Zeroed(@)]

WithBoard(maps, plate) ==
    IF IsBoard(plate) THEN [maps EXCEPT !.boards = @ \cup {plate.pk_id}] ELSE maps

\* Mutant of AddPlate: a child is not asked for its parent.
AddPlateAnyChild(maps, plate) ==
    IF MakesSlot(plate) THEN WithSlot(WithBoard(maps, plate), SlotOf(plate))
                        ELSE WithBoard(maps, plate)

\* One turn of the loop over plates: a board, or a child of a board that is in
\* the map already; any other child is an orphan and dropped.
AddPlate(maps, plate) ==
    LET known == WithBoard(maps, plate)
    IN  IF MakesSlot(plate) /\ SlotOf(plate)[2] \in known.boards
          THEN WithSlot(known, SlotOf(plate)) ELSE known

\* Where a metadata row sits: analog ones name their board in plate_id.
PlaceOf(md) ==
    <<md.plate_type_id,
      IF md.plate_type_id = 5 THEN md.plate_id ELSE md.plate_control_id,
      md.plate_hard_addr>>

Fits(maps, md) == PlaceOf(md) \in DOMAIN maps.ids /\ md.tport \in Channels

\* One turn of the loop over metadata.
AddMetaInfo(maps, md) ==
    IF ~Fits(maps, md) THEN maps
    ELSE [maps EXCEPT !.ids[PlaceOf(md)][md.tport] = md.pk_id,
                      !.values[PlaceOf(md)][md.tport] =
                          IF md.plate_type_id = 5 THEN 0 ELSE md.init_value]

\* The maps after the loop over plates, and after that over metadata.
WithPlates(plates) ==
    LET maps[n \in 0 .. Len(plates)] ==
            IF n = 0 THEN NoMaps ELSE AddPlate(maps[n - 1], plates[n])
    IN  maps[Len(plates)]

WithMetaInfo(empty, mds) ==
    LET maps[n \in 0 .. Len(mds)] ==
            IF n = 0 THEN empty ELSE AddMetaInfo(maps[n - 1], mds[n])
    IN  maps[Len(mds)]

Rebuilt(plates, mds) == WithMetaInfo(WithPlates(plates), mds)

WithValue(maps, slot, c, v) ==
    IF slot \in DOMAIN maps.ids /\ c \in Channels
      THEN [maps EXCEPT !.values[slot][c] = v] ELSE maps

\* Mutant of Mirrored: what is written for a DI goes to the DO of the board.
MirroredToDO(maps, md, v) ==
    WithValue(maps, [PlaceOf(md) EXCEPT ![1] = 3], md.tport, v)

\* applySetValue keeps the value of a DO or DI in the maps.
Mirrored(maps, md, v) ==
    IF md.plate_type_id \in {3, 4}
      THEN WithValue(maps, PlaceOf(md), md.tport, v) ELSE maps

-----------------------------------------------------------------------------
(* What the maps should say, with no word of the order of rows.            *)

\* The slots there are room for: analog boards', and those of children whose
\* board is among the rows.
ProperSlots(plates) ==
    LET rows == {plates[k] : k \in DOMAIN plates} IN
    {SlotOf(r) : r \in {r \in rows : MakesSlot(r) /\
                          \E b \in rows : IsBoard(b) /\ b.pk_id = SlotOf(r)[2]}}

\* Every child comes after its board.
BoardsFirst(plates) ==
    \A k \in DOMAIN plates : \A j \in k + 1 .. Len(plates) :
        IsChild(plates[k]) /\ IsBoard(plates[j])
            => plates[k].plate_parent_id # plates[j].pk_id

\* The rows of metadata that claim a channel.
Claims(mds, slot, c) ==
    {k \in DOMAIN mds : PlaceOf(mds[k]) = slot /\ mds[k].tport = c}

=============================================================================
