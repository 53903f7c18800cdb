--------------------------- MODULE StartupProofs ---------------------------
(***************************************************************************)
(* Theorems about IniConfig for all addresses and numbers, and about       *)
(* LegacyMaps for lists of any length, any rows and any order of them.     *)
(*                                                                         *)
(* The maps are what two loops make of two lists (startup.cpp 98-172).     *)
(* PlatesLoop and MetaInfoLoop give the values after every turn of them,   *)
(* by the recursion lemma of DataInduction; PlatesMapped and               *)
(* MetaInfoMapped say by induction on the turns which slots there are and  *)
(* who has which channel.                                                  *)
(*                                                                         *)
(* What is proved of the INI file is a matter of its types and of one save *)
(* and one load.                                                           *)
(***************************************************************************)
EXTENDS Startup, DataInduction

-----------------------------------------------------------------------------
(* The settings.                                                           *)

\* File and configuration have their types.
SettingsInv == file \in Files /\ config \in Configs

\* loadConfig gives every setting a value of its type (ini_config.cpp 5-91).
LEMMA LoadedType == ASSUME NEW f \in Files PROVE Loaded(f) \in Configs
  BY ConfigAssumption
     DEF Files, Configs, Loaded, ExIp, InterfacePort, Value, HostKeys, PortKeys

\* saveConfig leaves a file with the same keys (ini_config.cpp 93-139).
LEMMA SavedType ==
  ASSUME NEW f \in Files, NEW c \in Configs PROVE Saved(f, c) \in Files
  BY DEF Files, Configs, Saved, HostKeys, PortKeys

\* What saveConfig writes under each key, and what it leaves.
LEMMA SavedKeys ==
  ASSUME NEW f \in Files, NEW c \in Configs
  PROVE  /\ Saved(f, c)["IP/NENetEx_IP"] = c.nenet_ex_ip
         /\ Saved(f, c)["IP/NENet_NEC_Port"] = c.nenet_nec_port
         /\ Saved(f, c)["IP/Interface_Port"] = c.interface_port
         /\ \A k \in {"NENetIP/NENetEx_IP", "NENetIP/Interface_Port",
                      "HardIO/CAN_Channel"} : Saved(f, c)[k] = f[k]
  BY DEF Files, Saved, HostKeys, PortKeys

\* File and configuration keep their types, whatever is loaded, changed and saved.
LEMMA SettingsInvariance == Spec => []SettingsInv
<1>1. Init => SettingsInv
  BY LoadedType DEF Init, SettingsInv
<1>2. SettingsInv /\ [Next]_vars => SettingsInv'
  <2>. SUFFICES ASSUME SettingsInv, [Next]_vars PROVE SettingsInv'
    OBVIOUS
  <2>. USE DEF SettingsInv
  <2>1. CASE Load
    BY <2>1, LoadedType DEF Load
  <2>2. CASE Save
    BY <2>2, SavedType DEF Save
  <2>3. ASSUME NEW c \in Configs, Change(c) PROVE SettingsInv'
    BY <2>3 DEF Change
  <2>4. CASE UNCHANGED vars
    BY <2>4 DEF vars
  <2>. QED
    BY <2>1, <2>2, <2>3, <2>4 DEF Next
<1>. QED
  BY <1>1, <1>2, PTL DEF Spec

\* saveConfig after loadConfig changes nothing for the next loadConfig, for
\* every file and every set of addresses and ports.
THEOREM SaveAfterLoad == Spec => []SaveAfterLoadIsHarmless
<1>1. SettingsInv => SaveAfterLoadIsHarmless
  <2>. SUFFICES ASSUME SettingsInv, config = Loaded(file)
                PROVE  Loaded(Saved(file, config)) = config
    BY DEF SaveAfterLoadIsHarmless
  <2>. DEFINE again == Saved(file, config)
  <2>1. /\ again["IP/NENetEx_IP"] = ExIp(file)
        /\ again["IP/NENet_NEC_Port"] = Value(file, "IP/NENet_NEC_Port", 6001)
        /\ again["IP/Interface_Port"] = InterfacePort(file)
        /\ \A k \in {"NENetIP/NENetEx_IP", "NENetIP/Interface_Port",
                     "HardIO/CAN_Channel"} : again[k] = file[k]
    BY SavedKeys DEF SettingsInv, Loaded
  <2>2. /\ ExIp(file) \in Hosts /\ InterfacePort(file) \in Ports
        /\ Value(file, "IP/NENet_NEC_Port", 6001) \in Ports
    BY LoadedType DEF SettingsInv, Loaded, Configs
  <2>. HIDE DEF again
  <2>3. ExIp(again) = ExIp(file)
    BY <2>1, <2>2, ConfigAssumption DEF ExIp, Value
  <2>4. InterfacePort(again) = InterfacePort(file)
    BY <2>1, <2>2, ConfigAssumption DEF InterfacePort, Value
  <2>5. Value(again, "IP/NENet_NEC_Port", 6001)
          = Value(file, "IP/NENet_NEC_Port", 6001)
    BY <2>1, <2>2, ConfigAssumption DEF Value
  <2>6. Value(again, "HardIO/CAN_Channel", 0) = Value(file, "HardIO/CAN_Channel", 0)
    BY <2>1 DEF Value
  <2>7. Loaded(again) = Loaded(file)
    BY <2>3, <2>4, <2>5, <2>6 DEF Loaded
  <2>. QED
    BY <2>7 DEF again
<1>. QED
  BY <1>1, SettingsInvariance, PTL

\* saveConfig keeps a changed port, unless [NENetIP] hides it.
THEOREM PortsKept == Spec => []ChangedPortsAreKept
<1>1. SettingsInv => ChangedPortsAreKept
  <2>. SUFFICES ASSUME SettingsInv PROVE ChangedPortsAreKept
    OBVIOUS
  <2>. DEFINE again == Saved(file, config)
  <2>1. /\ again["IP/NENet_NEC_Port"] = config.nenet_nec_port
        /\ again["IP/Interface_Port"] = config.interface_port
        /\ again["NENetIP/Interface_Port"] = file["NENetIP/Interface_Port"]
    BY SavedKeys DEF SettingsInv
  <2>2. config.nenet_nec_port # Absent /\ config.interface_port # Absent
    BY ConfigAssumption DEF SettingsInv, Configs
  <2>. QED
    BY <2>1, <2>2 DEF ChangedPortsAreKept, Loaded, InterfacePort, Value
<1>. QED
  BY <1>1, SettingsInvariance, PTL

-----------------------------------------------------------------------------
(* The legacy maps.                                                        *)

\* The vectors of channels by slot.
Dict(S) == UNION {[D -> [Channels -> S]] : D \in SUBSET Slots}

\* The type of the maps: every slot has a vector of ids and one of values.
Maps ==
    {m \in [boards : SUBSET RowIds, ids : Dict(RowIds), values : Dict(Levels)] :
        DOMAIN m.ids = DOMAIN m.values}

\* Such a dictionary is a function on some slots,
LEMMA DictIs ==
  ASSUME NEW S, NEW f
  PROVE  f \in Dict(S) <=> DOMAIN f \subseteq Slots /\ f \in [DOMAIN f -> [Channels -> S]]
<1>1. ASSUME f \in Dict(S)
      PROVE  DOMAIN f \subseteq Slots /\ f \in [DOMAIN f -> [Channels -> S]]
  <2>1. PICK D \in SUBSET Slots : f \in [D -> [Channels -> S]]
    BY <1>1 DEF Dict
  <2>. QED
    BY <2>1
<1>2. ASSUME DOMAIN f \subseteq Slots, f \in [DOMAIN f -> [Channels -> S]]
      PROVE  f \in Dict(S)
  BY <1>2 DEF Dict
<1>. QED
  BY <1>1, <1>2

\* and two of them with the same slots make maps;
LEMMA MapsAre ==
  ASSUME NEW b \in SUBSET RowIds, NEW D \in SUBSET Slots,
         NEW i \in [D -> [Channels -> RowIds]], NEW v \in [D -> [Channels -> Levels]]
  PROVE  [boards |-> b, ids |-> i, values |-> v] \in Maps
<1>1. i \in Dict(RowIds) /\ v \in Dict(Levels)
  BY DEF Dict
<1>. QED
  BY <1>1 DEF Maps

\* maps are made of nothing else.
LEMMA MapsHave ==
  ASSUME NEW m \in Maps
  PROVE  /\ m = [boards |-> m.boards, ids |-> m.ids, values |-> m.values]
         /\ m.boards \in SUBSET RowIds /\ DOMAIN m.ids \in SUBSET Slots
         /\ m.ids \in [DOMAIN m.ids -> [Channels -> RowIds]]
         /\ m.values \in [DOMAIN m.ids -> [Channels -> Levels]]
         /\ DOMAIN m.values = DOMAIN m.ids
<1>1. /\ m \in [boards : SUBSET RowIds, ids : Dict(RowIds), values : Dict(Levels)]
      /\ DOMAIN m.values = DOMAIN m.ids
  BY DEF Maps
<1>2. m.ids \in Dict(RowIds) /\ m.values \in Dict(Levels)
  BY <1>1
<1>. QED
  BY <1>1, <1>2, DictIs

\* The maps before the loops.
LEMMA NoMapsIs == NoMaps \in Maps /\ DOMAIN NoMaps.ids = {} /\ NoMaps.boards = {}
<1>1. <<>> \in [{} -> [Channels -> RowIds]] /\ <<>> \in [{} -> [Channels -> Levels]]
  OBVIOUS
<1>. QED
  BY <1>1, MapsAre DEF NoMaps

\* A row that makes a slot makes one of the slots there can be.
LEMMA SlotOfType ==
  ASSUME NEW plate \in ne_plate, MakesSlot(plate) PROVE SlotOf(plate) \in Slots
BY DEF ne_plate, MakesSlot, SlotOf, Slots, IsChild

\* A row makes a slot on a board that is there.
Makes(boards, plate) == MakesSlot(plate) /\ SlotOf(plate)[2] \in boards
\* No channel is taken and every value is 0.
Blank(maps) ==
    \A s \in DOMAIN maps.ids, c \in Channels : maps.ids[s][c] = 0 /\ maps.values[s][c] = 0

\* One turn of the loop over plates (startup.cpp 98-141): a board more, or a slot of
\* zeros more on a board that is there.
LEMMA AddPlateIs ==
  ASSUME NEW maps \in Maps, NEW plate \in ne_plate
  PROVE  LET new == AddPlate(maps, plate)
         IN  /\ new \in Maps
             /\ new.boards = IF IsBoard(plate) THEN maps.boards \cup {plate.pk_id} ELSE maps.boards
             /\ DOMAIN new.ids = IF Makes(new.boards, plate)
                                   THEN DOMAIN maps.ids \cup {SlotOf(plate)}
                                   ELSE DOMAIN maps.ids
             /\ Blank(maps) => Blank(new)
<1>. DEFINE new == AddPlate(maps, plate)
            known == WithBoard(maps, plate)
            slot == SlotOf(plate)
            keys == DOMAIN known.ids \cup {slot}
            Zeroed(f) == [s \in keys |-> IF s = slot THEN [c \in Channels |-> 0] ELSE f[s]]
<1>0. /\ maps = [boards |-> maps.boards, ids |-> maps.ids, values |-> maps.values]
      /\ maps.boards \in SUBSET RowIds /\ DOMAIN maps.ids \in SUBSET Slots
      /\ maps.ids \in [DOMAIN maps.ids -> [Channels -> RowIds]]
      /\ maps.values \in [DOMAIN maps.ids -> [Channels -> Levels]]
      /\ DOMAIN maps.values = DOMAIN maps.ids
  BY MapsHave
<1>1. /\ known = [boards |-> IF IsBoard(plate) THEN maps.boards \cup {plate.pk_id} ELSE maps.boards,
                  ids |-> maps.ids, values |-> maps.values]
      /\ known.boards \in SUBSET RowIds
      /\ known.ids = maps.ids /\ known.values = maps.values
  BY <1>0 DEF WithBoard, ne_plate
<1>2. CASE ~Makes(known.boards, plate)
  <2>1. new = known
    BY <1>2 DEF AddPlate, Makes
  <2>2. known \in Maps
    <3>. HIDE DEF known
    <3>1. known = [boards |-> known.boards, ids |-> maps.ids, values |-> maps.values]
      BY <1>1
    <3>. QED BY <1>0, <1>1, <3>1, MapsAre
  <2>. QED
    BY <1>1, <1>2, <2>1, <2>2 DEF Blank
<1>3. CASE Makes(known.boards, plate)
  <2>1. new = [boards |-> known.boards, ids |-> Zeroed(known.ids), values |-> Zeroed(known.values)]
    <3>1. new = WithSlot(known, slot)
      BY <1>3 DEF AddPlate, Makes
    <3>2. /\ known = [boards |-> known.boards, ids |-> maps.ids, values |-> maps.values]
          /\ known.ids = maps.ids
      BY <1>1
    <3>. HIDE DEF known, slot, new
    <3>3. WithSlot(known, slot)
            = [known EXCEPT !.ids = Zeroed(known.ids), !.values = Zeroed(known.values)]
      BY Zenon DEF WithSlot
    <3>. HIDE DEF keys, Zeroed
    <3>. QED BY <3>1, <3>2, <3>3
  <2>2. slot \in Slots
    BY <1>3, SlotOfType DEF Makes
  <2>3. keys \in SUBSET Slots
    BY <1>0, <1>1, <2>2
  <2>4. /\ Zeroed(known.ids) \in [keys -> [Channels -> RowIds]]
        /\ Zeroed(known.values) \in [keys -> [Channels -> Levels]]
    <3>. HIDE DEF known
    <3>. QED BY <1>0, <1>1, LegacyAssumption
  <2>5. new \in Maps
    BY <1>1, <2>1, <2>3, <2>4, MapsAre
  <2>6. new.boards = known.boards /\ DOMAIN new.ids = keys
    BY <2>1
  <2>7. Blank(maps) => Blank(new)
    <3>. HIDE DEF known
    <3>. QED BY <1>0, <1>1, <2>1 DEF Blank
  <2>. QED
    BY <1>1, <1>3, <2>5, <2>6, <2>7
<1>. QED
  BY <1>2, <1>3

\* One turn of the loop over metadata (startup.cpp 147-172): the channel it claims,
\* if there is one, has its id and its value, and no other channel changes.
LEMMA AddMetaInfoIs ==
  ASSUME NEW maps \in Maps, NEW md \in ne_md_info
  PROVE  LET new == AddMetaInfo(maps, md)
         IN  /\ new \in Maps /\ DOMAIN new.ids = DOMAIN maps.ids
             /\ \A s \in DOMAIN maps.ids, c \in Channels :
                   /\ new.ids[s][c] = IF PlaceOf(md) = s /\ md.tport = c
                                        THEN md.pk_id ELSE maps.ids[s][c]
                   /\ new.values[s][c] = IF PlaceOf(md) = s /\ md.tport = c
                                           THEN IF md.plate_type_id = 5 THEN 0 ELSE md.init_value
                                           ELSE maps.values[s][c]
<1>. DEFINE new == AddMetaInfo(maps, md)
            place == PlaceOf(md)
            value == IF md.plate_type_id = 5 THEN 0 ELSE md.init_value
<1>0. /\ maps = [boards |-> maps.boards, ids |-> maps.ids, values |-> maps.values]
      /\ maps.boards \in SUBSET RowIds /\ DOMAIN maps.ids \in SUBSET Slots
      /\ maps.ids \in [DOMAIN maps.ids -> [Channels -> RowIds]]
      /\ maps.values \in [DOMAIN maps.ids -> [Channels -> Levels]]
      /\ DOMAIN maps.values = DOMAIN maps.ids
  BY MapsHave
<1>1. md.pk_id \in RowIds /\ value \in Levels
  BY LegacyAssumption DEF ne_md_info
<1>2. CASE ~Fits(maps, md)
  BY <1>2 DEF AddMetaInfo, Fits
<1>3. CASE Fits(maps, md)
  <2>. DEFINE i == [maps.ids EXCEPT ![place][md.tport] = md.pk_id]
              v == [maps.values EXCEPT ![place][md.tport] = value]
  <2>1. new = [boards |-> maps.boards, ids |-> i, values |-> v]
    BY <1>0, <1>3 DEF AddMetaInfo
  <2>2. place \in DOMAIN maps.ids /\ md.tport \in Channels
    BY <1>3 DEF Fits
  <2>. HIDE DEF place, value
  <2>3. i \in [DOMAIN maps.ids -> [Channels -> RowIds]]
        /\ v \in [DOMAIN maps.ids -> [Channels -> Levels]]
    BY <1>0, <1>1, <2>2
  <2>4. new \in Maps
    <3>. HIDE DEF new, i, v
    <3>. QED BY <1>0, <2>1, <2>3, MapsAre
  <2>5. \A s \in DOMAIN maps.ids, c \in Channels :
           /\ i[s][c] = IF place = s /\ md.tport = c THEN md.pk_id ELSE maps.ids[s][c]
           /\ v[s][c] = IF place = s /\ md.tport = c THEN value ELSE maps.values[s][c]
    BY <1>0, <2>2
  <2>6. DOMAIN i = DOMAIN maps.ids
    BY <2>3
  <2>. QED
    BY <2>1, <2>4, <2>5, <2>6 DEF place, value
<1>. QED
  BY <1>2, <1>3

\* The maps after every turn of the loop over plates.
LEMMA PlatesLoop ==
  ASSUME NEW rows \in Seq(ne_plate)
  PROVE  \E f \in [0 .. Len(rows) -> Maps] :
            /\ f[0] = NoMaps /\ f[Len(rows)] = WithPlates(rows)
            /\ \A n \in 1 .. Len(rows) : f[n] = AddPlate(f[n - 1], rows[n])
<1>. DEFINE m == Len(rows)
            Body(f, n) == IF n = 0 THEN NoMaps ELSE AddPlate(f[n - 1], rows[n])
            maps == CHOOSE f : f = [n \in 0 .. m |-> Body(f, n)]
            Step == [n \in 1 .. m |-> [x \in Maps |-> AddPlate(x, rows[n])]]
<1>1. m \in Nat /\ \A n \in 1 .. m : rows[n] \in ne_plate
  OBVIOUS
<1>2. Step \in [1 .. m -> [Maps -> Maps]]
  <2>1. ASSUME NEW n \in 1 .. m, NEW x \in Maps PROVE AddPlate(x, rows[n]) \in Maps
    BY <1>1, AddPlateIs
  <2>. QED
    BY <2>1
<1>3. NoMaps \in Maps
  BY NoMapsIs
<1>. HIDE DEF m
<1>4. PICK g : Iterates(g, m, Maps, NoMaps, Step)
  <2>. HIDE DEF Step, Body
  <2>. QED BY <1>1, <1>2, <1>3, RecursiveFunction, Zenon
<1>5. /\ g \in [0 .. m -> Maps] /\ g[0] = NoMaps
      /\ \A n \in 1 .. m : g[n] = AddPlate(g[n - 1], rows[n])
  <2>1. g \in [0 .. m -> Maps] /\ g[0] = NoMaps /\ \A n \in 1 .. m : g[n] = Step[n][g[n - 1]]
    BY <1>4 DEF Iterates
  <2>2. ASSUME NEW n \in 1 .. m PROVE g[n] = AddPlate(g[n - 1], rows[n])
    <3>1. n - 1 \in 0 .. m
      BY <1>1
    <3>2. g[n - 1] \in Maps
      BY <2>1, <3>1
    <3>. QED
      BY <2>1, <3>2
  <2>. QED
    BY <2>1, <2>2
<1>6. g = [n \in 0 .. m |-> Body(g, n)]
  <2>1. ASSUME NEW n \in 0 .. m PROVE g[n] = Body(g, n)
    <3>1. n = 0 \/ n \in 1 .. m
      BY <1>1
    <3>. QED
      BY <1>5, <3>1
  <2>. HIDE DEF Body
  <2>. QED
    BY <1>5, <2>1
<1>7. maps = [n \in 0 .. m |-> Body(maps, n)]
  <2>. HIDE DEF Body
  <2>. QED BY <1>6, Zenon
<1>8. maps[m] = WithPlates(rows)
  BY Zenon DEF WithPlates, m
<1>. HIDE DEF maps
<1>9. /\ maps[0] = NoMaps
      /\ \A n \in 1 .. m : maps[n] = AddPlate(maps[n - 1], rows[n])
  <2>1. \A n \in 0 .. m : maps[n] = Body(maps, n)
    <3>. HIDE DEF Body
    <3>. QED BY <1>7
  <2>. QED
    BY <1>1, <2>1
<1>10. \A n \in 0 .. m : maps[n] \in Maps
  <2>1. ASSUME NEW n \in 1 .. m, maps[n - 1] \in Maps PROVE maps[n] \in Maps
    <3>1. AddPlate(maps[n - 1], rows[n]) \in Maps
      BY <1>1, <2>1, AddPlateIs
    <3>. QED
      BY <1>9, <3>1
  <2>2. maps[0] \in Maps
    BY <1>3, <1>9
  <2>. QED
    BY <1>1, <2>1, <2>2, LoopInvariant, Zenon
<1>11. maps \in [0 .. m -> Maps]
  <2>1. maps = [n \in 0 .. m |-> maps[n]]
    <3>. HIDE DEF Body
    <3>. QED BY <1>7
  <2>. QED
    BY <1>10, <2>1
<1>. QED
  BY <1>8, <1>9, <1>11 DEF m

\* The maps after every turn of the loop over metadata.
LEMMA MetaInfoLoop ==
  ASSUME NEW empty \in Maps, NEW rows \in Seq(ne_md_info)
  PROVE  \E f \in [0 .. Len(rows) -> Maps] :
            /\ f[0] = empty /\ f[Len(rows)] = WithMetaInfo(empty, rows)
            /\ \A n \in 1 .. Len(rows) : f[n] = AddMetaInfo(f[n - 1], rows[n])
<1>. DEFINE m == Len(rows)
            Body(f, n) == IF n = 0 THEN empty ELSE AddMetaInfo(f[n - 1], rows[n])
            maps == CHOOSE f : f = [n \in 0 .. m |-> Body(f, n)]
            Step == [n \in 1 .. m |-> [x \in Maps |-> AddMetaInfo(x, rows[n])]]
<1>1. m \in Nat /\ \A n \in 1 .. m : rows[n] \in ne_md_info
  OBVIOUS
<1>2. Step \in [1 .. m -> [Maps -> Maps]]
  <2>1. ASSUME NEW n \in 1 .. m, NEW x \in Maps PROVE AddMetaInfo(x, rows[n]) \in Maps
    BY <1>1, AddMetaInfoIs
  <2>. QED
    BY <2>1
<1>3. empty \in Maps
  BY NoMapsIs
<1>. HIDE DEF m
<1>4. PICK g : Iterates(g, m, Maps, empty, Step)
  <2>. HIDE DEF Step, Body
  <2>. QED BY <1>1, <1>2, <1>3, RecursiveFunction, Zenon
<1>5. /\ g \in [0 .. m -> Maps] /\ g[0] = empty
      /\ \A n \in 1 .. m : g[n] = AddMetaInfo(g[n - 1], rows[n])
  <2>1. g \in [0 .. m -> Maps] /\ g[0] = empty /\ \A n \in 1 .. m : g[n] = Step[n][g[n - 1]]
    BY <1>4 DEF Iterates
  <2>2. ASSUME NEW n \in 1 .. m PROVE g[n] = AddMetaInfo(g[n - 1], rows[n])
    <3>1. n - 1 \in 0 .. m
      BY <1>1
    <3>2. g[n - 1] \in Maps
      BY <2>1, <3>1
    <3>. QED
      BY <2>1, <3>2
  <2>. QED
    BY <2>1, <2>2
<1>6. g = [n \in 0 .. m |-> Body(g, n)]
  <2>1. ASSUME NEW n \in 0 .. m PROVE g[n] = Body(g, n)
    <3>1. n = 0 \/ n \in 1 .. m
      BY <1>1
    <3>. QED
      BY <1>5, <3>1
  <2>. HIDE DEF Body
  <2>. QED
    BY <1>5, <2>1
<1>7. maps = [n \in 0 .. m |-> Body(maps, n)]
  <2>. HIDE DEF Body
  <2>. QED BY <1>6, Zenon
<1>8. maps[m] = WithMetaInfo(empty, rows)
  BY Zenon DEF WithMetaInfo, m
<1>. HIDE DEF maps
<1>9. /\ maps[0] = empty
      /\ \A n \in 1 .. m : maps[n] = AddMetaInfo(maps[n - 1], rows[n])
  <2>1. \A n \in 0 .. m : maps[n] = Body(maps, n)
    <3>. HIDE DEF Body
    <3>. QED BY <1>7
  <2>. QED
    BY <1>1, <2>1
<1>10. \A n \in 0 .. m : maps[n] \in Maps
  <2>1. ASSUME NEW n \in 1 .. m, maps[n - 1] \in Maps PROVE maps[n] \in Maps
    <3>1. AddMetaInfo(maps[n - 1], rows[n]) \in Maps
      BY <1>1, <2>1, AddMetaInfoIs
    <3>. QED
      BY <1>9, <3>1
  <2>2. maps[0] \in Maps
    BY <1>3, <1>9
  <2>. QED
    BY <1>1, <2>1, <2>2, LoopInvariant, Zenon
<1>11. maps \in [0 .. m -> Maps]
  <2>1. maps = [n \in 0 .. m |-> maps[n]]
    <3>. HIDE DEF Body
    <3>. QED BY <1>7
  <2>. QED
    BY <1>10, <2>1
<1>. QED
  BY <1>8, <1>9, <1>11 DEF m

\* The boards among the first n rows.
BoardsMade(rows, n) == {rows[k].pk_id : k \in {k \in 1 .. n : IsBoard(rows[k])}}

\* The k-th row makes a slot, and its board is that row or one before it.
HasRoom(rows, k) ==
    MakesSlot(rows[k]) /\ \E j \in 1 .. k : IsBoard(rows[j]) /\ rows[j].pk_id = SlotOf(rows[k])[2]

\* The slots that the first n rows make.
SlotsMade(rows, n) == {SlotOf(rows[k]) : k \in {k \in 1 .. n : HasRoom(rows, k)}}

\* What one row more adds to them.
LEMMA MadeNext ==
  ASSUME NEW rows, NEW n \in Nat
  PROVE  /\ BoardsMade(rows, n + 1) = BoardsMade(rows, n) \cup
               IF IsBoard(rows[n + 1]) THEN {rows[n + 1].pk_id} ELSE {}
         /\ SlotsMade(rows, n + 1) = SlotsMade(rows, n) \cup
               IF HasRoom(rows, n + 1) THEN {SlotOf(rows[n + 1])} ELSE {}
         /\ HasRoom(rows, n + 1) <=> Makes(BoardsMade(rows, n + 1), rows[n + 1])
<1>1. 1 .. n + 1 = (1 .. n) \cup {n + 1}
  OBVIOUS
<1>2. BoardsMade(rows, n + 1) = BoardsMade(rows, n) \cup
               IF IsBoard(rows[n + 1]) THEN {rows[n + 1].pk_id} ELSE {}
  BY <1>1 DEF BoardsMade
<1>3. SlotsMade(rows, n + 1) = SlotsMade(rows, n) \cup
               IF HasRoom(rows, n + 1) THEN {SlotOf(rows[n + 1])} ELSE {}
  BY <1>1 DEF SlotsMade
<1>4. HasRoom(rows, n + 1) <=> Makes(BoardsMade(rows, n + 1), rows[n + 1])
  BY DEF HasRoom, Makes, BoardsMade
<1>. QED
  BY <1>2, <1>3, <1>4

\* After the loop over plates the maps have just these slots, all blank.
LEMMA PlatesMapped ==
  ASSUME NEW rows \in Seq(ne_plate)
  PROVE  /\ WithPlates(rows) \in Maps /\ Blank(WithPlates(rows))
         /\ DOMAIN WithPlates(rows).ids = SlotsMade(rows, Len(rows))
<1>. DEFINE m == Len(rows)
<1>0. PICK f \in [0 .. m -> Maps] :
            /\ f[0] = NoMaps /\ f[m] = WithPlates(rows)
            /\ \A n \in 1 .. m : f[n] = AddPlate(f[n - 1], rows[n])
  BY PlatesLoop
<1>. DEFINE Good(n) == /\ Blank(f[n])
                       /\ f[n].boards = BoardsMade(rows, n)
                       /\ DOMAIN f[n].ids = SlotsMade(rows, n)
            P == {n \in Nat : n <= m => Good(n)}
<1>1. 0 \in P
  <2>1. 1 .. 0 = {}
    OBVIOUS
  <2>2. BoardsMade(rows, 0) = {} /\ SlotsMade(rows, 0) = {}
    BY <2>1 DEF BoardsMade, SlotsMade
  <2>. QED
    BY <1>0, <2>2, NoMapsIs DEF Blank
<1>2. ASSUME NEW n \in Nat, n \in P PROVE n + 1 \in P
  <2>. SUFFICES ASSUME n + 1 <= m PROVE Good(n + 1)
    OBVIOUS
  <2>. DEFINE row == rows[n + 1]
              new == AddPlate(f[n], row)
  <2>1. /\ n + 1 \in 1 .. m /\ n + 1 - 1 = n /\ n \in 0 .. m /\ row \in ne_plate
        /\ Good(n)
    BY <1>2
  <2>2. f[n] \in Maps /\ f[n + 1] = new
    BY <1>0, <2>1
  <2>3. /\ new.boards = IF IsBoard(row) THEN f[n].boards \cup {row.pk_id} ELSE f[n].boards
        /\ DOMAIN new.ids = IF Makes(new.boards, row) THEN DOMAIN f[n].ids \cup {SlotOf(row)}
                                                      ELSE DOMAIN f[n].ids
        /\ Blank(f[n]) => Blank(new)
    <3>. HIDE DEF row
    <3>. QED BY <2>1, <2>2, AddPlateIs
  <2>4. new.boards = BoardsMade(rows, n + 1)
    <3>1. BoardsMade(rows, n + 1) = BoardsMade(rows, n) \cup
               IF IsBoard(row) THEN {row.pk_id} ELSE {}
      BY MadeNext
    <3>2. f[n].boards = BoardsMade(rows, n)
      BY <2>1
    <3>. HIDE DEF new, row
    <3>. QED BY <2>3, <3>1, <3>2
  <2>5. DOMAIN new.ids = SlotsMade(rows, n + 1)
    <3>1. /\ SlotsMade(rows, n + 1) = SlotsMade(rows, n) \cup
               IF HasRoom(rows, n + 1) THEN {SlotOf(row)} ELSE {}
          /\ HasRoom(rows, n + 1) <=> Makes(BoardsMade(rows, n + 1), row)
      BY MadeNext
    <3>2. DOMAIN f[n].ids = SlotsMade(rows, n)
      BY <2>1
    <3>. HIDE DEF new, row
    <3>. QED BY <2>3, <2>4, <3>1, <3>2
  <2>. QED
    BY <2>1, <2>2, <2>3, <2>4, <2>5
<1>3. \A n \in Nat : n \in P
  <2>. HIDE DEF P
  <2>. QED BY <1>1, <1>2, SetInduction, Zenon
<1>4. m \in Nat /\ m \in 0 .. m
  OBVIOUS
<1>5. Good(m)
  BY <1>3, <1>4
<1>. QED
  BY <1>0, <1>4, <1>5

\* The k-th row claims the channel.
Claim(rows, k, slot, c) == PlaceOf(rows[k]) = slot /\ rows[k].tport = c

\* With n rows treated, the last one that claims the channel has it; a channel that
\* nobody claims is blank.
Shows(maps, rows, n, slot, c) ==
    \/ /\ \A k \in 1 .. n : ~Claim(rows, k, slot, c)
       /\ maps.ids[slot][c] = 0 /\ maps.values[slot][c] = 0
    \/ \E k \in 1 .. n :
          /\ Claim(rows, k, slot, c)
          /\ \A j \in 1 .. n : Claim(rows, j, slot, c) => j <= k
          /\ maps.ids[slot][c] = rows[k].pk_id
          /\ maps.values[slot][c] = IF rows[k].plate_type_id = 5 THEN 0 ELSE rows[k].init_value

\* After the loop over metadata this is so for all the rows, with the slots there
\* were.
LEMMA MetaInfoMapped ==
  ASSUME NEW empty \in Maps, Blank(empty), NEW rows \in Seq(ne_md_info)
  PROVE  LET maps == WithMetaInfo(empty, rows)
         IN  /\ maps \in Maps /\ DOMAIN maps.ids = DOMAIN empty.ids
             /\ \A slot \in DOMAIN maps.ids, c \in Channels :
                   Shows(maps, rows, Len(rows), slot, c)
<1>. DEFINE m == Len(rows)
<1>0. PICK f \in [0 .. m -> Maps] :
            /\ f[0] = empty /\ f[m] = WithMetaInfo(empty, rows)
            /\ \A n \in 1 .. m : f[n] = AddMetaInfo(f[n - 1], rows[n])
  BY MetaInfoLoop
<1>. DEFINE Good(n) == /\ DOMAIN f[n].ids = DOMAIN empty.ids
                       /\ \A slot \in DOMAIN f[n].ids, c \in Channels :
                             Shows(f[n], rows, n, slot, c)
            P == {n \in Nat : n <= m => Good(n)}
<1>1. 0 \in P
  BY <1>0 DEF Blank, Shows
<1>2. ASSUME NEW n \in Nat, n \in P PROVE n + 1 \in P
  <2>. SUFFICES ASSUME n + 1 <= m PROVE Good(n + 1)
    OBVIOUS
  <2>. DEFINE row == rows[n + 1]
              new == AddMetaInfo(f[n], row)
  <2>1. /\ n + 1 \in 1 .. m /\ n + 1 - 1 = n /\ n \in 0 .. m /\ row \in ne_md_info
        /\ Good(n)
    BY <1>2
  <2>2. f[n] \in Maps /\ f[n + 1] = new
    BY <1>0, <2>1
  <2>3. /\ DOMAIN new.ids = DOMAIN f[n].ids
        /\ \A s \in DOMAIN f[n].ids, c \in Channels :
                   /\ new.ids[s][c] = IF PlaceOf(row) = s /\ row.tport = c
                                        THEN row.pk_id ELSE f[n].ids[s][c]
                   /\ new.values[s][c] = IF PlaceOf(row) = s /\ row.tport = c
                                           THEN IF row.plate_type_id = 5 THEN 0 ELSE row.init_value
                                           ELSE f[n].values[s][c]
    <3>. HIDE DEF row
    <3>. QED BY <2>1, <2>2, AddMetaInfoIs
  <2>4. ASSUME NEW s \in DOMAIN f[n].ids, NEW c \in Channels
        PROVE  Shows(new, rows, n + 1, s, c)
    <3>. HIDE DEF new
    <3>1. CASE Claim(rows, n + 1, s, c)
      <4>1. /\ new.ids[s][c] = row.pk_id
            /\ new.values[s][c] = IF row.plate_type_id = 5 THEN 0 ELSE row.init_value
        BY <2>3, <3>1 DEF Claim
      <4>2. \A j \in 1 .. n + 1 : j <= n + 1
        OBVIOUS
      <4>. QED
        BY <2>1, <3>1, <4>1, <4>2 DEF Shows
    <3>2. CASE ~Claim(rows, n + 1, s, c)
      <4>1. new.ids[s][c] = f[n].ids[s][c] /\ new.values[s][c] = f[n].values[s][c]
        BY <2>3, <3>2 DEF Claim
      <4>2. 1 .. n + 1 = (1 .. n) \cup {n + 1}
        OBVIOUS
      <4>3. Shows(f[n], rows, n, s, c)
        BY <2>1
      <4>. HIDE DEF row
      <4>. QED
        BY <3>2, <4>1, <4>2, <4>3 DEF Shows
    <3>. QED
      BY <3>1, <3>2
  <2>. QED
    BY <2>1, <2>2, <2>3, <2>4
<1>3. \A n \in Nat : n \in P
  <2>. HIDE DEF P
  <2>. QED BY <1>1, <1>2, SetInduction, Zenon
<1>4. m \in Nat /\ m \in 0 .. m
  OBVIOUS
<1>5. Good(m)
  BY <1>3, <1>4
<1>. QED
  BY <1>0, <1>4, <1>5

\* The rebuild (startup.cpp 87-172), for any two lists: there is a slot for each row
\* that asks for one on a board of the same or an earlier row, and for no other, so
\* that a child that comes before its board is dropped; and each channel of a slot
\* shows the id of the last row that claims it, with its init_value unless the slot
\* is analog, or is blank.
THEOREM RebuildIsExact ==
  ASSUME NEW rows \in Seq(ne_plate), NEW infos \in Seq(ne_md_info)
  PROVE  LET maps == Rebuilt(rows, infos)
         IN  /\ maps \in Maps /\ DOMAIN maps.ids = SlotsMade(rows, Len(rows))
             /\ \A slot \in DOMAIN maps.ids, c \in Channels :
                   Shows(maps, infos, Len(infos), slot, c)
<1>1. /\ WithPlates(rows) \in Maps /\ Blank(WithPlates(rows))
      /\ DOMAIN WithPlates(rows).ids = SlotsMade(rows, Len(rows))
  BY PlatesMapped
<1>. QED
  BY <1>1, MetaInfoMapped DEF Rebuilt

=============================================================================
