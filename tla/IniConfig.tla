----------------------------- MODULE IniConfig ------------------------------
(***************************************************************************)
(* IniConfig::loadConfig and saveConfig (config/ini_config.cpp).  Of the   *)
(* keys that are read and written in one place, as most are, there is one  *)
(* to stand for all, NENet_NEC_Port; interface_port and nenet_ex_ip are    *)
(* looked for in two sections, and CAN_Channel is never written.  The keys *)
(* of an INI file are the same to QSettings in upper and lower case.       *)
(***************************************************************************)
EXTENDS Naturals

CONSTANTS
    Hosts,      \* values of an address, the empty string among them
    Empty,
    LocalHost,  \* "127.0.0.1", the default
    Ports,      \* values of the numeric keys, the defaults among them
    Absent      \* the value of a key that is not in the file

ASSUME ConfigAssumption ==
    /\ {Empty, LocalHost} \subseteq Hosts /\ Empty # LocalHost
    /\ {0, 6001, 7000} \subseteq Ports
    /\ Absent \notin Hosts \cup Ports

VARIABLES
    file,       \* the INI file: key |-> value or Absent
    config      \* IniConfigInfo

vars == <<file, config>>

HostKeys == {"IP/NENetEx_IP", "NENetIP/NENetEx_IP"}
PortKeys == {"IP/NENet_NEC_Port", "IP/Interface_Port", "NENetIP/Interface_Port",
             "HardIO/CAN_Channel"}

Files == {f \in [HostKeys \cup PortKeys -> Hosts \cup Ports \cup {Absent}] :
            /\ \A k \in HostKeys : f[k] \in Hosts \cup {Absent}
            /\ \A k \in PortKeys : f[k] \in Ports \cup {Absent}}

Configs == [nenet_ex_ip : Hosts, interface_port : Ports,
            nenet_nec_port : Ports, can_channel : Ports]

\* settings.value(key, default)
Value(f, key, default) == IF f[key] = Absent THEN default ELSE f[key]

\* The address of [NENetIP], or else that of [IP]: the test is for an empty
\* string, which the default of the first look is not.
ExIp(f) ==
    LET own == Value(f, "NENetIP/NENetEx_IP", LocalHost)
    IN  IF own = Empty THEN Value(f, "IP/NENetEx_IP", LocalHost) ELSE own

InterfacePort(f) ==
    Value(f, "NENetIP/Interface_Port", Value(f, "IP/Interface_Port", 7000))

\* What loadConfig makes of a file that exists.
Loaded(f) ==
    [nenet_ex_ip |-> ExIp(f),
     interface_port |-> InterfacePort(f),
     nenet_nec_port |-> Value(f, "IP/NENet_NEC_Port", 6001),
     can_channel |-> Value(f, "HardIO/CAN_Channel", 0)]

\* Mutant of Saved: the two ports are swapped.
SavedSwapped(f, c) ==
    [f EXCEPT !["IP/NENetEx_IP"] = c.nenet_ex_ip,
              !["IP/NENet_NEC_Port"] = c.interface_port,
              !["IP/Interface_Port"] = c.nenet_nec_port]

\* saveConfig writes [IP] only, and leaves every other key as it is.
Saved(f, c) ==
    [f EXCEPT !["IP/NENetEx_IP"] = c.nenet_ex_ip,
              !["IP/NENet_NEC_Port"] = c.nenet_nec_port,
              !["IP/Interface_Port"] = c.interface_port]

-----------------------------------------------------------------------------

\* A file as somebody wrote it, loaded by Startup::dataInit.
Init ==
    /\ file \in Files
    /\ config = Loaded(file)

\* The program changes a setting in memory.
Change(c) ==
    /\ config' = c
    /\ UNCHANGED file

Save ==
    /\ file' = Saved(file, config)
    /\ UNCHANGED config

Load ==
    /\ config' = Loaded(file)
    /\ UNCHANGED file

Next == Load \/ Save \/ \E c \in Configs : Change(c)

Spec == Init /\ [][Next]_vars

-----------------------------------------------------------------------------

\* Saving what was loaded changes nothing that the next load reads: the detour
\* of interface_port and nenet_ex_ip through another section is harmless, in
\* every file (ini_config.cpp 50-81, 130-134).
SaveAfterLoadIsHarmless ==
    config = Loaded(file) => Loaded(Saved(file, config)) = config

\* A port that was changed in memory is kept by a save, unless the file has an
\* Interface_Port in [NENetIP], which hides the one in [IP].
ChangedPortsAreKept ==
    LET again == Loaded(Saved(file, config)) IN
    /\ again.nenet_nec_port = config.nenet_nec_port
    /\ file["NENetIP/Interface_Port"] = Absent
          => again.interface_port = config.interface_port

=============================================================================
