----------------------------- MODULE RadarConfig -----------------------------
(***************************************************************************)
(* The start of the node (smartmicro_radar_node.cpp): the constructor reads *)
(* the ROS parameters, writes the three JSON files the Smart Access library *)
(* is configured with, and initialises the library, which reads them.  The  *)
(* files outlive the process: it may be killed between any two steps and is *)
(* launched again with other parameters.  Writing a file is two steps: the  *)
(* stream truncates the file when it is opened, and what was written gets   *)
(* there when the stream is closed.  A file may be missing or unreadable,   *)
(* which the parser reports, and each of the two steps may fail, which      *)
(* nobody reports: the constructor goes on.                                 *)
(*                                                                         *)
(* A definition whose comment says "Variant" is not part of the             *)
(* specification: it is the operator that follows it with a mistake in it,  *)
(* kept to show which property notices the mistake.                         *)
(***************************************************************************)
EXTENDS Integers, Sequences

CONSTANTS MaxSensors,    \* kMaxSensorCount
          MaxAdapters,   \* kMaxHwCount
          SensorIds,     \* the values "id" of a sensor may have in the parameters
          AdapterIds,    \* the values "hw_dev_id" of an adapter may have
          MaxLaunches    \* bound of the model: launches of the node

ASSUME ConfigAssumption ==
    /\ MaxSensors \in Nat \ {0}
    /\ MaxAdapters \in Nat \ {0}
    /\ SensorIds \subseteq Nat \ {0}
    /\ AdapterIds \subseteq Nat \ {0}
    /\ MaxLaunches \in Nat

VARIABLES phase,               \* the next step of the constructor
          error,               \* why the constructor threw, if it did
          sensor_params,       \* the parameters of this launch: sensor_<i>.id
          adapter_params,      \* adapter_<j>.hw_dev_id
          preset,              \* SMART_ACCESS_CFG_FILE_PATH was set when it was launched
          m_number_of_sensors,
          m_number_of_adapters,
          file,                \* what each file holds
          library,             \* the routing table and the inventory the library has read
          launches,            \* how often the node was launched
          unread,              \* history: the files this launch could not read
          unwritten,           \* history: the files this launch failed to write, unnoticed
          damaged              \* history: the files some launch left truncated

paramVars == <<sensor_params, adapter_params, preset>>
countVars == <<m_number_of_sensors, m_number_of_adapters>>
historyVars == <<unread, unwritten, damaged>>
vars == <<phase, error, paramVars, countVars, file, library, launches, historyVars>>

\* kDefaultClientId and kDefaultHwDevId: the parameter was not set.
Default == 0

Files == {"config", "hw_inventory", "routing_table"}

\* A file that was truncated and not written, or not to its end: no JSON value.
Empty == <<"empty">>

\* A list of ids, under the key the file has for it.
Holds(ids) == <<"ids", ids>>

SensorSlots == 0..(MaxSensors - 1)
AdapterSlots == 0..(MaxAdapters - 1)

\* Variant: the loop counts the entry it stopped at.
NumberReadWithLast(params, slots) ==
    LET unset == {i \in slots : params[i] = Default}
    IN  IF unset = {} THEN 0 ELSE 1 + CHOOSE i \in unset : \A j \in unset : i <= j

\* The reading loop: the number is assigned only where the loop meets an entry that is
\* not set, so it keeps its initial value if every slot is used.
NumberRead(params, slots) ==
    LET unset == {i \in slots : params[i] = Default}
    IN  IF unset = {} THEN 0 ELSE CHOOSE i \in unset : \A j \in unset : i <= j

\* The entries the node writes to a file, in their order.
Listed(params, n) == [i \in 1..n |-> params[i - 1]]

-----------------------------------------------------------------------------

\* The step at which the stream to a file is open.
OpenPhase(f) ==
    CASE f = "config"        -> "config open"
      [] f = "hw_inventory"  -> "hw_inventory open"
      [] f = "routing_table" -> "routing_table open"

\* Before the first launch the files are as installed: one template entry in each list.
Init ==
    /\ phase = "down"
    /\ error = "none"
    /\ sensor_params = [i \in SensorSlots |-> Default]
    /\ adapter_params = [j \in AdapterSlots |-> Default]
    /\ preset = FALSE
    /\ m_number_of_sensors = 0
    /\ m_number_of_adapters = 0
    /\ file = [f \in Files |-> Holds(<<Default>>)]
    /\ library = [clients |-> <<>>, hwItems |-> <<>>]
    /\ launches = 0
    /\ unread = {}
    /\ unwritten = {}
    /\ damaged = {}

\* The process starts, with any parameters and with or without a configuration named in
\* its environment; the members have their initial values.
Launch(sensors, adapters, env) ==
    /\ phase \in {"down", "failed"}
    /\ launches < MaxLaunches
    /\ launches' = launches + 1
    /\ phase' = "adapters"
    /\ error' = "none"
    /\ sensor_params' = sensors
    /\ adapter_params' = adapters
    /\ preset' = env
    /\ m_number_of_sensors' = 0
    /\ m_number_of_adapters' = 0
    /\ library' = [clients |-> <<>>, hwItems |-> <<>>]
    /\ unread' = {}
    /\ unwritten' = {}
    /\ UNCHANGED <<file, damaged>>

\* The constructor throws: the launch is over.
Throw(why) ==
    /\ phase' = "failed"
    /\ error' = why

ReadAdapters ==
    /\ phase = "adapters"
    /\ m_number_of_adapters' = NumberRead(adapter_params, AdapterSlots)
    /\ IF m_number_of_adapters' = 0
       THEN Throw("no adapter")
       ELSE phase' = "sensors" /\ UNCHANGED error
    /\ UNCHANGED <<paramVars, m_number_of_sensors, file, library, launches, historyVars>>

ReadSensors ==
    /\ phase = "sensors"
    /\ m_number_of_sensors' = NumberRead(sensor_params, SensorSlots)
    /\ IF m_number_of_sensors' = 0
       THEN Throw("no sensor")
       ELSE phase' = "config" /\ UNCHANGED error
    /\ UNCHANGED <<paramVars, m_number_of_adapters, file, library, launches, historyVars>>

\* The file is missing or cannot be read: the parser is given nothing.
ReadFails(f) ==
    /\ phase = f
    /\ Throw("parse error")
    /\ unread' = unread \cup {f}
    /\ UNCHANGED <<paramVars, countVars, file, library, launches, unwritten, damaged>>

\* The file is parsed, its list checked, and the file opened with std::ios::trunc.
OpenFile(f, next) ==
    /\ phase = f
    /\ IF file[f] = Empty
       THEN Throw("parse error") /\ UNCHANGED file
       ELSE IF file[f] = Holds(<<>>)
       THEN Throw("no template") /\ UNCHANGED file
       ELSE /\ file' = [file EXCEPT ![f] = Empty]
            /\ phase' = next
            /\ UNCHANGED error
    /\ UNCHANGED <<paramVars, countVars, library, launches, historyVars>>

\* The stream cannot be opened for writing: the file stays as an earlier launch left it,
\* and as nothing checks the stream the constructor goes on.
OpenFails(f, next) ==
    /\ phase = f
    /\ file[f] \notin {Empty, Holds(<<>>)}
    /\ unwritten' = unwritten \cup {f}
    /\ phase' = next
    /\ UNCHANGED <<error, paramVars, countVars, file, library, launches, unread, damaged>>

\* The stream is closed: the file holds the list.
CloseFile(f, ids, next) ==
    /\ phase = OpenPhase(f)
    /\ file' = [file EXCEPT ![f] = Holds(ids)]
    /\ phase' = next
    /\ UNCHANGED <<error, paramVars, countVars, library, launches, historyVars>>

\* The list does not get into the file, or not all of it (the disk is full): what is there
\* is no JSON value, and again the constructor goes on.
WriteFails(f, next) ==
    /\ phase = OpenPhase(f)
    /\ unwritten' = unwritten \cup {f}
    /\ damaged' = damaged \cup {f}
    /\ phase' = next
    /\ UNCHANGED <<error, paramVars, countVars, file, library, launches, unread>>

\* One file read, changed and written.
Rewrite(f, ids, next) ==
    \/ ReadFails(f)
    \/ OpenFile(f, OpenPhase(f))
    \/ OpenFails(f, next)
    \/ CloseFile(f, ids, next)
    \/ WriteFails(f, next)

\* smart_access_config.json: only the two serialization types change.
WriteConfig ==
    Rewrite("config", <<Default>>, "hw_inventory")

WriteHwInventory ==
    Rewrite("hw_inventory", Listed(adapter_params, m_number_of_adapters), "routing_table")

\* Variant: the library is initialised before the stream is closed.
WriteRoutingTableLate ==
    OpenFile("routing_table", "init")

WriteRoutingTable ==
    Rewrite("routing_table", Listed(sensor_params, m_number_of_sensors), "init")

Ids(f) == IF file[f] = Empty THEN <<>> ELSE file[f][2]

\* setenv does not override: with the variable set the library reads the files named there,
\* which the model does not have, and else the three just written; or it cannot start.
InitializeServices ==
    /\ phase = "init"
    /\ \/ /\ phase' = "running"
          /\ library' = IF preset
                        THEN library
                        ELSE [clients |-> Ids("routing_table"), hwItems |-> Ids("hw_inventory")]
          /\ UNCHANGED error
       \/ /\ Throw("Communication Service initialization failed")
          /\ UNCHANGED library
    /\ UNCHANGED <<paramVars, countVars, file, launches, historyVars>>

\* The process is stopped or killed, wherever it is.
Stop ==
    /\ phase \notin {"down", "failed"}
    /\ phase' = "down"
    /\ damaged' = damaged \cup {f \in Files : phase = OpenPhase(f)}
    /\ UNCHANGED <<error, paramVars, countVars, file, library, launches, unread, unwritten>>

Construct ==
    \/ ReadAdapters
    \/ ReadSensors
    \/ WriteConfig
    \/ WriteHwInventory
    \/ WriteRoutingTable
    \/ InitializeServices

Next ==
    \/ \E sensors \in [SensorSlots -> SensorIds \cup {Default}],
          adapters \in [AdapterSlots -> AdapterIds \cup {Default}],
          env \in BOOLEAN : Launch(sensors, adapters, env)
    \/ Construct
    \/ Stop

Spec == Init /\ [][Next]_vars
-----------------------------------------------------------------------------

Phases == {"down", "failed", "running", "adapters", "sensors", "config", "config open",
           "hw_inventory", "hw_inventory open", "routing_table", "routing_table open", "init"}

Errors == {"none", "no adapter", "no sensor", "parse error", "no template",
           "Communication Service initialization failed"}

Entries == SensorIds \cup AdapterIds \cup {Default}

\* The members, the files and what the library has read keep their types; no list is
\* longer than the array it is written from.
TypeOK ==
    /\ phase \in Phases
    /\ error \in Errors
    /\ sensor_params \in [SensorSlots -> SensorIds \cup {Default}]
    /\ adapter_params \in [AdapterSlots -> AdapterIds \cup {Default}]
    /\ preset \in BOOLEAN
    /\ m_number_of_sensors \in SensorSlots
    /\ m_number_of_adapters \in AdapterSlots
    /\ DOMAIN file = Files
    /\ \A f \in Files : \/ file[f] = Empty
                        \/ file[f] = Holds(Ids(f)) /\ Ids(f) \in Seq(Entries)
    /\ library \in [clients : Seq(Entries), hwItems : Seq(Entries)]
    /\ launches \in 0..MaxLaunches
    /\ unread \subseteq Files
    /\ unwritten \subseteq Files
    /\ damaged \subseteq Files

\* "The list must start with sensor_0": the entries that are set, up to the first gap.
UpToGap(ids, params) ==
    /\ \A i \in 1..Len(ids) : ids[i] = params[i - 1] /\ ids[i] # Default
    /\ Len(ids) \in DOMAIN params => params[Len(ids)] = Default

\* The library of a running node was configured with the parameters of this launch: not
\* with those of an earlier one, and not with a file an earlier launch left half-written.
\* The two exceptions are the code's: a file this launch failed to write without noticing,
\* and a configuration named in the environment, which setenv leaves in place.
LibraryMatchesParameters ==
    phase = "running" /\ ~preset =>
        /\ "routing_table" \notin unwritten =>
              UpToGap(library.clients, sensor_params) /\ library.clients # <<>>
        /\ "hw_inventory" \notin unwritten =>
              UpToGap(library.hwItems, adapter_params) /\ library.hwItems # <<>>

\* A file is truncated only while it is written, or when that write was cut short, by a
\* kill or by an error: it is closed before anything else is done.  And every list keeps
\* the entry the next launch copies.
FilesStayUsable ==
    \A f \in Files :
        /\ file[f] = Empty => f \in damaged \/ phase = OpenPhase(f)
        /\ file[f] # Holds(<<>>)

\* A launch fails for one of these reasons only.  The second half of the first two is the
\* array whose every slot is used; a damaged file is never repaired by a later launch.
LaunchFailsForAReason ==
    /\ error = "no adapter" => \/ adapter_params[0] = Default
                               \/ \A j \in AdapterSlots : adapter_params[j] # Default
    /\ error = "no sensor" => \/ sensor_params[0] = Default
                              \/ \A i \in SensorSlots : sensor_params[i] # Default
    /\ error = "parse error" => unread # {} \/ \E f \in damaged : file[f] = Empty
    /\ error # "no template"

\* "As many as 10 sensors": no launch that configures a sensor_0 is told that at least
\* one sensor must be configured.
ConfiguredSensorsAreSeen ==
    error = "no sensor" => sensor_params[0] = Default
=============================================================================
