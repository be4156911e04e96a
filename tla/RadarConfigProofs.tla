-------------------------- MODULE RadarConfigProofs --------------------------
(***************************************************************************)
(* Proofs about RadarConfig, for any number of slots, sensors, adapters and *)
(* launches.  What holds between the steps of the constructor: the counts   *)
(* are those of the parameters once they were read (Counted), the files     *)
(* already written hold the lists of this launch unless the write failed    *)
(* (Written), and a file is truncated only while it is written or after a   *)
(* write that was cut short.                                                *)
(***************************************************************************)
EXTENDS RadarConfig, WellFoundedInduction, TLAPS

\* n entries are set and the one after them is not.
Counted(params, n) ==
    /\ n # 0
    /\ \A i \in 0..(n - 1) : params[i] # Default
    /\ params[n] = Default

Writing == {"config", "config open", "hw_inventory", "hw_inventory open", "routing_table",
            "routing_table open", "init"}

CountsRead ==
    /\ phase \in Writing \cup {"sensors"} => Counted(adapter_params, m_number_of_adapters)
    /\ phase \in Writing => Counted(sensor_params, m_number_of_sensors)

Written ==
    /\ phase \in {"routing_table", "routing_table open", "init"} =>
          \/ "hw_inventory" \in unwritten
          \/ file["hw_inventory"] = Holds(Listed(adapter_params, m_number_of_adapters))
    /\ phase = "init" =>
          \/ "routing_table" \in unwritten
          \/ file["routing_table"] = Holds(Listed(sensor_params, m_number_of_sensors))

IInv ==
    /\ TypeOK
    /\ CountsRead
    /\ Written
    /\ phase # "failed" => error = "none"
    /\ LibraryMatchesParameters
    /\ FilesStayUsable
    /\ LaunchFailsForAReason

-----------------------------------------------------------------------------
(* Lists and files.                                                         *)

LEMMA EmptyIsNoList == \A s : Empty # Holds(s)
BY DEF Empty, Holds

LEMMA HoldsIsInjective == \A s, t : Holds(s) = Holds(t) => s = t
BY DEF Holds

LEMMA ListedProperties ==
    ASSUME NEW params, NEW n \in Nat, NEW S, \A i \in 0..(n - 1) : params[i] \in S
    PROVE  /\ Listed(params, n) \in Seq(S)
           /\ Len(Listed(params, n)) = n
           /\ \A i \in 1..n : Listed(params, n)[i] = params[i - 1]
<1>1. \A i \in 1..n : i - 1 \in 0..(n - 1)
  OBVIOUS
<1>2. Listed(params, n) \in [1..n -> S]
  BY <1>1 DEF Listed
<1>. QED
  BY <1>2 DEF Listed

\* A set of natural numbers that is not empty has a least element.
LEMMA LeastElement ==
    ASSUME NEW T \in SUBSET Nat, T # {}
    PROVE  \E i \in T : \A j \in T : i <= j
<1>1. PICK i \in T : \A j \in T : ~(<<j, i>> \in OpToRel(<, Nat))
  BY NatLessThanWellFounded, WFMin, Zenon
<1>2. \A j \in T : ~(j < i)
  BY <1>1 DEF OpToRel
<1>. QED
  BY <1>2

\* The reading loop counts the entries up to the first gap, or finds nothing.
LEMMA NumberReadCounts ==
    ASSUME NEW n \in Nat \ {0}, NEW params
    PROVE  LET slots == 0..(n - 1)
               m == NumberRead(params, slots)
           IN  /\ m \in slots
               /\ m # 0 => Counted(params, m)
               /\ m = 0 => \/ params[0] = Default
                           \/ \A i \in slots : params[i] # Default
<1>. DEFINE slots == 0..(n - 1)
            unset == {i \in slots : params[i] = Default}
            m == NumberRead(params, slots)
<1>. SUFFICES /\ m \in slots
              /\ m # 0 => Counted(params, m)
              /\ m = 0 => \/ params[0] = Default
                          \/ \A i \in slots : params[i] # Default
  OBVIOUS
<1>1. CASE unset = {}
  <2>1. m = 0
    BY <1>1 DEF NumberRead
  <2>2. 0 \in slots
    OBVIOUS
  <2>. HIDE DEF m
  <2>. QED
    BY <1>1, <2>1, <2>2
<1>2. CASE unset # {}
  <2>1. m = CHOOSE i \in unset : \A j \in unset : i <= j
    BY <1>2 DEF NumberRead
  <2>2. \E i \in unset : \A j \in unset : i <= j
    <3>1. unset \in SUBSET Nat
      OBVIOUS
    <3>. QED
      BY <3>1, <1>2, LeastElement, Zenon
  <2>3. m \in unset /\ \A j \in unset : m <= j
    BY <2>1, <2>2
  <2>. HIDE DEF m
  <2>4. \A i \in 0..(m - 1) : i \in slots /\ i \notin unset
    BY <2>3
  <2>5. m # 0 => Counted(params, m)
    BY <2>3, <2>4 DEF Counted
  <2>6. m = 0 => params[0] = Default
    BY <2>3
  <2>. QED
    BY <2>3, <2>5, <2>6
<1>. QED
  BY <1>1, <1>2
-----------------------------------------------------------------------------
(* The invariant is inductive.                                              *)

LEMMA InitIInv == Init => IInv
<1>. SUFFICES ASSUME Init PROVE IInv
  OBVIOUS
<1>. USE ConfigAssumption
<1>1. \A f \in Files : /\ file[f] = Holds(<<Default>>)
                       /\ file[f] # Empty
                       /\ Ids(f) = <<Default>>
  BY DEF Init, Ids, Empty, Holds
<1>2. <<Default>> \in Seq(Entries) /\ <<Default>> # <<>>
  BY DEF Entries
<1>3. <<>> \in Seq(Entries)
  OBVIOUS
<1>4. library \in [clients : Seq(Entries), hwItems : Seq(Entries)]
  BY <1>3 DEF Init
<1>5. 0 \in SensorSlots /\ 0 \in AdapterSlots
  BY DEF SensorSlots, AdapterSlots
<1>6. TypeOK
  BY <1>1, <1>2, <1>4, <1>5 DEF Init, TypeOK, Phases, Errors
<1>7. FilesStayUsable
  BY <1>1, <1>2, HoldsIsInjective DEF FilesStayUsable
<1>. QED
  BY <1>6, <1>7 DEF Init, IInv, CountsRead, Written, Writing, LibraryMatchesParameters,
                    LaunchFailsForAReason

\* The steps that leave the files alone keep their part of the invariant.
LEMMA SameFiles ==
    ASSUME FilesStayUsable, UNCHANGED <<file, damaged>>,
           phase \in {"config open", "hw_inventory open", "routing_table open"} => phase' = phase
    PROVE  FilesStayUsable'
BY DEF FilesStayUsable, OpenPhase, Files

LEMMA SameFileTypes ==
    ASSUME TypeOK, UNCHANGED file
    PROVE  /\ (DOMAIN file = Files)'
           /\ \A f \in Files : \/ file'[f] = Empty
                               \/ file'[f] = Holds(Ids(f)') /\ Ids(f)' \in Seq(Entries)
BY DEF TypeOK, Ids

LEMMA LaunchIInv ==
    ASSUME IInv, NEW sensors \in [SensorSlots -> SensorIds \cup {Default}],
           NEW adapters \in [AdapterSlots -> AdapterIds \cup {Default}],
           NEW env \in BOOLEAN, Launch(sensors, adapters, env)
    PROVE  IInv'
<1>. USE ConfigAssumption
<1>1. <<>> \in Seq(Entries)
  OBVIOUS
<1>2. library' \in [clients : Seq(Entries), hwItems : Seq(Entries)]
  BY <1>1 DEF Launch
<1>3. 0 \in SensorSlots /\ 0 \in AdapterSlots
  BY DEF SensorSlots, AdapterSlots
<1>4. TypeOK'
  <2>1. UNCHANGED file /\ TypeOK
    BY DEF IInv, Launch
  <2>2. launches' \in 0..MaxLaunches
    BY DEF IInv, TypeOK, Launch
  <2>3. phase' \in Phases /\ error' \in Errors
    BY DEF Launch, Phases, Errors
  <2>. QED
    BY <1>2, <1>3, <2>1, <2>2, <2>3, SameFileTypes DEF TypeOK, Launch
<1>5. FilesStayUsable'
  BY SameFiles DEF IInv, Launch
<1>6. (CountsRead /\ Written)'
  BY DEF Launch, CountsRead, Written, Writing
<1>. QED
  BY <1>4, <1>5, <1>6 DEF IInv, Launch, LibraryMatchesParameters, LaunchFailsForAReason

LEMMA ReadAdaptersIInv == IInv /\ ReadAdapters => IInv'
<1>. SUFFICES ASSUME IInv, ReadAdapters PROVE IInv'
  OBVIOUS
<1>1. /\ m_number_of_adapters' \in AdapterSlots
      /\ m_number_of_adapters' # 0 => Counted(adapter_params, m_number_of_adapters')
      /\ m_number_of_adapters' = 0 => \/ adapter_params[0] = Default
                                      \/ \A j \in AdapterSlots : adapter_params[j] # Default
  BY NumberReadCounts, ConfigAssumption DEF ReadAdapters, AdapterSlots
<1>2. TypeOK'
  BY <1>1, SameFileTypes DEF IInv, TypeOK, paramVars, historyVars, ReadAdapters, Throw, Phases,
                                Errors
<1>3. FilesStayUsable'
  BY SameFiles DEF IInv, ReadAdapters, historyVars
<1>4. (CountsRead /\ Written)'
  BY <1>1 DEF IInv, ReadAdapters, Throw, paramVars, historyVars, CountsRead, Written, Writing
<1>5. LaunchFailsForAReason'
  BY <1>1 DEF IInv, ReadAdapters, Throw, paramVars, historyVars, LaunchFailsForAReason
<1>. QED
  BY <1>2, <1>3, <1>4, <1>5
  DEF IInv, ReadAdapters, Throw, paramVars, historyVars, LibraryMatchesParameters

LEMMA ReadSensorsIInv == IInv /\ ReadSensors => IInv'
<1>. SUFFICES ASSUME IInv, ReadSensors PROVE IInv'
  OBVIOUS
<1>1. /\ m_number_of_sensors' \in SensorSlots
      /\ m_number_of_sensors' # 0 => Counted(sensor_params, m_number_of_sensors')
      /\ m_number_of_sensors' = 0 => \/ sensor_params[0] = Default
                                     \/ \A i \in SensorSlots : sensor_params[i] # Default
  BY NumberReadCounts, ConfigAssumption DEF ReadSensors, SensorSlots
<1>2. TypeOK'
  BY <1>1, SameFileTypes DEF IInv, TypeOK, paramVars, historyVars, ReadSensors, Throw, Phases,
                                Errors
<1>3. FilesStayUsable'
  BY SameFiles DEF IInv, ReadSensors, historyVars
<1>4. (CountsRead /\ Written)'
  BY <1>1 DEF IInv, ReadSensors, Throw, paramVars, historyVars, CountsRead, Written, Writing
<1>5. LaunchFailsForAReason'
  BY <1>1 DEF IInv, ReadSensors, Throw, paramVars, historyVars, LaunchFailsForAReason
<1>. QED
  BY <1>2, <1>3, <1>4, <1>5
  DEF IInv, ReadSensors, Throw, paramVars, historyVars, LibraryMatchesParameters

\* The steps that give a file up.
LEMMA ReadFailsIInv ==
    ASSUME IInv, NEW f \in Files, ReadFails(f)
    PROVE  IInv'
<1>1. /\ phase = f /\ f \in Writing
      /\ phase' = "failed" /\ error' = "parse error"
      /\ unread' = unread \cup {f}
      /\ UNCHANGED <<paramVars, countVars, file, library, launches, unwritten, damaged>>
  BY DEF ReadFails, Throw, Files, Writing
<1>2. TypeOK'
  BY <1>1, SameFileTypes DEF IInv, TypeOK, paramVars, countVars, Phases, Errors
<1>3. FilesStayUsable'
  BY <1>1, SameFiles DEF IInv, Files
<1>. QED
  BY <1>1, <1>2, <1>3
  DEF IInv, CountsRead, Written, Writing, LibraryMatchesParameters, LaunchFailsForAReason

\* What a step that opens a file does to it, and what it leaves alone.
LEMMA OpenFileIInv ==
    ASSUME IInv, NEW f \in Files, OpenFile(f, OpenPhase(f))
    PROVE  IInv'
<1>. DEFINE next == OpenPhase(f)
<1>1. phase = f /\ f \in Writing /\ next \in Writing \cap Phases /\ f # next
  BY DEF OpenFile, Files, Writing, Phases, OpenPhase
<1>2. UNCHANGED <<paramVars, countVars, library, launches, historyVars>>
  BY DEF OpenFile
<1>3. CASE file[f] = Empty \/ file[f] = Holds(<<>>)
  <2>1. phase' = "failed" /\ UNCHANGED file
    BY <1>3 DEF OpenFile, Throw
  <2>2. file[f] # Holds(<<>>) /\ (file[f] = Empty => f \in damaged)
    BY <1>1 DEF IInv, FilesStayUsable
  <2>3. error' = "parse error" /\ file[f] = Empty /\ f \in damaged
    BY <1>3, <2>2 DEF OpenFile, Throw
  <2>4. TypeOK'
    BY <2>1, <2>3, <1>2, SameFileTypes
    DEF IInv, TypeOK, paramVars, countVars, historyVars, Phases, Errors
  <2>5. FilesStayUsable'
    BY <1>1, <2>1, <1>2, SameFiles DEF IInv, Files, historyVars
  <2>6. LaunchFailsForAReason'
    BY <1>2, <2>1, <2>3 DEF LaunchFailsForAReason, historyVars
  <2>. QED
    BY <1>2, <2>1, <2>4, <2>5, <2>6
    DEF IInv, CountsRead, Written, Writing, LibraryMatchesParameters
<1>4. CASE file[f] # Empty /\ file[f] # Holds(<<>>)
  <2>1. file' = [file EXCEPT ![f] = Empty] /\ phase' = next /\ error' = error
    BY <1>4 DEF OpenFile
  <2>2. file'[f] = Empty /\ \A g \in Files \ {f} : file'[g] = file[g]
    BY <2>1 DEF IInv, TypeOK
  <2>3. \A g \in Files : \/ file'[g] = Empty
                         \/ file'[g] = Holds(Ids(g)') /\ Ids(g)' \in Seq(Entries)
    BY <2>2 DEF IInv, TypeOK, Ids
  <2>4. TypeOK'
    BY <1>1, <1>2, <2>1, <2>3 DEF IInv, TypeOK, paramVars, countVars, historyVars
  <2>5. FilesStayUsable'
    BY <1>1, <1>2, <2>1, <2>2, EmptyIsNoList
    DEF IInv, FilesStayUsable, OpenPhase, Files, historyVars
  <2>6. Written'
    BY <1>1, <1>2, <2>1, <2>2
    DEF IInv, Written, paramVars, countVars, historyVars, OpenPhase, Files
  <2>7. CountsRead'
    BY <1>1, <1>2, <2>1 DEF IInv, CountsRead, paramVars, countVars, Writing, Files
  <2>8. error' = "none" /\ phase' # "running" /\ phase' # "failed"
    BY <1>1, <2>1 DEF IInv, Writing
  <2>. QED
    BY <2>4, <2>5, <2>6, <2>7, <2>8 DEF IInv, LibraryMatchesParameters, LaunchFailsForAReason
<1>. QED
  BY <1>3, <1>4

\* The step that follows the one at which a file is read or written.
After(f) ==
    CASE f = "config"        -> "hw_inventory"
      [] f = "hw_inventory"  -> "routing_table"
      [] f = "routing_table" -> "init"

\* The list the constructor has for a file.
ListFor(f) ==
    CASE f = "config"        -> <<Default>>
      [] f = "hw_inventory"  -> Listed(adapter_params, m_number_of_adapters)
      [] f = "routing_table" -> Listed(sensor_params, m_number_of_sensors)

LEMMA OpenFailsIInv ==
    ASSUME IInv, NEW f \in Files, OpenFails(f, After(f))
    PROVE  IInv'
<1>1. /\ phase = f /\ f \in Writing /\ After(f) \in Writing \cap Phases
      /\ After(f) \notin {"config open", "hw_inventory open", "routing_table open"}
  BY DEF OpenFails, Files, Writing, Phases, After
<1>2. /\ phase' = After(f)
      /\ unwritten' = unwritten \cup {f}
      /\ UNCHANGED <<error, paramVars, countVars, file, library, launches, unread, damaged>>
  BY DEF OpenFails
<1>3. TypeOK'
  BY <1>1, <1>2, SameFileTypes DEF IInv, TypeOK, paramVars, countVars
<1>4. FilesStayUsable'
  BY <1>1, <1>2, SameFiles DEF IInv, Files
<1>5. Written'
  BY <1>1, <1>2 DEF IInv, Written, paramVars, countVars, After, Files
<1>6. CountsRead'
  BY <1>1, <1>2 DEF IInv, CountsRead, paramVars, countVars, Writing
<1>7. error' = "none" /\ phase' # "running" /\ phase' # "failed"
  BY <1>1, <1>2 DEF IInv, Writing
<1>. QED
  BY <1>3, <1>4, <1>5, <1>6, <1>7 DEF IInv, LibraryMatchesParameters, LaunchFailsForAReason

LEMMA CloseFileIInv ==
    ASSUME IInv, NEW f \in Files, CloseFile(f, ListFor(f), After(f)),
           ListFor(f) \in Seq(Entries), ListFor(f) # <<>>
    PROVE  IInv'
<1>. DEFINE ids == ListFor(f)
<1>1. /\ phase = OpenPhase(f) /\ phase \in Writing /\ After(f) \in Writing \cap Phases
      /\ After(f) \notin {"config open", "hw_inventory open", "routing_table open"}
  BY DEF CloseFile, OpenPhase, Files, Writing, Phases, After
<1>2. /\ file' = [file EXCEPT ![f] = Holds(ids)] /\ phase' = After(f)
      /\ UNCHANGED <<error, paramVars, countVars, library, launches, historyVars>>
  BY DEF CloseFile
<1>3. file'[f] = Holds(ids) /\ \A g \in Files \ {f} : file'[g] = file[g]
  BY <1>2 DEF IInv, TypeOK
<1>4. Holds(ids)[2] = ids
  BY DEF Holds
<1>5. \A g \in Files : \/ file'[g] = Empty
                       \/ file'[g] = Holds(Ids(g)') /\ Ids(g)' \in Seq(Entries)
  <2>1. Ids(f)' = ids
    BY <1>3, <1>4, EmptyIsNoList DEF Ids
  <2>2. \A g \in Files \ {f} : Ids(g)' = Ids(g)
    BY <1>3 DEF Ids
  <2>. QED
    BY <1>3, <2>1, <2>2 DEF IInv, TypeOK
<1>6. TypeOK'
  BY <1>1, <1>2, <1>5 DEF IInv, TypeOK, paramVars, countVars, historyVars
<1>7. FilesStayUsable'
  <2>1. file'[f] # Empty /\ file'[f] # Holds(<<>>)
    BY <1>3, EmptyIsNoList, HoldsIsInjective
  <2>2. \A g \in Files \ {f} : OpenPhase(g) # OpenPhase(f)
    BY DEF OpenPhase, Files
  <2>3. \A g \in Files \ {f} : (file[g] = Empty => g \in damaged) /\ file[g] # Holds(<<>>)
    BY <1>1, <2>2 DEF IInv, FilesStayUsable
  <2>. QED
    BY <1>2, <1>3, <2>1, <2>3 DEF FilesStayUsable, historyVars
<1>8. Written'
  BY <1>1, <1>2, <1>3
  DEF IInv, Written, paramVars, countVars, historyVars, OpenPhase, After, ListFor, Files
<1>9. CountsRead'
  BY <1>1, <1>2 DEF IInv, CountsRead, paramVars, countVars, Writing
<1>10. error' = "none" /\ phase' # "running" /\ phase' # "failed"
  BY <1>1, <1>2 DEF IInv, Writing
<1>. QED
  BY <1>6, <1>7, <1>8, <1>9, <1>10 DEF IInv, LibraryMatchesParameters, LaunchFailsForAReason

LEMMA WriteFailsIInv ==
    ASSUME IInv, NEW f \in Files, WriteFails(f, After(f))
    PROVE  IInv'
<1>1. /\ phase = OpenPhase(f) /\ phase \in Writing /\ After(f) \in Writing \cap Phases
      /\ After(f) \notin {"config open", "hw_inventory open", "routing_table open"}
  BY DEF WriteFails, OpenPhase, Files, Writing, Phases, After
<1>2. /\ phase' = After(f)
      /\ unwritten' = unwritten \cup {f} /\ damaged' = damaged \cup {f}
      /\ UNCHANGED <<error, paramVars, countVars, file, library, launches, unread>>
  BY DEF WriteFails
<1>3. TypeOK'
  BY <1>1, <1>2, SameFileTypes DEF IInv, TypeOK, paramVars, countVars
<1>4. FilesStayUsable'
  <2>1. \A g \in Files \ {f} : OpenPhase(g) # OpenPhase(f)
    BY DEF OpenPhase, Files
  <2>. QED
    BY <1>1, <1>2, <2>1 DEF IInv, FilesStayUsable
<1>5. Written'
  BY <1>1, <1>2 DEF IInv, Written, paramVars, countVars, OpenPhase, After, Files
<1>6. CountsRead'
  BY <1>1, <1>2 DEF IInv, CountsRead, paramVars, countVars, Writing
<1>7. error' = "none" /\ phase' # "running" /\ phase' # "failed"
  BY <1>1, <1>2 DEF IInv, Writing
<1>. QED
  BY <1>3, <1>4, <1>5, <1>6, <1>7 DEF IInv, LibraryMatchesParameters, LaunchFailsForAReason

LEMMA WiderSequences ==
    ASSUME NEW s
    PROVE  s \in Seq(SensorIds) \/ s \in Seq(AdapterIds) => s \in Seq(Entries)
BY DEF Entries

\* The lists written are those counted, and hold one entry at least.
LEMMA CountedLists ==
    ASSUME IInv
    PROVE  /\ phase \in Writing =>
                /\ Listed(sensor_params, m_number_of_sensors) \in Seq(SensorIds)
                /\ Listed(sensor_params, m_number_of_sensors) # <<>>
                /\ UpToGap(Listed(sensor_params, m_number_of_sensors), sensor_params)
           /\ phase \in Writing \cup {"sensors"} =>
                /\ Listed(adapter_params, m_number_of_adapters) \in Seq(AdapterIds)
                /\ Listed(adapter_params, m_number_of_adapters) # <<>>
                /\ UpToGap(Listed(adapter_params, m_number_of_adapters), adapter_params)
<1>1. ASSUME NEW N \in Nat \ {0}, NEW S, NEW n \in 0..(N - 1),
             NEW params \in [0..(N - 1) -> S \cup {Default}], Counted(params, n)
      PROVE  /\ Listed(params, n) \in Seq(S)
             /\ Listed(params, n) # <<>>
             /\ UpToGap(Listed(params, n), params)
  <2>1. n \in Nat /\ \A i \in 0..(n - 1) : params[i] \in S /\ params[i] # Default
    BY <1>1 DEF Counted
  <2>2. /\ Listed(params, n) \in Seq(S)
        /\ Len(Listed(params, n)) = n
        /\ \A i \in 1..n : Listed(params, n)[i] = params[i - 1]
    BY <2>1, ListedProperties
  <2>3. n # 0 /\ params[n] = Default
    BY <1>1 DEF Counted
  <2>4. \A i \in 1..n : Listed(params, n)[i] # Default
    BY <2>1, <2>2
  <2>. QED
    BY <2>2, <2>3, <2>4 DEF UpToGap
<1>2. phase \in Writing => Counted(sensor_params, m_number_of_sensors)
  BY DEF IInv, CountsRead
<1>3. phase \in Writing \cup {"sensors"} => Counted(adapter_params, m_number_of_adapters)
  BY DEF IInv, CountsRead
<1>4. /\ sensor_params \in [SensorSlots -> SensorIds \cup {Default}]
      /\ adapter_params \in [AdapterSlots -> AdapterIds \cup {Default}]
      /\ m_number_of_sensors \in SensorSlots
      /\ m_number_of_adapters \in AdapterSlots
  BY DEF IInv, TypeOK
<1>5. MaxSensors \in Nat \ {0} /\ MaxAdapters \in Nat \ {0}
  BY ConfigAssumption
<1>. QED
  BY <1>1, <1>2, <1>3, <1>4, <1>5 DEF SensorSlots, AdapterSlots

LEMMA RewriteIInv ==
    ASSUME IInv, NEW f \in Files, Rewrite(f, ListFor(f), After(f))
    PROVE  IInv'
<1>1. ASSUME CloseFile(f, ListFor(f), After(f)) PROVE IInv'
  <2>1. phase \in Writing
    BY <1>1 DEF CloseFile, OpenPhase, Files, Writing
  <2>2. ListFor(f) \in Seq(Entries) /\ ListFor(f) # <<>>
    <3>1. CASE f = "config"
      BY <3>1 DEF ListFor, Entries
    <3>2. CASE f = "hw_inventory"
      <4>1. /\ Listed(adapter_params, m_number_of_adapters) \in Seq(AdapterIds)
            /\ Listed(adapter_params, m_number_of_adapters) # <<>>
        BY <2>1, CountedLists
      <4>. QED
        BY <3>2, <4>1, WiderSequences DEF ListFor
    <3>3. CASE f = "routing_table"
      <4>1. /\ Listed(sensor_params, m_number_of_sensors) \in Seq(SensorIds)
            /\ Listed(sensor_params, m_number_of_sensors) # <<>>
        BY <2>1, CountedLists
      <4>. QED
        BY <3>3, <4>1, WiderSequences DEF ListFor
    <3>. QED
      BY <3>1, <3>2, <3>3 DEF Files
  <2>. QED
    BY <1>1, <2>2, CloseFileIInv
<1>. QED
  BY <1>1, ReadFailsIInv, OpenFileIInv, OpenFailsIInv, WriteFailsIInv DEF Rewrite

LEMMA WriteIInv == IInv /\ (WriteConfig \/ WriteHwInventory \/ WriteRoutingTable) => IInv'
<1>. SUFFICES ASSUME IInv, WriteConfig \/ WriteHwInventory \/ WriteRoutingTable
              PROVE  IInv'
  OBVIOUS
<1>1. \E f \in Files : Rewrite(f, ListFor(f), After(f))
  <2>1. /\ ListFor("config") = <<Default>> /\ After("config") = "hw_inventory"
        /\ ListFor("hw_inventory") = Listed(adapter_params, m_number_of_adapters)
        /\ After("hw_inventory") = "routing_table"
        /\ ListFor("routing_table") = Listed(sensor_params, m_number_of_sensors)
        /\ After("routing_table") = "init"
    BY DEF ListFor, After
  <2>2. {"config", "hw_inventory", "routing_table"} = Files
    BY DEF Files
  <2>. QED
    BY <2>1, <2>2 DEF WriteConfig, WriteHwInventory, WriteRoutingTable
<1>. QED
  BY <1>1, RewriteIInv

LEMMA InitializeServicesIInv == IInv /\ InitializeServices => IInv'
<1>. SUFFICES ASSUME IInv, InitializeServices PROVE IInv'
  OBVIOUS
<1>1. phase = "init" /\ phase \in Writing /\ error = "none"
  BY DEF IInv, InitializeServices, Writing
<1>2. Ids("hw_inventory") \in Seq(Entries) /\ Ids("routing_table") \in Seq(Entries)
  BY DEF IInv, TypeOK, Ids, Files
<1>3. /\ "hw_inventory" \notin unwritten =>
            Ids("hw_inventory") = Listed(adapter_params, m_number_of_adapters)
      /\ "routing_table" \notin unwritten =>
            Ids("routing_table") = Listed(sensor_params, m_number_of_sensors)
  <2>1. /\ "hw_inventory" \notin unwritten =>
              file["hw_inventory"] = Holds(Listed(adapter_params, m_number_of_adapters))
        /\ "routing_table" \notin unwritten =>
              file["routing_table"] = Holds(Listed(sensor_params, m_number_of_sensors))
    BY <1>1 DEF IInv, Written
  <2>2. \A s : Holds(s)[2] = s
    BY DEF Holds
  <2>. QED
    BY <2>1, <2>2, EmptyIsNoList DEF Ids
<1>4. /\ "routing_table" \notin unwritten =>
            UpToGap(Ids("routing_table"), sensor_params) /\ Ids("routing_table") # <<>>
      /\ "hw_inventory" \notin unwritten =>
            UpToGap(Ids("hw_inventory"), adapter_params) /\ Ids("hw_inventory") # <<>>
  BY <1>1, <1>3, CountedLists
<1>5. UNCHANGED <<paramVars, countVars, file, launches, historyVars>>
  BY DEF InitializeServices
<1>6. \/ /\ phase' = "running" /\ error' = "none"
         /\ library' = IF preset
                       THEN library
                       ELSE [clients |-> Ids("routing_table"), hwItems |-> Ids("hw_inventory")]
      \/ /\ phase' = "failed" /\ error' = "Communication Service initialization failed"
         /\ library' = library
  BY <1>1 DEF InitializeServices, Throw
<1>7. library' \in [clients : Seq(Entries), hwItems : Seq(Entries)]
  <2>1. \/ library' = [clients |-> Ids("routing_table"), hwItems |-> Ids("hw_inventory")]
        \/ library' = library
    BY <1>6
  <2>2. library \in [clients : Seq(Entries), hwItems : Seq(Entries)]
    BY DEF IInv, TypeOK
  <2>. QED
    BY <1>2, <2>1, <2>2
<1>8. TypeOK'
  BY <1>5, <1>6, <1>7, SameFileTypes
  DEF IInv, TypeOK, paramVars, countVars, historyVars, Phases, Errors
<1>9. FilesStayUsable'
  BY <1>1, <1>5, SameFiles DEF IInv, historyVars
<1>10. LibraryMatchesParameters'
  <2>1. CASE phase' = "running" /\ ~preset
    <3>1. /\ library'.clients = Ids("routing_table")
          /\ library'.hwItems = Ids("hw_inventory")
      BY <1>6, <2>1
    <3>2. unwritten' = unwritten /\ sensor_params' = sensor_params
          /\ adapter_params' = adapter_params
      BY <1>5 DEF paramVars, historyVars
    <3>. QED
      BY <1>4, <3>1, <3>2 DEF LibraryMatchesParameters, UpToGap
  <2>2. CASE ~(phase' = "running" /\ ~preset)
    BY <1>5, <2>2 DEF LibraryMatchesParameters, paramVars
  <2>. QED
    BY <2>1, <2>2
<1>11. LaunchFailsForAReason'
  BY <1>6 DEF LaunchFailsForAReason
<1>12. (CountsRead /\ Written)'
  BY <1>6 DEF CountsRead, Written, Writing
<1>. QED
  BY <1>6, <1>8, <1>9, <1>10, <1>11, <1>12 DEF IInv

LEMMA StopIInv == IInv /\ Stop => IInv'
<1>. SUFFICES ASSUME IInv, Stop PROVE IInv'
  OBVIOUS
<1>1. TypeOK'
  BY SameFileTypes DEF IInv, TypeOK, Stop, paramVars, countVars, Phases
<1>2. FilesStayUsable'
  BY DEF IInv, FilesStayUsable, Stop
<1>. QED
  BY <1>1, <1>2 DEF IInv, Stop, CountsRead, Written, Writing, LibraryMatchesParameters,
                    LaunchFailsForAReason

LEMMA StepIInv == IInv /\ [Next]_vars => IInv'
<1>. SUFFICES ASSUME IInv, [Next]_vars PROVE IInv'
  OBVIOUS
<1>1. ASSUME UNCHANGED vars PROVE IInv'
  <2>1. TypeOK'
    BY <1>1, SameFileTypes DEF IInv, TypeOK, vars, paramVars, countVars, historyVars
  <2>2. FilesStayUsable'
    BY <1>1, SameFiles DEF IInv, vars, historyVars
  <2>. QED
    BY <1>1, <2>1, <2>2 DEF IInv, vars, paramVars, countVars, historyVars, CountsRead, Written,
                            LibraryMatchesParameters, LaunchFailsForAReason, Counted
<1>. QED
  BY <1>1, LaunchIInv, ReadAdaptersIInv, ReadSensorsIInv, WriteIInv, InitializeServicesIInv,
     StopIInv
  DEF Next, Construct

-----------------------------------------------------------------------------

\* Whatever the parameters of the launches are and wherever they are killed, the
\* inductive invariant of the start of the node holds.
THEOREM ConfigInvariance == Spec => []IInv
BY InitIInv, StepIInv, PTL DEF Spec

\* The members, the files and what the library has read keep their types, and no list
\* is longer than the array it is written from.
THEOREM ConfigTypeCorrect == Spec => []TypeOK
<1>1. IInv => TypeOK
  BY DEF IInv
<1>. QED
  BY <1>1, ConfigInvariance, PTL

\* A node that runs has a library that was configured with the parameters of its own
\* launch, but for a file whose write failed unnoticed or a configuration named in the
\* environment: for any number of slots and after any launches before it.
THEOREM LibraryAgrees == Spec => []LibraryMatchesParameters
<1>1. IInv => LibraryMatchesParameters
  BY DEF IInv
<1>. QED
  BY <1>1, ConfigInvariance, PTL

\* Only a write under way, or one cut short by a kill or an error, leaves a file without
\* a JSON value, and no list loses the entry that the next launch copies.
THEOREM FilesUsable == Spec => []FilesStayUsable
<1>1. IInv => FilesStayUsable
  BY DEF IInv
<1>. QED
  BY <1>1, ConfigInvariance, PTL

\* A launch fails for the reasons stated and for no other.
THEOREM FailuresHaveReasons == Spec => []LaunchFailsForAReason
<1>1. IInv => LaunchFailsForAReason
  BY DEF IInv
<1>. QED
  BY <1>1, ConfigInvariance, PTL
=============================================================================
