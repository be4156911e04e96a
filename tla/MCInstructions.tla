---------------------------- MODULE MCInstructions ----------------------------
(* Requests for the runs of Instructions, with 2, 3, 4 and 5 bits for the    *)
(* integer types and 3 for the mantissa of a float: every conversion alone,  *)
(* and short lists of each service.                                          *)
EXTENDS Instructions

Text(form, n) == [form |-> form, n |-> n]
Entry(type, value) == [type |-> type, value |-> value]

\* The ways a value may be written, with numbers below, at and above each bound: for the
\* integers those of their types, for the floats those that are rounded down, up, to the
\* even mantissa and beyond the largest.
Written(numbers) == {Text("number", n) : n \in numbers}
                    \cup {Text("dotted", 1), Text("trailing", 2), Text("junk", 0)}

Whole == Written({-32, -31, -1, 0, 3, 4, 7, 8, 15, 16, 31, 32})
Float == Written({-31, -9, 0, 8, 9, 11, 21, 29, 32})

Ask(service, id, section, length, entries) ==
    [service |-> service, sensor_id |-> id, section_known |-> section, same_length |-> length,
     entries |-> entries]

\* Every type with its values; a fifth type is in Lists.
Conversions ==
    {Ask("set_radar_mode", 100, TRUE, TRUE, <<Entry(0, value)>>) : value \in Float}
    \cup {Ask("set_radar_mode", 100, TRUE, TRUE, <<Entry(type, value)>>) :
             type \in 1..3, value \in Whole}

\* Lists of two, good and bad, of each service; two sensors, an unknown one, and 0.
Lists ==
    LET good == Entry(0, Text("number", 3))
        bad == Entry(4, Text("number", 3))
        wide == Entry(1, Text("number", 16))
    IN  {Ask("set_radar_mode", 100, TRUE, TRUE, e) : e \in {<<good, bad>>, <<good, wide>>, <<>>}}
        \cup {Ask("get_radar_mode", 200, TRUE, TRUE, e) :
                e \in {<<good, wide>>, <<bad, good>>}}
        \cup {Ask("get_radar_status", 0, TRUE, TRUE, <<good, Entry(3, Text("number", 0))>>)}
        \cup {Ask("set_ip_address", 100, TRUE, TRUE, <<wide>>),
              Ask("send_command", 200, TRUE, TRUE, <<good>>),
              Ask("send_command", 999, TRUE, TRUE, <<good>>),
              Ask("send_command", 200, FALSE, TRUE, <<good>>),
              Ask("get_radar_status", 200, TRUE, FALSE, <<good>>)}

ListsAndConversions == Lists \cup Conversions
=============================================================================
