----------------------------- MODULE ServicePanel -----------------------------
(***************************************************************************)
(* The panel for the sensor services (smart_services.cpp).  Three tabs, for *)
(* parameters, commands and status values, each with a table filled from    *)
(* the files of a sensor model, input fields and a button that calls a      *)
(* service.  The slot of the button waits for the service, then for the     *)
(* response, with the panel's node spun on Qt's thread: nothing else of     *)
(* RViz runs meanwhile.  The tabs share only the menu of models and the     *)
(* text below; the module follows one tab, any of them.                     *)
(*                                                                         *)
(*   call: out -> checking -> sending -> blocked -> out                     *)
(***************************************************************************)
EXTENDS Naturals, Sequences, RadarServices, UserInterface, InstructionTypes

CONSTANTS Models,     \* the models in the menu
          RowType,    \* the type in a row of a model's table, as the panel reads it
          MaxCalls    \* bound of the model: requests sent

VARIABLES tab,        \* the tab the user works with
          table,      \* the model whose instructions the table lists, or "none"
          fields,     \* the model from whose table name and section are, "typed", or "none"
          valueType,  \* the index of the combo box of types
          edited,     \* history: the user changed a field by hand since the last pick
          call,       \* where the slot of the button is
          calls,      \* how many requests were sent: the number of the last one
          asked       \* the request waited for: the row it names, and its type code

serviceVars == <<tab, table, fields, valueType, edited, call, calls, asked>>
formVars == <<tab, table, fields, valueType, edited>>

Tabs == {"param", "command", "status"}

ASSUME ServicePanelAssumption ==
    /\ MaxCalls \in Nat
    /\ Models \cap {"none", "typed"} = {}

CallRequest(k) == <<"call", k>>

\* The entries of the combo box of the tab, in the order the panel adds them.
ComboTypes(t) == IF t = "status" THEN <<"u32", "u16", "u8", "i32">> ELSE <<"f32", "u32", "u16", "u8">>

\* What the selection slots look for: a row of another type leaves the combo box alone.
Known(t, type) == \E i \in DOMAIN ComboTypes(t) : ComboTypes(t)[i] = type

IndexOf(t, type) == CHOOSE i \in 0..3 : ComboTypes(t)[i + 1] = type

NoCall == [row |-> "none", type |-> 0, edited |-> FALSE]

ServiceInit ==
    /\ tab \in Tabs
    /\ table = "none"
    /\ fields = "none"
    /\ valueType = 0
    /\ edited = FALSE
    /\ call = "out"
    /\ calls = 0
    /\ asked = NoCall

-----------------------------------------------------------------------------
(* The menu, the table and the fields.                                      *)

\* "Choose Sensor Type": tables and fields are cleared, the combo box is not.
ChooseNoModel ==
    /\ Clickable /\ call = "out"
    /\ table' = "none"
    /\ fields' = "none"
    /\ UNCHANGED <<tab, valueType, edited, call, calls, asked, uiVars, nodeVars>>

\* A model: its files are read, those that can be opened; the fields stay.
ChooseModel(m) ==
    /\ Clickable /\ call = "out"
    /\ \/ table' = m
       \/ UNCHANGED table
    /\ UNCHANGED <<tab, fields, valueType, edited, call, calls, asked, uiVars, nodeVars>>

\* Variant: the status tab selects by the order of the parameter types.
PickRowAsParameter ==
    /\ Clickable /\ call = "out"
    /\ table # "none"
    /\ fields' = table
    /\ valueType' = IF tab # "command" /\ Known("param", RowType[tab, table])
                    THEN IndexOf("param", RowType[tab, table])
                    ELSE valueType
    /\ edited' = FALSE
    /\ UNCHANGED <<tab, table, call, calls, asked, uiVars, nodeVars>>

\* A row is picked: name and section are copied, and the type if the panel knows it.
PickRow ==
    /\ Clickable /\ call = "out"
    /\ table # "none"
    /\ fields' = table
    /\ valueType' = IF tab # "command" /\ Known(tab, RowType[tab, table])
                    THEN IndexOf(tab, RowType[tab, table])
                    ELSE valueType
    /\ edited' = FALSE
    /\ UNCHANGED <<tab, table, call, calls, asked, uiVars, nodeVars>>

\* The user sets the combo box.
ChooseType(i) ==
    /\ Clickable /\ call = "out"
    /\ tab # "command" /\ i # valueType
    /\ valueType' = i
    /\ edited' = TRUE
    /\ UNCHANGED <<tab, table, fields, call, calls, asked, uiVars, nodeVars>>

\* The user types a name without a table.
TypeName ==
    /\ Clickable /\ call = "out"
    /\ fields = "none"
    /\ fields' = "typed"
    /\ edited' = TRUE
    /\ UNCHANGED <<tab, table, valueType, call, calls, asked, uiVars, nodeVars>>

-----------------------------------------------------------------------------
(* The button.                                                              *)

\* With an empty field the slot says so and returns; otherwise it waits for the service.
CallClicked ==
    /\ Clickable /\ call = "out"
    /\ calls < MaxCalls
    /\ fields # "none"
    /\ call' = "checking"
    /\ ui' = "call"
    /\ UNCHANGED <<formVars, calls, asked, ok, fault, nodeVars>>

CallServiceFound ==
    /\ call = "checking"
    /\ ok /\ node = "up"
    /\ call' = "sending"
    /\ UNCHANGED <<formVars, calls, asked, uiVars, nodeVars>>

\* After two seconds, or with an invalid context: a message, and the slot returns.
CallServiceMissing ==
    /\ call = "checking"
    /\ call' = "out"
    /\ ui' = "events"
    /\ UNCHANGED <<formVars, calls, asked, ok, fault, nodeVars>>

\* std::stoi finds no number in the field of the sensor id (or of the value of a command):
\* the exception leaves the slot, and RViz.
CallThrows ==
    /\ call = "sending"
    /\ ui' = "ended"
    /\ call' = "out"
    /\ UNCHANGED <<formVars, calls, asked, ok, fault, nodeVars>>

\* The request is sent, whatever became of the node meanwhile.
SendCall ==
    /\ call = "sending"
    /\ calls' = calls + 1
    /\ asked' = [row |-> fields, type |-> valueType, edited |-> edited]
    /\ Send(CallRequest(calls'))
    /\ call' = "blocked"
    /\ UNCHANGED <<formVars, uiVars>>

CallReturns ==
    /\ call' = "out"
    /\ ui' = "events"
    /\ asked' = NoCall
    /\ UNCHANGED <<formVars, calls, ok, fault, nodeVars>>

\* Variant: the slot waits for the future, and nobody spins the node.
CallWaitsUnspun ==
    /\ call = "blocked"
    /\ CallRequest(calls) \in responses /\ ~ok
    /\ CallReturns

\* spin_until_future_complete has no timeout: it returns with the response ...
CallSucceeds ==
    /\ call = "blocked"
    /\ CallRequest(calls) \in responses
    /\ CallReturns

\* ... or when the context is invalid.
CallInterrupted ==
    /\ call = "blocked"
    /\ ~ok
    /\ CallReturns

\* What the user does with the menu, the table and the combo box.
FormUser ==
    \/ ChooseNoModel
    \/ PickRow
    \/ \E m \in Models : ChooseModel(m)
    \/ \E i \in 0..3 : ChooseType(i)

ServiceSlot ==
    \/ CallServiceFound
    \/ CallServiceMissing
    \/ CallThrows
    \/ SendCall
    \/ CallSucceeds
    \/ CallInterrupted

ServiceNext == FormUser \/ TypeName \/ CallClicked \/ ServiceSlot

-----------------------------------------------------------------------------

ServiceTypeOK ==
    /\ tab \in Tabs
    /\ table \in Models \cup {"none"}
    /\ fields \in Models \cup {"typed", "none"}
    /\ valueType \in 0..3
    /\ edited \in BOOLEAN
    /\ call \in {"out", "checking", "sending", "blocked"}
    /\ calls \in 0..MaxCalls
    /\ asked \in [row : Models \cup {"typed", "none"}, type : 0..3, edited : BOOLEAN]

\* What the code of a type means to the node, in the service the tab calls.
NodeTypes == IF tab = "status" THEN StatusTypes ELSE ParamTypes

\* A request that was not edited by hand asks for the type the row shows, as the node
\* reads the code: the panel's two combo boxes and the node's two tables agree.  Only a
\* type the panel does not know goes out as whatever the combo box held before.
TypesAgreeWithNode ==
    /\ call = "blocked" /\ tab # "command"
    /\ ~asked.edited /\ Known(tab, RowType[tab, asked.row])
    => NodeTypes[asked.type + 1] = RowType[tab, asked.row]

\* The combo box shows the type of a row, if it has an entry for it.
Shows(row, index) ==
    row # "none" /\ Known(tab, RowType[tab, row]) => ComboTypes(tab)[index + 1] = RowType[tab, row]

\* What it rests on: since the last pick either the user changed a field, or the fields are
\* those of a row; and the fields stay while the slot of the button is at work.
ServicePanelInv ==
    /\ ServiceTypeOK
    /\ ~edited => fields # "typed" /\ (tab # "command" => Shows(fields, valueType))
    /\ call \in {"checking", "sending"} => fields # "none" /\ calls < MaxCalls
    /\ call = "blocked" =>
          /\ asked.row # "none"
          /\ ~asked.edited => asked.row # "typed" /\ (tab # "command" => Shows(asked.row, asked.type))

\* A slot that waits for a response to a request nobody will answer.
Frozen == call = "blocked" /\ ok /\ Lost(CallRequest(calls))
=============================================================================
