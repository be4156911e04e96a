------------------------------ MODULE FaultPanel ------------------------------
(***************************************************************************)
(* The panel for fault reports (smart_faults.cpp): a dropdown of topics     *)
(* that a timer keeps up to date, a subscription to the selected topic, and *)
(* the last message.  A second timer spins the panel's node on Qt's thread. *)
(* Topics come and go with whoever publishes them.                          *)
(***************************************************************************)
EXTENDS FiniteSets, UserInterface

CONSTANT FaultTopics   \* the topics whose names contain "port_faultreport_"

VARIABLES advertised,      \* the topics somebody publishes
          listed,          \* the topics in the dropdown
          current,         \* the entry the dropdown shows
          selected_topic_, \* the topic of the subscription, or ""
          subscriptions,   \* the subscriptions of the panel's node
          arrived,         \* the topics with a message waiting in their subscription
          shown            \* the topic of the message in the tables, or ""

faultPanelVars == <<advertised, listed, current, selected_topic_, subscriptions, arrived, shown>>

NoTopic == "Select a Fault Report Topic"

ASSUME FaultTopicsAssumption == FaultTopics \cap {"", NoTopic} = {}

FaultPanelInit ==
    /\ advertised \in SUBSET FaultTopics
    /\ listed = {}
    /\ current = NoTopic
    /\ selected_topic_ = ""
    /\ subscriptions = {}
    /\ arrived = {}
    /\ shown = ""

\* What get_topic_names_and_types finds: the panel's own subscription counts.
Found == advertised \cup subscriptions

-----------------------------------------------------------------------------
(* The graph.                                                               *)

Advertise(t) ==
    /\ t \notin advertised
    /\ advertised' = advertised \cup {t}
    /\ UNCHANGED <<listed, current, selected_topic_, subscriptions, arrived, shown, uiVars>>

Withdraw(t) ==
    /\ t \in advertised
    /\ advertised' = advertised \ {t}
    /\ UNCHANGED <<listed, current, selected_topic_, subscriptions, arrived, shown, uiVars>>

\* A message reaches the subscriptions to its topic.
Publish(t) ==
    /\ t \in (advertised \cap subscriptions) \ arrived
    /\ arrived' = arrived \cup {t}
    /\ UNCHANGED <<advertised, listed, current, selected_topic_, subscriptions, shown, uiVars>>

-----------------------------------------------------------------------------
(* The slots.                                                               *)

\* Variant: the selection is not restored.
RefreshForgetsSelection ==
    /\ Responsive /\ ok
    /\ listed # Found
    /\ listed' = Found
    /\ current' = NoTopic
    /\ UNCHANGED <<advertised, selected_topic_, subscriptions, arrived, shown, uiVars>>

\* Variant: only the lengths of the lists are compared.
RefreshByLength ==
    /\ Responsive /\ ok
    /\ Cardinality(listed) # Cardinality(Found)
    /\ listed' = Found
    /\ current' = IF selected_topic_ \in Found THEN selected_topic_ ELSE NoTopic
    /\ UNCHANGED <<advertised, selected_topic_, subscriptions, arrived, shown, uiVars>>

\* refresh_topic_list: a list that changed is rebuilt with the signals blocked, and the
\* dropdown set to the selected topic if it is still there.
RefreshTopics ==
    /\ Responsive /\ ok
    /\ listed # Found
    /\ listed' = Found
    /\ current' = IF selected_topic_ \in Found THEN selected_topic_ ELSE NoTopic
    /\ UNCHANGED <<advertised, selected_topic_, subscriptions, arrived, shown, uiVars>>

\* on_topic_selected: tables are cleared and the subscription replaced, with what waited.
SelectFaults(t) ==
    /\ Clickable
    /\ t \in listed /\ t # current
    /\ current' = t
    /\ IF t = selected_topic_
       THEN UNCHANGED <<selected_topic_, subscriptions, arrived, shown>>
       ELSE /\ selected_topic_' = t
            /\ subscriptions' = {t}
            /\ arrived' = {}
            /\ shown' = ""
    /\ UNCHANGED <<advertised, listed, uiVars>>

\* ... and the first entry ends it.
SelectNoFaults ==
    /\ Clickable
    /\ current # NoTopic
    /\ current' = NoTopic
    /\ selected_topic_' = ""
    /\ subscriptions' = {}
    /\ arrived' = {}
    /\ shown' = ""
    /\ UNCHANGED <<advertised, listed, uiVars>>

\* check_data: spin_some runs fault_report_callback, which fills the tables.
ShowFaults(t) ==
    /\ Responsive /\ ok
    /\ t \in arrived
    /\ arrived' = arrived \ {t}
    /\ shown' = t
    /\ UNCHANGED <<advertised, listed, current, selected_topic_, subscriptions, uiVars>>

FaultTimers == RefreshTopics \/ \E t \in FaultTopics : ShowFaults(t)

FaultPanelNext ==
    \/ FaultTimers
    \/ SelectNoFaults
    \/ \E t \in FaultTopics : Advertise(t) \/ Withdraw(t) \/ Publish(t) \/ SelectFaults(t)

-----------------------------------------------------------------------------

FaultPanelTypeOK ==
    /\ advertised \subseteq FaultTopics
    /\ listed \subseteq FaultTopics
    /\ current \in FaultTopics \cup {NoTopic}
    /\ selected_topic_ \in FaultTopics \cup {""}
    /\ subscriptions \subseteq FaultTopics
    /\ arrived \subseteq subscriptions
    /\ shown \in FaultTopics \cup {""}

\* The dropdown shows what the panel is subscribed to, however often the list is rebuilt:
\* a selected topic does not vanish from it, not even with its publisher, because the
\* panel's own subscription keeps the topic in the graph.  And the faults in the tables
\* are those of the topic in the dropdown, never of the sensor selected before.
FaultsAreOfSelection ==
    /\ current = IF selected_topic_ = "" THEN NoTopic ELSE selected_topic_
    /\ selected_topic_ # "" => selected_topic_ \in listed
    /\ shown # "" => shown = current

\* What it rests on: one subscription, to the selected topic.
FaultPanelInv ==
    /\ FaultPanelTypeOK
    /\ FaultsAreOfSelection
    /\ subscriptions = {selected_topic_} \ {""}
=============================================================================
