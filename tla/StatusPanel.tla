----------------------------- MODULE StatusPanel -----------------------------
(***************************************************************************)
(* The panel for target and object headers (smart_status.cpp).  It looks    *)
(* for topics once, when it is created, and subscribes to all of them; the  *)
(* callback of a topic fills the table only if the topic is selected.  The  *)
(* labels of the rows depend on the kind of header.                         *)
(***************************************************************************)
EXTENDS UserInterface

CONSTANTS HeaderTopics,   \* the topics of headers
          Kind            \* the kind of each: port or can, target or object

VARIABLES subscribed,     \* the topics found when the panel was created
          choice,         \* selected_topic_, "" until the dropdown was used
          queued,         \* the topics with a message waiting
          labels,         \* the kind the row labels are for, or ""
          column          \* the topic whose values the table holds, or ""

statusVars == <<subscribed, choice, queued, labels, column>>

NoHeaderTopic == "Select a Topic"

ASSUME HeaderTopicsAssumption == HeaderTopics \cap {"", NoHeaderTopic} = {}

StatusInit ==
    /\ subscribed \in SUBSET HeaderTopics
    /\ choice = ""
    /\ queued = {}
    /\ labels = ""
    /\ column = ""

HeaderArrives(t) ==
    /\ t \in subscribed \ queued
    /\ queued' = queued \cup {t}
    /\ UNCHANGED <<subscribed, choice, labels, column, uiVars>>

\* update_table: the table is emptied and labelled; the first entry changes no label.
SelectHeader(t) ==
    /\ Clickable
    /\ t # IF choice = "" THEN NoHeaderTopic ELSE choice
    /\ choice' = t
    /\ column' = ""
    /\ labels' = IF t = NoHeaderTopic THEN labels ELSE Kind[t]
    /\ UNCHANGED <<subscribed, queued, uiVars>>

\* Variant: every callback fills the table.
ShowAnyHeader(t) ==
    /\ Responsive /\ ok
    /\ t \in queued
    /\ queued' = queued \ {t}
    /\ column' = t
    /\ UNCHANGED <<subscribed, choice, labels, uiVars>>

\* check_data: spin_some runs the callbacks of the topics, all of them subscribed.
ShowHeader(t) ==
    /\ Responsive /\ ok
    /\ t \in queued
    /\ queued' = queued \ {t}
    /\ column' = IF t = choice THEN t ELSE column
    /\ UNCHANGED <<subscribed, choice, labels, uiVars>>

StatusTimer == \E t \in HeaderTopics : ShowHeader(t)

StatusNext ==
    \/ StatusTimer
    \/ \E t \in HeaderTopics : HeaderArrives(t)
    \/ \E t \in subscribed \cup {NoHeaderTopic} : SelectHeader(t)

-----------------------------------------------------------------------------

StatusTypeOK ==
    /\ subscribed \subseteq HeaderTopics
    /\ choice \in subscribed \cup {NoHeaderTopic, ""}
    /\ queued \subseteq subscribed
    /\ labels \in {Kind[t] : t \in HeaderTopics} \cup {""}
    /\ column \in subscribed \cup {""}

\* The values in the table are those of the selected topic and stand beside the labels of
\* their kind, although messages of every other topic keep arriving.
LabelsMatchData == column # "" => column = choice /\ labels = Kind[column]

\* What it rests on: the labels are set with the selection, not with the data.
StatusPanelInv ==
    /\ StatusTypeOK
    /\ LabelsMatchData
    /\ choice \in HeaderTopics => labels = Kind[choice]
=============================================================================
