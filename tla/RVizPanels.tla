------------------------------ MODULE RVizPanels ------------------------------
(***************************************************************************)
(* RViz with panels of the plugin and the node they talk to: the panels     *)
(* share Qt's thread and the node's one executor.  A session has some of    *)
(* the panels open; the node may go away and be launched again.  To keep    *)
(* the product of two panels small, the menu and the tables of the service  *)
(* panel are used only in a session that names them.                        *)
(***************************************************************************)
EXTENDS DownloadPanel, ServicePanel, FaultPanel, StatusPanel

CONSTANTS Sessions,      \* the sets of panels that are open in a session
          MaxLaunches    \* bound of the model: how often the node is launched again

VARIABLES open,          \* the panels of this session
          launches

vars == <<open, launches, uiVars, nodeVars, downloadVars, serviceVars, faultPanelVars, statusVars>>

Panels == {"download", "services", "tables", "faults", "status"}

ASSUME RVizPanelsAssumption ==
    /\ Sessions \subseteq SUBSET Panels
    /\ MaxLaunches \in Nat
    /\ \A k \in Downloads : DownloadRequest(k) \in Requests
    /\ \A k \in 1..MaxCalls : CallRequest(k) \in Requests

Init ==
    /\ open \in Sessions
    /\ launches = 0
    /\ UiInit
    /\ NodeInit
    /\ DownloadInit
    /\ ServiceInit
    /\ FaultPanelInit
    /\ StatusInit
    /\ "tables" \in open \/ tab = "param"
    /\ "faults" \in open \/ advertised = {}
    /\ "status" \in open \/ subscribed = {}

Download ==
    /\ "download" \in open
    /\ DownloadNext
    /\ UNCHANGED <<open, launches, serviceVars, faultPanelVars, statusVars>>

Services ==
    /\ "services" \in open
    /\ \/ TypeName \/ CallClicked \/ ServiceSlot
       \/ "tables" \in open /\ FormUser
    /\ UNCHANGED <<open, launches, downloadVars, faultPanelVars, statusVars>>

Faults ==
    /\ "faults" \in open
    /\ FaultPanelNext
    /\ UNCHANGED <<open, launches, nodeVars, downloadVars, serviceVars, statusVars>>

Status ==
    /\ "status" \in open
    /\ StatusNext
    /\ UNCHANGED <<open, launches, nodeVars, downloadVars, serviceVars, faultPanelVars>>

panelVars == <<open, downloadVars, serviceVars, faultPanelVars, statusVars>>

\* The node serves, goes, and is launched again.
Node ==
    /\ \/ Executor /\ UNCHANGED launches
       \/ NodeGoes /\ UNCHANGED launches
       \/ /\ launches < MaxLaunches
          /\ NodeReturns
          /\ launches' = launches + 1
    /\ UNCHANGED <<panelVars, uiVars>>

\* RViz is told to end.
Signal == Interrupt /\ UNCHANGED <<panelVars, launches, nodeVars>>

Next ==
    /\ fault = "none"
    /\ \/ Download
       \/ Services
       \/ Faults
       \/ Status
       \/ Node
       \/ Signal

\* Each thread runs: Qt's, which returns from its slots, ros_thread_, the workers and the
\* node's executor.  Timers and posted events that are due are served when Qt's loop turns,
\* between the slots of a user who never stops clicking (SF).  Nobody has to click, to
\* close a box, or to launch the node again.
InDownload(A) ==
    /\ fault = "none" /\ "download" \in open
    /\ A
    /\ UNCHANGED <<open, launches, serviceVars, faultPanelVars, statusVars>>

InServices(A) ==
    /\ fault = "none" /\ "services" \in open
    /\ A
    /\ UNCHANGED <<open, launches, downloadVars, faultPanelVars, statusVars>>

Fairness ==
    /\ WF_vars(InDownload(DownloadSlot))
    /\ SF_vars(InDownload(ShowResponse))
    /\ WF_vars(InDownload(RosThread))
    /\ WF_vars(InDownload(\E k \in Downloads : Worker(k)))
    /\ WF_vars(InServices(ServiceSlot))
    /\ SF_vars(fault = "none" /\ "faults" \in open /\ RefreshTopics
               /\ UNCHANGED <<open, launches, nodeVars, downloadVars, serviceVars, statusVars>>)
    /\ WF_vars(fault = "none" /\ Executor /\ UNCHANGED <<panelVars, launches, uiVars>>)

Spec == Init /\ [][Next]_vars /\ Fairness
-----------------------------------------------------------------------------

TypeOK ==
    /\ open \subseteq Panels
    /\ launches \in 0..MaxLaunches
    /\ UiTypeOK
    /\ NodeTypeOK
    /\ DownloadTypeOK
    /\ ServiceTypeOK
    /\ FaultPanelTypeOK
    /\ StatusTypeOK

\* The inductive invariant of the session: that of each panel, with the types of what the
\* panels share.  No panel's invariant needs that of another.
PanelsInv ==
    /\ open \subseteq Panels
    /\ launches \in 0..MaxLaunches
    /\ UiTypeOK
    /\ NodeTypeOK
    /\ DownloadPanelInv
    /\ ServicePanelInv
    /\ FaultPanelInv
    /\ StatusPanelInv

\* The requests sent by the clicks so far.
Sent == {DownloadRequest(k) : k \in 1..sent} \cup {CallRequest(k) : k \in 1..calls}

\* The node holds and answers only what a click sent, and each request once: it waits, is
\* served or was answered, one at a time is served, and a worker of the download panel has a
\* response only to a request of its own that the node answered.
ResponsesAreOfClicks ==
    /\ waiting \cup serving \cup responses \subseteq Sent
    /\ waiting \cap serving = {} /\ (waiting \cup serving) \cap responses = {}
    /\ \A r1, r2 \in serving : r1 = r2
    /\ \A k \in Downloads :
          worker[k] \in {"ready", "logging", "done"} => DownloadRequest(k) \in responses

\* Qt's thread never comes back: a call waits for a node that is gone, or a destructor for
\* a thread that missed its cancel.
Stuck == Frozen \/ (panel = "closing" /\ thread = "deaf" /\ ok)

Over == ui = "ended" \/ fault # "none"

\* Qt's thread comes back from every slot that waits, for a service, a response or a thread
\* to join, and whatever another panel asked of the node before.  The exceptions are those
\* of Stuck: the node went away with the request, or the panel was closed too early.
QtComesBack == ui = "call" ~> ui # "call" \/ Stuck \/ Over

\* A click on the start button ends with the button enabled again: the response was shown,
\* the box closed.  It stays disabled only if the node went away with the request, RViz is
\* ending, the panel was closed, a box is open, or another panel holds Qt's thread.
ButtonComesBack ==
    ~button ~> \/ button
               \/ Lost(DownloadRequest(sent)) /\ slot = "out"
               \/ slot = "missing" \/ panel # "open" \/ ~ok \/ Stuck \/ Over

\* A topic that somebody keeps publishing gets into the dropdown, unless Qt's thread is
\* stuck in the call of another panel.
ListFollowsGraph ==
    \A t \in FaultTopics :
        t \in advertised /\ "faults" \in open ~>
            t \in listed \/ t \notin advertised \/ ~ok \/ Stuck \/ Over
=============================================================================
