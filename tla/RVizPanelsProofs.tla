--------------------------- MODULE RVizPanelsProofs ---------------------------
(***************************************************************************)
(* Theorems about the panels of the RViz plugin, for any number of topics,  *)
(* models, requests and launches of the node, and any set of panels open.   *)
(* Each panel keeps its own part of the invariant, one step per slot or     *)
(* thread; what another panel or the node does leaves its variables alone.  *)
(***************************************************************************)
EXTENDS RVizPanels, TLAPS

-----------------------------------------------------------------------------
(* The download panel.                                                      *)

\* The panel starts with nothing sent and the button enabled.
LEMMA DownloadPanelInitial == DownloadInit => DownloadPanelInv
  BY MaxDownloadsAssumption
  DEF DownloadInit, DownloadPanelInv, DownloadTypeOK, ButtonMeansPending, Pending, Downloads

\* What leaves the variables of the panel alone leaves its invariant alone.
LEMMA DownloadPanelStutters ==
    ASSUME DownloadPanelInv, UNCHANGED downloadVars
    PROVE  DownloadPanelInv'
  BY DEF downloadVars, DownloadPanelInv, DownloadTypeOK, ButtonMeansPending, Pending

\* The slots of Qt's thread keep it.
LEMMA DownloadQtKeepsInv ==
    ASSUME DownloadPanelInv, DownloadUser \/ DownloadSlot \/ ShowResponse
    PROVE  DownloadPanelInv'
<1> USE MaxDownloadsAssumption
        DEF DownloadPanelInv, DownloadTypeOK, ButtonMeansPending, Pending, Downloads
<1>1. CASE DownloadWarning
  BY <1>1 DEF DownloadWarning
<1>2. CASE DownloadClicked
  BY <1>2 DEF DownloadClicked
<1>3. CASE CloseBox
  BY <1>3 DEF CloseBox
<1>4. CASE ClosePanel
  BY <1>4 DEF ClosePanel
<1>5. CASE DownloadServiceFound
  BY <1>5 DEF DownloadServiceFound
<1>6. CASE DownloadServiceMissing
  BY <1>6 DEF DownloadServiceMissing
<1>7. CASE SendDownload
  <2>1. /\ sent' = sent + 1 /\ sent' \in Downloads
        /\ worker' = [worker EXCEPT ![sent'] = "waiting"]
        /\ slot' = "out" /\ UNCHANGED <<panel, thread, button, events>>
    BY <1>7 DEF SendDownload
  <2>2. panel = "open" /\ ~button /\ Pending = {} /\ events = <<>>
    BY <1>7 DEF SendDownload
  <2>3. Pending' = {sent'}
    BY <2>1, <2>2
  <2>4. DownloadTypeOK'
    BY <2>1
  <2>. QED
    BY <2>1, <2>2, <2>3, <2>4
<1>8. CASE DestroyPanel
  BY <1>8 DEF DestroyPanel
<1>9. CASE ShowResponse
  <2>1. /\ panel = "open" /\ events # <<>> /\ events' = Tail(events) /\ button' = TRUE
        /\ UNCHANGED <<panel, thread, slot, sent, worker>>
    BY <1>9 DEF ShowResponse
  <2>2. Pending = {} /\ slot = "out"
    BY <2>1
  <2>3. events' = <<>>
    BY <2>1
  <2>. QED
    BY <2>1, <2>2, <2>3
<1>. QED
  BY <1>1, <1>2, <1>3, <1>4, <1>5, <1>6, <1>7, <1>8, <1>9 DEF DownloadUser, DownloadSlot

\* The panel's own threads keep it.
LEMMA DownloadThreadsKeepInv ==
    ASSUME DownloadPanelInv, RosThread \/ \E k \in Downloads : Worker(k)
    PROVE  DownloadPanelInv'
<1> USE DEF DownloadPanelInv, DownloadTypeOK, ButtonMeansPending, Pending
<1>1. CASE SpinStarts
  BY <1>1 DEF SpinStarts
<1>2. CASE SpinEnds
  BY <1>2 DEF SpinEnds
<1>3. ASSUME NEW k \in Downloads, ReceiveResponse(k)
      PROVE  DownloadPanelInv'
  <2>1. Pending' = Pending
    BY <1>3 DEF ReceiveResponse
  <2>. QED
    BY <1>3, <2>1 DEF ReceiveResponse
<1>4. ASSUME NEW k \in Downloads, PostResponse(k)
      PROVE  DownloadPanelInv'
  <2>1. CASE panel = "closed"
    BY <1>4, <2>1 DEF PostResponse
  <2>2. CASE panel # "closed"
    <3>1. /\ events' = Append(events, k) /\ worker' = [worker EXCEPT ![k] = "logging"]
          /\ UNCHANGED <<panel, thread, slot, button, sent>>
      BY <1>4, <2>2 DEF PostResponse
    <3>2. k \in Pending /\ Pending' = Pending \ {k}
      BY <1>4, <3>1 DEF PostResponse
    <3>3. slot = "out"
      BY <3>2
    <3>4. ASSUME panel = "open"
          PROVE  Pending' = {} /\ events' = <<k>> /\ ~button
      <4>1. Pending = {k} /\ events = <<>> /\ ~button
        BY <3>2, <3>4
      <4>2. Pending' = {}
        BY <3>2, <4>1
      <4>. QED
        BY <3>1, <4>1, <4>2
    <3>. QED
      BY <3>1, <3>3, <3>4
  <2>. QED
    BY <2>1, <2>2
<1>5. ASSUME NEW k \in Downloads, LogResponse(k)
      PROVE  DownloadPanelInv'
  <2>1. Pending' = Pending
    BY <1>5 DEF LogResponse
  <2>. QED
    BY <1>5, <2>1 DEF LogResponse
<1>6. ASSUME NEW k \in Downloads, PromiseBroken(k)
      PROVE  DownloadPanelInv'
  BY <1>6, DownloadPanelStutters DEF PromiseBroken
<1> HIDE DEF DownloadPanelInv
<1>. QED
  BY <1>1, <1>2, <1>3, <1>4, <1>5, <1>6 DEF RosThread, Worker

-----------------------------------------------------------------------------
(* The service panel.                                                       *)

\* The record that stands for no request has the type of one.
LEMMA NoCallIsTyped ==
    NoCall \in [row : Models \cup {"typed", "none"}, type : 0..3, edited : BOOLEAN]
<1>1. "none" \in Models \cup {"typed", "none"} /\ 0 \in 0..3 /\ FALSE \in BOOLEAN
  BY SMT
<1>. QED
  BY <1>1, Zenon DEF NoCall

\* The panel starts with empty fields and no call.
LEMMA ServicePanelInitial == ServiceInit => ServicePanelInv
<1> SUFFICES ASSUME ServiceInit
             PROVE  ServicePanelInv
  OBVIOUS
<1>1. ServiceTypeOK
  <2>1. 0 \in 0..MaxCalls /\ 0 \in 0..3
    BY ServicePanelAssumption
  <2>. QED
    BY <2>1, NoCallIsTyped, Zenon DEF ServiceInit, ServiceTypeOK
<1>2. Shows(fields, valueType)
  BY DEF ServiceInit, Shows
<1>. QED
  BY <1>1, <1>2 DEF ServiceInit, ServicePanelInv

\* What leaves the variables of the panel alone leaves its invariant alone.
LEMMA ServicePanelStutters ==
    ASSUME ServicePanelInv, UNCHANGED serviceVars
    PROVE  ServicePanelInv'
  BY DEF serviceVars, ServicePanelInv, ServiceTypeOK, Shows

\* A type the panel knows has an index in the combo box.
LEMMA KnownHasIndex ==
    ASSUME NEW t \in Tabs, NEW type, Known(t, type)
    PROVE  IndexOf(t, type) \in 0..3 /\ ComboTypes(t)[IndexOf(t, type) + 1] = type
<1>1. PICK j \in DOMAIN ComboTypes(t) : ComboTypes(t)[j] = type
  BY DEF Known
<1>2. DOMAIN ComboTypes(t) = 1..4
  BY DEF ComboTypes
<1>3. j - 1 \in 0..3 /\ ComboTypes(t)[(j - 1) + 1] = type
  BY <1>1, <1>2
<1>. QED
  BY <1>3 DEF IndexOf

\* The menu, the tables and the fields keep the invariant.
LEMMA FormKeepsInv ==
    ASSUME ServicePanelInv, FormUser \/ TypeName
    PROVE  ServicePanelInv'
<1> USE ServicePanelAssumption DEF ServicePanelInv, ServiceTypeOK
<1>1. CASE ChooseNoModel
  BY <1>1 DEF ChooseNoModel, Shows
<1>2. ASSUME NEW m \in Models, ChooseModel(m)
      PROVE  ServicePanelInv'
  BY <1>2 DEF ChooseModel, Shows
<1>3. CASE PickRow
  <2>1. /\ call = "out" /\ table \in Models /\ fields' = table /\ edited' = FALSE
        /\ UNCHANGED <<tab, table, call, calls, asked>>
    BY <1>3 DEF PickRow
  <2>2. CASE tab # "command" /\ Known(tab, RowType[tab, table])
    <3>1. valueType' = IndexOf(tab, RowType[tab, table])
      BY <1>3, <2>2 DEF PickRow
    <3>2. valueType' \in 0..3 /\ ComboTypes(tab)[valueType' + 1] = RowType[tab, table]
      BY <2>2, <3>1, KnownHasIndex
    <3>3. ServiceTypeOK'
      BY <2>1, <3>2
    <3>. QED
      BY <2>1, <3>2, <3>3 DEF Shows
  <2>3. CASE ~(tab # "command" /\ Known(tab, RowType[tab, table]))
    <3>1. valueType' = valueType
      BY <1>3, <2>3 DEF PickRow
    <3>2. ServiceTypeOK'
      BY <2>1, <3>1
    <3>. QED
      BY <2>1, <2>3, <3>1, <3>2 DEF Shows
  <2>. QED
    BY <2>2, <2>3
<1>4. ASSUME NEW i \in 0..3, ChooseType(i)
      PROVE  ServicePanelInv'
  BY <1>4 DEF ChooseType
<1>5. CASE TypeName
  BY <1>5 DEF TypeName
<1>. QED
  BY <1>1, <1>2, <1>3, <1>4, <1>5 DEF FormUser

\* The button and its slot keep it.
LEMMA CallKeepsInv ==
    ASSUME ServicePanelInv, CallClicked \/ ServiceSlot
    PROVE  ServicePanelInv'
<1> USE ServicePanelAssumption DEF ServicePanelInv, ServiceTypeOK
<1>1. CASE CallClicked
  BY <1>1 DEF CallClicked, formVars, Shows
<1>2. CASE CallServiceFound
  BY <1>2 DEF CallServiceFound, formVars, Shows
<1>3. CASE CallServiceMissing
  BY <1>3 DEF CallServiceMissing, formVars, Shows
<1>4. CASE CallThrows
  BY <1>4 DEF CallThrows, formVars, Shows
<1>5. CASE SendCall
  <2>1. /\ call = "sending" /\ call' = "blocked" /\ calls' = calls + 1
        /\ asked' = [row |-> fields, type |-> valueType, edited |-> edited]
        /\ UNCHANGED <<tab, table, fields, valueType, edited>>
    BY <1>5 DEF SendCall, formVars
  <2>2. ServiceTypeOK'
    BY <2>1
  <2>. QED
    BY <2>1, <2>2 DEF Shows
<1>6. CASE CallSucceeds \/ CallInterrupted
  <2>1. /\ call' = "out" /\ asked' = NoCall
        /\ UNCHANGED <<tab, table, fields, valueType, edited, calls>>
    BY <1>6 DEF CallSucceeds, CallInterrupted, CallReturns, formVars
  <2>2. ServiceTypeOK'
    BY <2>1, NoCallIsTyped
  <2>. QED
    BY <2>1, <2>2 DEF Shows
<1>. QED
  BY <1>1, <1>2, <1>3, <1>4, <1>5, <1>6 DEF ServiceSlot

\* The panel's combo boxes and the node's tables agree: a row that is shown is asked for.
LEMMA ServicePanelAgrees == ServicePanelInv => TypesAgreeWithNode
<1> SUFFICES ASSUME ServicePanelInv, call = "blocked", tab # "command", ~asked.edited,
                    Known(tab, RowType[tab, asked.row])
             PROVE  NodeTypes[asked.type + 1] = RowType[tab, asked.row]
  BY DEF TypesAgreeWithNode
<1>1. ComboTypes(tab) = NodeTypes
  BY DEF ServicePanelInv, ServiceTypeOK, Tabs, ComboTypes, NodeTypes, ParamTypes, StatusTypes
<1>2. ComboTypes(tab)[asked.type + 1] = RowType[tab, asked.row]
  BY DEF ServicePanelInv, Shows
<1>. QED
  BY <1>1, <1>2

-----------------------------------------------------------------------------
(* The fault panel and the status panel.                                    *)

\* The panel starts with no selection and no subscription.
LEMMA FaultPanelInitial == FaultPanelInit => FaultPanelInv
  BY DEF FaultPanelInit, FaultPanelInv, FaultPanelTypeOK, FaultsAreOfSelection

\* What leaves the variables of the panel alone leaves its invariant alone.
LEMMA FaultPanelStutters ==
    ASSUME FaultPanelInv, UNCHANGED faultPanelVars
    PROVE  FaultPanelInv'
  BY DEF faultPanelVars, FaultPanelInv, FaultPanelTypeOK, FaultsAreOfSelection

\* The selected topic is found whatever is published: the panel itself is subscribed to it.
LEMMA FaultPanelKeepsInv ==
    ASSUME FaultPanelInv, FaultPanelNext
    PROVE  FaultPanelInv'
<1> USE FaultTopicsAssumption
        DEF FaultPanelInv, FaultPanelTypeOK, FaultsAreOfSelection
<1>1. CASE RefreshTopics
  <2>1. selected_topic_ # "" => selected_topic_ \in Found
    BY DEF Found
  <2>. QED
    BY <1>1, <2>1 DEF RefreshTopics, Found
<1>2. ASSUME NEW t \in FaultTopics, ShowFaults(t)
      PROVE  FaultPanelInv'
  BY <1>2 DEF ShowFaults
<1>3. CASE SelectNoFaults
  BY <1>3 DEF SelectNoFaults
<1>4. ASSUME NEW t \in FaultTopics, Advertise(t) \/ Withdraw(t) \/ Publish(t)
      PROVE  FaultPanelInv'
  BY <1>4 DEF Advertise, Withdraw, Publish
<1>5. ASSUME NEW t \in FaultTopics, SelectFaults(t)
      PROVE  FaultPanelInv'
  BY <1>5 DEF SelectFaults
<1>. QED
  BY <1>1, <1>2, <1>3, <1>4, <1>5 DEF FaultPanelNext, FaultTimers

\* The panel starts with no selection and an empty table.
LEMMA StatusPanelInitial == StatusInit => StatusPanelInv
  BY HeaderTopicsAssumption DEF StatusInit, StatusPanelInv, StatusTypeOK, LabelsMatchData

\* What leaves the variables of the panel alone leaves its invariant alone.
LEMMA StatusPanelStutters ==
    ASSUME StatusPanelInv, UNCHANGED statusVars
    PROVE  StatusPanelInv'
  BY DEF statusVars, StatusPanelInv, StatusTypeOK, LabelsMatchData

\* Messages of every topic arrive; only those of the selected one fill the table.
LEMMA StatusPanelKeepsInv ==
    ASSUME StatusPanelInv, StatusNext
    PROVE  StatusPanelInv'
<1> USE HeaderTopicsAssumption DEF StatusPanelInv, StatusTypeOK, LabelsMatchData
<1>1. ASSUME NEW t \in HeaderTopics, ShowHeader(t)
      PROVE  StatusPanelInv'
  BY <1>1 DEF ShowHeader
<1>2. ASSUME NEW t \in HeaderTopics, HeaderArrives(t)
      PROVE  StatusPanelInv'
  BY <1>2 DEF HeaderArrives
<1>3. ASSUME NEW t \in subscribed \cup {NoHeaderTopic}, SelectHeader(t)
      PROVE  StatusPanelInv'
  BY <1>3 DEF SelectHeader
<1>. QED
  BY <1>1, <1>2, <1>3 DEF StatusNext, StatusTimer

-----------------------------------------------------------------------------
(* What the panels share, and the session.                                  *)

\* A request is sent, the node serves, goes and returns: its variables keep their types.
LEMMA NodeKeepsTypes ==
    ASSUME NodeTypeOK, NodeNext
    PROVE  NodeTypeOK'
  BY DEF NodeTypeOK, NodeNext, Send, Serve, Respond, NodeGoes, NodeReturns

\* The download panel keeps the types of what it shares.
LEMMA DownloadKeepsTypes ==
    ASSUME UiTypeOK, NodeTypeOK, DownloadPanelInv, DownloadNext
    PROVE  UiTypeOK' /\ NodeTypeOK'
<1>1. CASE SendDownload
  <2>1. slot = "sending" /\ sent' = sent + 1
    BY <1>1 DEF SendDownload
  <2>2. sent \in 0..MaxDownloads /\ sent < MaxDownloads
    BY <2>1 DEF DownloadPanelInv, DownloadTypeOK
  <2>3. sent' \in Downloads
    BY <2>1, <2>2, MaxDownloadsAssumption DEF Downloads
  <2>4. DownloadRequest(sent') \in Requests
    BY <2>3, RVizPanelsAssumption
  <2>. QED
    BY <1>1, <2>4 DEF SendDownload, Send, UiTypeOK, NodeTypeOK
<1>2. CASE DownloadUser
  BY <1>2 DEF DownloadUser, DownloadWarning, DownloadClicked, CloseBox, ClosePanel, nodeVars,
              UiTypeOK, NodeTypeOK
<1>3. CASE DownloadServiceFound \/ DownloadServiceMissing \/ DestroyPanel \/ ShowResponse
  BY <1>3 DEF DownloadServiceFound, DownloadServiceMissing, DestroyPanel, ShowResponse, nodeVars, uiVars,
              UiTypeOK, NodeTypeOK
<1>4. CASE RosThread \/ \E k \in Downloads : Worker(k)
  BY <1>4 DEF RosThread, SpinStarts, SpinEnds, ReceiveResponse, Worker, PostResponse, LogResponse,
              PromiseBroken, nodeVars, uiVars, UiTypeOK, NodeTypeOK
<1>. QED
  BY <1>1, <1>2, <1>3, <1>4 DEF DownloadNext, DownloadSlot

\* So does the service panel.
LEMMA ServicesKeepTypes ==
    ASSUME UiTypeOK, NodeTypeOK, ServicePanelInv, ServiceNext
    PROVE  UiTypeOK' /\ NodeTypeOK'
<1>1. CASE SendCall
  <2>1. call = "sending" /\ calls' = calls + 1
    BY <1>1 DEF SendCall
  <2>2. calls \in 0..MaxCalls /\ calls < MaxCalls
    BY <2>1 DEF ServicePanelInv, ServiceTypeOK
  <2>3. calls' \in 1..MaxCalls
    BY <2>1, <2>2, ServicePanelAssumption
  <2>4. CallRequest(calls') \in Requests
    BY <2>3, RVizPanelsAssumption
  <2>. QED
    BY <1>1, <2>4 DEF SendCall, Send, uiVars, UiTypeOK, NodeTypeOK
<1>2. CASE FormUser \/ TypeName
  BY <1>2 DEF FormUser, ChooseNoModel, ChooseModel, PickRow, ChooseType, TypeName, nodeVars, uiVars,
              UiTypeOK, NodeTypeOK
<1>3. CASE CallClicked \/ CallServiceFound \/ CallServiceMissing \/ CallThrows
  BY <1>3 DEF CallClicked, CallServiceFound, CallServiceMissing, CallThrows, nodeVars, uiVars,
              UiTypeOK, NodeTypeOK
<1>4. CASE CallSucceeds \/ CallInterrupted
  BY <1>4 DEF CallSucceeds, CallInterrupted, CallReturns, nodeVars, UiTypeOK, NodeTypeOK
<1>. QED
  BY <1>1, <1>2, <1>3, <1>4 DEF ServiceNext, ServiceSlot

\* The other panels change nothing that is shared.
LEMMA TopicPanelsKeepUi == FaultPanelNext \/ StatusNext => UNCHANGED uiVars
  BY DEF FaultPanelNext, FaultTimers, RefreshTopics, ShowFaults, SelectNoFaults, SelectFaults,
         Advertise, Withdraw, Publish, StatusNext, StatusTimer, ShowHeader, HeaderArrives,
         SelectHeader

\* A session starts with every panel in its initial state and the node up.
LEMMA PanelsInitial == Init => PanelsInv
<1> SUFFICES ASSUME Init
             PROVE  PanelsInv
  OBVIOUS
<1>1. open \subseteq Panels /\ launches \in 0..MaxLaunches
  BY RVizPanelsAssumption DEF Init
<1>2. UiTypeOK /\ NodeTypeOK
  BY DEF Init, UiInit, UiTypeOK, NodeInit, NodeTypeOK
<1>. QED
  BY <1>1, <1>2, DownloadPanelInitial, ServicePanelInitial, FaultPanelInitial, StatusPanelInitial
  DEF Init, PanelsInv

\* No panel, thread or node breaks the invariant of the session.
LEMMA PanelsStep == PanelsInv /\ [Next]_vars => PanelsInv'
<1> SUFFICES ASSUME PanelsInv, [Next]_vars
             PROVE  PanelsInv'
  OBVIOUS
<1> USE DEF PanelsInv
<1>1. CASE Download
  <2>1. DownloadPanelInv'
    BY <1>1, DownloadQtKeepsInv, DownloadThreadsKeepInv DEF Download, DownloadNext
  <2>2. UiTypeOK' /\ NodeTypeOK'
    BY <1>1, DownloadKeepsTypes DEF Download
  <2>. QED
    BY <1>1, <2>1, <2>2, ServicePanelStutters, FaultPanelStutters, StatusPanelStutters DEF Download
<1>2. CASE Services
  <2>1. ServiceNext
    BY <1>2 DEF Services, ServiceNext
  <2>2. ServicePanelInv'
    BY <2>1, FormKeepsInv, CallKeepsInv DEF ServiceNext
  <2>3. UiTypeOK' /\ NodeTypeOK'
    BY <2>1, ServicesKeepTypes
  <2>. QED
    BY <1>2, <2>2, <2>3, DownloadPanelStutters, FaultPanelStutters, StatusPanelStutters DEF Services
<1>3. CASE Faults
  <2>1. FaultPanelInv'
    BY <1>3, FaultPanelKeepsInv DEF Faults
  <2>2. UiTypeOK' /\ NodeTypeOK'
    BY <1>3, TopicPanelsKeepUi DEF Faults, uiVars, nodeVars, UiTypeOK, NodeTypeOK
  <2>. QED
    BY <1>3, <2>1, <2>2, DownloadPanelStutters, ServicePanelStutters, StatusPanelStutters DEF Faults
<1>4. CASE Status
  <2>1. StatusPanelInv'
    BY <1>4, StatusPanelKeepsInv DEF Status
  <2>2. UiTypeOK' /\ NodeTypeOK'
    BY <1>4, TopicPanelsKeepUi DEF Status, uiVars, nodeVars, UiTypeOK, NodeTypeOK
  <2>. QED
    BY <1>4, <2>1, <2>2, DownloadPanelStutters, ServicePanelStutters, FaultPanelStutters DEF Status
<1>5. CASE Node
  <2>1. NodeNext \/ UNCHANGED nodeVars
    BY <1>5 DEF Node, Executor, NodeNext
  <2>2. NodeTypeOK'
    BY <2>1, NodeKeepsTypes DEF nodeVars, NodeTypeOK
  <2>3. launches' \in 0..MaxLaunches
    BY <1>5, RVizPanelsAssumption DEF Node
  <2>. QED
    BY <1>5, <2>2, <2>3, DownloadPanelStutters, ServicePanelStutters, FaultPanelStutters,
       StatusPanelStutters
    DEF Node, panelVars, uiVars, UiTypeOK
<1>6. CASE Signal
  <2>1. UiTypeOK'
    BY <1>6 DEF Signal, Interrupt, UiTypeOK
  <2>. QED
    BY <1>6, <2>1, DownloadPanelStutters, ServicePanelStutters, FaultPanelStutters,
       StatusPanelStutters
    DEF Signal, panelVars, nodeVars, NodeTypeOK
<1>7. CASE UNCHANGED vars
  BY <1>7, DownloadPanelStutters, ServicePanelStutters, FaultPanelStutters, StatusPanelStutters
  DEF vars, uiVars, nodeVars, UiTypeOK, NodeTypeOK
<1>. QED
  BY <1>1, <1>2, <1>3, <1>4, <1>5, <1>6, <1>7 DEF Next

-----------------------------------------------------------------------------
(* The node as the panels use it.                                           *)

LEMMA RequestsDiffer ==
    /\ \A j, k \in Nat : DownloadRequest(j) = DownloadRequest(k) => j = k
    /\ \A j, k \in Nat : CallRequest(j) = CallRequest(k) => j = k
    /\ \A j, k \in Nat : DownloadRequest(j) # CallRequest(k)
  BY DEF DownloadRequest, CallRequest

\* What the panels do to the node: they send a request nobody sent before, or nothing.
LEMMA PanelsSend ==
    ASSUME PanelsInv, Download \/ Services \/ Faults \/ Status \/ Signal
    PROVE  \/ UNCHANGED <<nodeVars, sent, calls>> /\ Sent' = Sent
           \/ \E r \in Requests \ Sent : Send(r) /\ Sent' = Sent \cup {r}
<1> USE DEF PanelsInv
<1>1. sent \in Nat /\ calls \in Nat
  BY MaxDownloadsAssumption, ServicePanelAssumption
     DEF DownloadPanelInv, DownloadTypeOK, ServicePanelInv, ServiceTypeOK
<1>2. CASE SendDownload /\ UNCHANGED serviceVars
  <2>1. sent' = sent + 1 /\ calls' = calls /\ Send(DownloadRequest(sent + 1))
    BY <1>2 DEF SendDownload, serviceVars
  <2>2. sent + 1 \in Downloads
    BY <1>1, <1>2, MaxDownloadsAssumption
       DEF SendDownload, DownloadPanelInv, Downloads
  <2>3. DownloadRequest(sent + 1) \in Requests \ Sent
    BY <1>1, <2>2, RVizPanelsAssumption, RequestsDiffer DEF Sent
  <2>4. Sent' = Sent \cup {DownloadRequest(sent + 1)}
    <3>1. 1..(sent + 1) = (1..sent) \cup {sent + 1}
      BY <1>1
    <3>. QED
      BY <2>1, <3>1 DEF Sent
  <2>. QED
    BY <2>1, <2>3, <2>4
<1>3. CASE SendCall /\ UNCHANGED downloadVars
  <2>1. calls' = calls + 1 /\ sent' = sent /\ Send(CallRequest(calls + 1))
    BY <1>3 DEF SendCall, downloadVars
  <2>2. calls + 1 \in 1..MaxCalls
    BY <1>1, <1>3, ServicePanelAssumption DEF SendCall, ServicePanelInv
  <2>3. CallRequest(calls + 1) \in Requests \ Sent
    BY <1>1, <2>2, RVizPanelsAssumption, RequestsDiffer DEF Sent
  <2>4. Sent' = Sent \cup {CallRequest(calls + 1)}
    <3>1. 1..(calls + 1) = (1..calls) \cup {calls + 1}
      BY <1>1
    <3>. QED
      BY <2>1, <3>1 DEF Sent
  <2>. QED
    BY <2>1, <2>3, <2>4
<1>4. ASSUME UNCHANGED <<sent, calls>> PROVE Sent' = Sent
  BY <1>4 DEF Sent
<1>5. CASE Download /\ ~SendDownload
  <2>1. UNCHANGED <<nodeVars, sent, calls>>
    BY <1>5 DEF Download, DownloadNext, DownloadUser, DownloadWarning, DownloadClicked, CloseBox,
                ClosePanel, DownloadSlot, DownloadServiceFound, DownloadServiceMissing,
                DestroyPanel, ShowResponse, RosThread, SpinStarts, SpinEnds, ReceiveResponse,
                Worker, PostResponse, LogResponse, PromiseBroken, downloadVars, serviceVars
  <2>. QED
    BY <1>4, <2>1
<1>6. CASE Services /\ ~SendCall
  <2>1. UNCHANGED <<nodeVars, sent, calls>>
    BY <1>6 DEF Services, FormUser, ChooseNoModel, ChooseModel, PickRow, ChooseType, TypeName,
                CallClicked, ServiceSlot, CallServiceFound, CallServiceMissing, CallThrows,
                CallSucceeds, CallInterrupted, CallReturns, downloadVars
  <2>. QED
    BY <1>4, <2>1
<1>7. CASE Faults \/ Status \/ Signal
  <2>1. UNCHANGED <<nodeVars, sent, calls>>
    BY <1>7 DEF Faults, Status, Signal, panelVars, downloadVars, serviceVars
  <2>. QED
    BY <1>4, <2>1
<1>. QED
  BY <1>2, <1>3, <1>5, <1>6, <1>7 DEF Download, Services

\* Every step of a session is one of the node as RadarServices describes it, or leaves the
\* node alone.
LEMMA NodeSteps ==
    ASSUME PanelsInv, [Next]_vars
    PROVE  [NodeNext]_nodeVars
<1>1. CASE Download \/ Services \/ Faults \/ Status \/ Signal
  BY <1>1, PanelsSend DEF NodeNext
<1>2. CASE Node
  BY <1>2 DEF Node, Executor, NodeNext
<1>3. CASE UNCHANGED vars
  BY <1>3 DEF vars
<1>. QED
  BY <1>1, <1>2, <1>3 DEF Next

\* What a worker has, it received from the node, and the node keeps what it answered.
LEMMA WorkersReceive ==
    ASSUME PanelsInv, ResponsesAreOfClicks, [Next]_vars, responses \subseteq responses'
    PROVE  \A k \in Downloads :
               worker'[k] \in {"ready", "logging", "done"} => DownloadRequest(k) \in responses'
<1> USE DEF PanelsInv, DownloadPanelInv, DownloadTypeOK, ResponsesAreOfClicks
<1>1. CASE UNCHANGED worker
  BY <1>1
<1>2. CASE SendDownload
  BY <1>2 DEF SendDownload
<1>3. ASSUME NEW k \in Downloads, ReceiveResponse(k) \/ PostResponse(k) \/ LogResponse(k)
      PROVE  \A j \in Downloads :
               worker'[j] \in {"ready", "logging", "done"} => DownloadRequest(j) \in responses'
  BY <1>3 DEF ReceiveResponse, PostResponse, LogResponse
<1>4. Download => \/ UNCHANGED worker
                  \/ SendDownload
                  \/ \E k \in Downloads : ReceiveResponse(k) \/ PostResponse(k) \/ LogResponse(k)
  BY DEF Download, DownloadNext, DownloadUser, DownloadWarning, DownloadClicked, CloseBox,
         ClosePanel, DownloadSlot, DownloadServiceFound, DownloadServiceMissing, DestroyPanel,
         ShowResponse, RosThread, SpinStarts, SpinEnds, Worker, PromiseBroken, downloadVars
<1>5. Services \/ Faults \/ Status \/ Node \/ Signal \/ UNCHANGED vars => UNCHANGED worker
  BY DEF Services, Faults, Status, Node, Signal, vars, panelVars, downloadVars
<1>. QED
  BY <1>1, <1>2, <1>3, <1>4, <1>5 DEF Next

LEMMA ResponsesStep ==
    ASSUME PanelsInv, ResponsesAreOfClicks, [Next]_vars
    PROVE  ResponsesAreOfClicks'
<1> DEFINE Single == /\ waiting \cup serving \cup responses \subseteq Sent
                     /\ waiting \cap serving = {}
                     /\ (waiting \cup serving) \cap responses = {}
                     /\ \A r1, r2 \in serving : r1 = r2
<1>1. Single' /\ responses \subseteq responses'
  <2>1. CASE UNCHANGED nodeVars /\ Sent' = Sent
    BY <2>1 DEF nodeVars, ResponsesAreOfClicks
  <2>2. ASSUME NEW r \in Requests \ Sent, Send(r), Sent' = Sent \cup {r}
        PROVE  Single' /\ responses \subseteq responses'
    BY <2>2 DEF Send, ResponsesAreOfClicks
  <2>3. CASE Node
    <3>1. Sent' = Sent
      BY <2>3 DEF Node, panelVars, downloadVars, serviceVars, Sent
    <3>2. CASE NodeGoes \/ NodeReturns
      BY <3>1, <3>2 DEF NodeGoes, NodeReturns, ResponsesAreOfClicks
    <3>3. ASSUME NEW r \in Requests, Serve(r) \/ Respond(r)
          PROVE  Single' /\ responses \subseteq responses'
      BY <3>1, <3>3 DEF Serve, Respond, ResponsesAreOfClicks
    <3>. QED
      BY <2>3, <3>2, <3>3 DEF Node, Executor
  <2>4. UNCHANGED vars => UNCHANGED nodeVars /\ Sent' = Sent
    BY DEF vars, downloadVars, serviceVars, Sent
  <2>. QED
    BY <2>1, <2>2, <2>3, <2>4, PanelsSend DEF Next
<1>. QED
  BY <1>1, WorkersReceive DEF ResponsesAreOfClicks

-----------------------------------------------------------------------------

\* The invariant of the session holds whatever panels are open, whatever the user does and
\* whoever publishes.
THEOREM PanelsInvariance == Spec => []PanelsInv
  BY PanelsInitial, PanelsStep, PTL DEF Spec

\* The panels use the node only as RadarServices allows, which is what RadarNode implements:
\* a session and the process of the node compose.
THEOREM SessionUsesRadarServices == Spec => NodeInit /\ [][NodeNext]_nodeVars
<1>1. PanelsInv /\ [Next]_vars => [NodeNext]_nodeVars
  BY NodeSteps
<1>2. Init => NodeInit
  BY DEF Init
<1>. QED
  BY <1>1, <1>2, PanelsInvariance, PTL DEF Spec

\* No request is sent twice or answered twice, none is answered that no click sent, and a
\* worker shows the response to its own request, through any number of launches.
THEOREM OneResponsePerClick == Spec => []ResponsesAreOfClicks
<1>1. Init => ResponsesAreOfClicks
  BY DEF Init, NodeInit, DownloadInit, ResponsesAreOfClicks
<1>2. PanelsInv /\ ResponsesAreOfClicks /\ [Next]_vars => ResponsesAreOfClicks'
  BY ResponsesStep
<1>. QED
  BY <1>1, <1>2, PanelsInvariance, PTL DEF Spec

\* Every variable of the panels and of the node keeps its type.
THEOREM PanelsTypeCorrect == Spec => []TypeOK
<1>1. PanelsInv => TypeOK
  BY DEF PanelsInv, DownloadPanelInv, ServicePanelInv, FaultPanelInv, StatusPanelInv, TypeOK
<1>. QED
  BY <1>1, PanelsInvariance, PTL

\* The start button is disabled exactly while one request is on its way: no second download
\* is started from the panel, and no response leaves the button behind.
THEOREM ButtonIsExact == Spec => []ButtonMeansPending
<1>1. PanelsInv => ButtonMeansPending
  BY DEF PanelsInv, DownloadPanelInv
<1>. QED
  BY <1>1, PanelsInvariance, PTL

\* What a row shows is what the node is asked for, in the parameter and the status tab.
THEOREM TypesAgree == Spec => []TypesAgreeWithNode
<1>1. PanelsInv => TypesAgreeWithNode
  BY ServicePanelAgrees DEF PanelsInv
<1>. QED
  BY <1>1, PanelsInvariance, PTL

\* The dropdown, the subscription and the tables of the fault panel are about one topic.
THEOREM FaultsAgree == Spec => []FaultsAreOfSelection
<1>1. PanelsInv => FaultsAreOfSelection
  BY DEF PanelsInv, FaultPanelInv
<1>. QED
  BY <1>1, PanelsInvariance, PTL

\* The header shown is that of the selected topic, beside the labels of its kind.
THEOREM LabelsAgree == Spec => []LabelsMatchData
<1>1. PanelsInv => LabelsMatchData
  BY DEF PanelsInv, StatusPanelInv
<1>. QED
  BY <1>1, PanelsInvariance, PTL
=============================================================================
