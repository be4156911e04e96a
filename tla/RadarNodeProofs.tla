---------------------------- MODULE RadarNodeProofs ----------------------------
(***************************************************************************)
(* Proofs about RadarNode, for any number of clients, downloads and images. *)
(* The firmware update inside the node is the one of UpdateService with one *)
(* caller, so what is proved there holds here (Proved!IInv and              *)
(* Proved!OutcomeInv); the rest follows from where the executor is          *)
(* (ExecutorInv) and how far the shutdown is (ShutdownInv), and, for what    *)
(* is heard of a download after its answer, from what its client was told   *)
(* (ToldInv, LateInv).  Nothing is assumed of the library.                  *)
(***************************************************************************)
EXTENDS RadarNode, TLAPS

\* The theorems about UpdateService, for the caller there is.
Proved == INSTANCE UpdateServiceProofs WITH Callers <- {"executor"}

Inside == pc["executor"] # "idle"

\* The request under way has started a download, and was not answered.
Tracked == pc["executor"] \in {"wait", "sleeping", "abort", "timedout", "handle", "release"}

NodeTypes ==
    /\ context \in {"ok", "shut down"}
    /\ main \in {"spin", "wait", "handler", "left", "gone"}
    /\ asked \in [Clients -> Request]
    /\ stage \in [Clients -> {"free", "waiting", "serving", "answered"}]
    /\ told \in [Clients -> [text : Update!UpdateResults \cup {"", "rejected", "Success", "Failed"},
                             download : 0..MaxDownloads]]
    /\ signal \in {"none", "callbacks", "resting", "done"}
    /\ services \in {"up", "reset"}
    /\ overran \in BOOLEAN
    /\ fault \in {"none", "null m_services", "destroyed node", "destroyed service"}

\* A handler runs for one client, and a download only in that of firmware_download.
ExecutorInv ==
    /\ main = "handler" <=> \E c \in Clients : stage[c] = "serving"
    /\ \A c, d \in Clients : stage[c] = "serving" /\ stage[d] = "serving" => c = d
    /\ Inside => \E c \in Clients : /\ stage[c] = "serving"
                                    /\ asked[c].service = "firmware_download"
                                    /\ asked[c].valid

\* After the reset nobody uses m_services, or it came too early; main left because of
\* the shutdown.
ShutdownInv ==
    /\ signal = "none" <=> context = "ok"
    /\ services = "reset" <=> signal = "done"
    /\ main \in {"left", "gone"} => context # "ok"
    /\ services = "reset" /\ ~overran => ~MayUseServices

AnswersInv == NeverBusy /\ result["executor"] # "kBusy"

\* All of the invariant but what UpdateService gives.
NodeInv ==
    /\ NodeTypes
    /\ ExecutorInv
    /\ ShutdownInv
    /\ AnswersInv
    /\ HandlersFindServices

IInv == Proved!IInv /\ NodeInv

\* What an answer says is kept: nothing is told before it.
UntoldInv == \A c \in Clients : stage[c] # "answered" => told[c] = Nothing

\* The download behind a success is over or strayed, and was that of one request: the one
\* under way, if there is one, is behind no answer yet.
ToldInv ==
    \A c \in Clients :
        told[c].text = "kSuccess" =>
            /\ told[c].download \in 1..started
            /\ \/ downloads[told[c].download].status = "READY_SUCCESS"
               \/ told[c].download \in strayed
            /\ Tracked => told[c].download # started
            /\ \A d \in Clients \ {c} :
                  told[d].text = "kSuccess" => told[d].download # told[c].download

\* The client of this download was told an answer after which reports may follow.
ToldOpenly(d) ==
    \E c \in Clients : told[c].download = d /\ told[c].text \in {"kTimeout", "kUnknownError"}

\* More is heard of a download only while its request is under way, if it strayed, or if
\* its client was told so.
LateInv ==
    \A d \in 1..started :
        \/ Proved!Silent(d)
        \/ d \in strayed
        \/ Tracked /\ d = mine["executor"]
        \/ ToldOpenly(d)

\* What is known of the downloads and their answers, beside IInv.
OutcomeIInv ==
    /\ IInv
    /\ Proved!OutcomeInv
    /\ Tracked => mine["executor"] = started
    /\ UntoldInv
    /\ ToldInv
    /\ LateInv
    /\ ReportsComeInTime

-----------------------------------------------------------------------------
(* The firmware update of the node is the one proved about.                 *)

LEMMA SameEngine == Update!Engine <=> Proved!Engine
  BY DEF Update!Engine, Update!EngineStep, Update!Progress, Update!Complete, Update!Fail,
         Update!Running, Update!serviceVars, Update!historyVars, Update!DownloadIds, Update!Info,
         Proved!Engine, Proved!EngineStep, Proved!Progress, Proved!Complete, Proved!Fail,
         Proved!Running, Proved!serviceVars, Proved!historyVars, Proved!DownloadIds, Proved!Info

LEMMA SameCallback == Update!UpdateCallback <=> Proved!UpdateCallback
  <1> USE DEF Update!StoreHead, Update!Listening, Update!Goto, Update!engineVars,
              Update!historyVars,
              Proved!StoreHead, Proved!Listening, Proved!Goto, Proved!engineVars,
              Proved!historyVars
  <1>1. Update!StoreReport <=> Proved!StoreReport
    BY DEF Update!StoreReport, Proved!StoreReport
  <1>2. Update!NotifyOne <=> Proved!NotifyOne
    BY DEF Update!NotifyOne, Proved!NotifyOne
  <1>3. QED
    BY <1>1, <1>2 DEF Update!UpdateCallback, Proved!UpdateCallback

LEMMA SameCaller ==
    Update!StartSoftwareUpdate("executor") <=> Proved!StartSoftwareUpdate("executor")
  <1> USE DEF Update!Goto, Update!Return, Update!engineVars, Update!historyVars,
              Update!Info, Update!Finished, Update!Running, Update!DownloadIds,
              Proved!Goto, Proved!Return, Proved!engineVars, Proved!historyVars,
              Proved!Info, Proved!Finished, Proved!Running, Proved!DownloadIds
  <1>1. Update!Enter("executor") <=> Proved!Enter("executor")
    BY DEF Update!Enter, Proved!Enter
  <1>2. \A error \in EarlyErrors :
            Update!PrepareFails("executor", error) <=> Proved!PrepareFails("executor", error)
    BY DEF Update!PrepareFails, Proved!PrepareFails
  <1>3. \A size \in Sizes : Update!Prepare("executor", size) <=> Proved!Prepare("executor", size)
    BY DEF Update!Prepare, Proved!Prepare
  <1>4. Update!StartAccepted("executor") <=> Proved!StartAccepted("executor")
    BY DEF Update!StartAccepted, Update!AcceptDownload,
           Proved!StartAccepted, Proved!AcceptDownload
  <1>5. Update!StartFails("executor") <=> Proved!StartFails("executor")
    BY DEF Update!StartFails, Proved!StartFails
  <1>6. Update!CheckPredicate("executor") <=> Proved!CheckPredicate("executor")
    BY DEF Update!CheckPredicate, Proved!CheckPredicate
  <1>7. Update!TimeoutExpires("executor") <=> Proved!TimeoutExpires("executor")
    BY DEF Update!TimeoutExpires, Proved!TimeoutExpires
  <1>8. Update!Abort("executor") <=> Proved!Abort("executor")
    <2>1. Update!StopDownloads <=> Proved!StopDownloads
      BY DEF Update!StopDownloads, Proved!StopDownloads
    <2>2. Update!StopNothing <=> Proved!StopNothing
      BY DEF Update!StopNothing, Proved!StopNothing
    <2>3. QED
      BY <2>1, <2>2 DEF Update!Abort, Update!AbortDownloads, Proved!Abort, Proved!AbortDownloads
  <1>9. Update!ReturnTimeout("executor") <=> Proved!ReturnTimeout("executor")
    BY DEF Update!ReturnTimeout, Proved!ReturnTimeout
  <1>10. Update!Handle("executor") <=> Proved!Handle("executor")
    BY DEF Update!Handle, Update!HandleResult, Proved!Handle, Proved!HandleResult
  <1>11. Update!Release("executor") <=> Proved!Release("executor")
    BY DEF Update!Release, Proved!Release
  <1>12. QED
    BY <1>1, <1>2, <1>3, <1>4, <1>5, <1>6, <1>7, <1>8, <1>9, <1>10, <1>11
       DEF Update!StartSoftwareUpdate, Proved!StartSoftwareUpdate

LEMMA SameInit == Update!Init <=> Proved!Init
  BY DEF Update!Init, Update!EngineInit, Update!Info, Update!DownloadIds,
         Proved!Init, Proved!EngineInit, Proved!Info, Proved!DownloadIds

\* Every step of the node is one of the firmware update, or leaves it alone.
LEMMA StepIsUpdate ==
    ASSUME [Next]_vars
    PROVE  [Proved!Next]_(Proved!vars)
  <1> USE DEF Proved!vars, Proved!serviceVars, Proved!historyVars, Proved!engineVars, updateVars
  <1>1. ASSUME UNCHANGED updateVars PROVE UNCHANGED Proved!vars
    BY <1>1
  <1>2. CASE Engine \/ UpdateCallback \/ LibraryCallback
    BY <1>1, <1>2, SameEngine, SameCallback
       DEF Engine, UpdateCallback, LibraryCallback, Proved!Next
  <1>3. ASSUME NEW c \in Clients, FirmwareDownload(c)
        PROVE  Proved!Next
    BY <1>3, SameCaller DEF FirmwareDownload, Proved!Next
  <1>4. CASE MainThread
    BY <1>1, <1>3, <1>4
       DEF MainThread, Spin, WakeUp, DestroyNode, Take, Reject, UseServices
  <1>5. CASE Shutdown \/ OnShutdownCallback \/ \E c \in Clients, r \in Request : Send(c, r)
    BY <1>1, <1>5 DEF Shutdown, OnShutdownCallback, RequestShutdown, ResetServices, Send
  <1>6. CASE UNCHANGED vars
    BY <1>1, <1>6 DEF vars
  <1>7. QED
    BY <1>2, <1>4, <1>5, <1>6 DEF Next

\* What is proved about UpdateService, of this one.
LEMMA UpdateInit == Init => Proved!IInv /\ Proved!OutcomeInv
  BY SameInit, Proved!InvariantInit, Proved!OutcomeInit, NodeAssumption
     DEF Init, Update!FailureStatuses, Proved!FailureStatuses

LEMMA UpdateStep == Proved!IInv /\ [Next]_vars => (Proved!IInv)'
  BY StepIsUpdate, Proved!InvariantStep, NodeAssumption
     DEF Update!FailureStatuses, Proved!FailureStatuses

LEMMA OutcomeOfStep == Proved!IInv /\ Proved!OutcomeInv /\ [Next]_vars => (Proved!OutcomeInv)'
  BY StepIsUpdate, Proved!OutcomeStep, NodeAssumption
     DEF Update!FailureStatuses, Proved!FailureStatuses
-----------------------------------------------------------------------------
(* What the node needs of it.                                               *)

LEMMA SameTypes == /\ Update!TypeOK <=> Proved!TypeOK
                   /\ Update!TypeOK' <=> Proved!TypeOK'
  BY DEF Update!TypeOK, Update!EngineTypeOK, Update!DownloadIds, Update!Download,
         Update!SWUpdateInfo, Update!Statuses, Update!FailureStatuses, Update!Steps,
         Update!UpdateResults,
         Proved!TypeOK, Proved!EngineTypeOK, Proved!DownloadIds, Proved!Download,
         Proved!SWUpdateInfo, Proved!Statuses, Proved!FailureStatuses, Proved!Steps,
         Proved!UpdateResults

LEMMA UpdateFacts ==
    ASSUME Proved!IInv
    PROVE  /\ Update!TypeOK
           /\ update_in_progress <=> Inside
  BY SameTypes DEF Proved!IInv, Proved!FlagMeansUpdating, Proved!Updating, Inside

\* No download runs outside a request, but one that outlived its own.
LEMMA QuietOutside ==
    ASSUME Proved!OutcomeInv, ~Inside
    PROVE  \A d \in Update!DownloadIds : Update!Running(d) => Update!MayOutlive(d)
  <1>1. ~Proved!Waiting("executor")
    BY DEF Inside, Proved!Waiting
  <1>2. \A d \in Proved!DownloadIds : Proved!Running(d) => Proved!MayOutlive(d)
    BY <1>1 DEF Proved!OutcomeInv, Proved!DownloadEndsWithRequest
  <1>3. QED
    BY <1>2 DEF Update!DownloadIds, Update!Running, Update!MayOutlive,
                Proved!DownloadIds, Proved!Running, Proved!MayOutlive

\* A step of the download: the gate lets the executor in, and no answer is kBusy.
LEMMA DownloadStep ==
    ASSUME Update!TypeOK, update_in_progress <=> Inside, result["executor"] # "kBusy",
           Update!StartSoftwareUpdate("executor")
    PROVE  /\ ~Inside => Inside'
           /\ result'["executor"] # "kBusy"
  <1> USE DEF Inside, Update!Goto, Update!Return, Update!TypeOK, Update!Steps
  <1>1. CASE Update!Enter("executor")
    BY <1>1 DEF Update!Enter
  <1>2. ASSUME NEW error \in EarlyErrors, Update!PrepareFails("executor", error)
        PROVE  Inside /\ result'["executor"] # "kBusy"
    BY <1>2, NodeAssumption DEF Update!PrepareFails
  <1>3. ASSUME NEW size \in Sizes, Update!Prepare("executor", size)
        PROVE  Inside /\ result'["executor"] # "kBusy"
    BY <1>3 DEF Update!Prepare
  <1>4. CASE Update!StartAccepted("executor") \/ Update!StartFails("executor")
    BY <1>4 DEF Update!StartAccepted, Update!StartFails
  <1>5. CASE Update!CheckPredicate("executor") \/ Update!TimeoutExpires("executor")
    BY <1>5 DEF Update!CheckPredicate, Update!TimeoutExpires
  <1>6. CASE Update!Abort("executor") \/ Update!ReturnTimeout("executor")
    BY <1>6 DEF Update!Abort, Update!ReturnTimeout
  <1>7. CASE Update!Handle("executor")
    <2>1. Update!HandleResult(updateInfo.status) # "kBusy"
      BY DEF Update!HandleResult
    <2>2. QED
      BY <1>7, <2>1 DEF Update!Handle
  <1>8. CASE Update!Release("executor")
    BY <1>8 DEF Update!Release
  <1>9. QED
    BY <1>1, <1>2, <1>3, <1>4, <1>5, <1>6, <1>7, <1>8 DEF Update!StartSoftwareUpdate

\* What the library does leaves the executor where it is in the download.
LEMMA LibraryFrame ==
    ASSUME Update!TypeOK, Update!Engine \/ Update!UpdateCallback
    PROVE  /\ Inside' = Inside
           /\ result' = result
  BY DEF Inside, Update!TypeOK, Update!Engine, Update!serviceVars, Update!UpdateCallback,
         Update!StoreReport, Update!NotifyOne, Update!Goto, Update!engineVars

-----------------------------------------------------------------------------
(* The steps of the node.                                                   *)

LEMMA NodeInvInit == Init => NodeInv
  <1> SUFFICES ASSUME Init PROVE NodeInv
    OBVIOUS
  <1> USE DEF Init, Update!Init
  <1>1. NodeTypes
    <2>1. 0 \in 0..MaxDownloads
      BY NodeAssumption
    <2>2. NoRequest \in Request
      BY DEF NoRequest, Request
    <2>3. told \in [Clients -> [text : {""}, download : 0..MaxDownloads]]
      BY <2>1 DEF Nothing
    <2>4. QED
      BY <2>2, <2>3 DEF NodeTypes
  <1>2. ExecutorInv
    BY DEF ExecutorInv, Inside
  <1>3. ShutdownInv
    BY DEF ShutdownInv
  <1>4. AnswersInv
    BY DEF AnswersInv, NeverBusy, Nothing
  <1>5. HandlersFindServices
    BY DEF HandlersFindServices
  <1>6. QED
    BY <1>1, <1>2, <1>3, <1>4, <1>5 DEF NodeInv

\* A client asks.
LEMMA SendNodeInv ==
    ASSUME NodeInv, NEW c \in Clients, NEW r \in Request, Send(c, r)
    PROVE  NodeInv'
  <1> USE DEF NodeInv, Send, processVars, updateVars
  <1>1. NodeTypes'
    BY DEF NodeTypes
  <1>2. \A d \in Clients : /\ stage'[d] = "serving" <=> stage[d] = "serving"
                           /\ stage[d] = "serving" => asked'[d] = asked[d]
    BY DEF NodeTypes
  <1>3. ExecutorInv' /\ ShutdownInv'
    BY <1>2 DEF ExecutorInv, ShutdownInv, MayUseServices, Inside
  <1>4. AnswersInv' /\ HandlersFindServices'
    BY DEF AnswersInv, NeverBusy, HandlersFindServices
  <1>5. QED
    BY <1>1, <1>3, <1>4

\* The executor between two handlers.
LEMMA LoopNodeInv ==
    ASSUME NodeInv, fault = "none", Spin \/ WakeUp \/ DestroyNode
    PROVE  NodeInv'
  <1> USE DEF NodeInv, Spin, WakeUp, DestroyNode, clientVars, updateVars
  <1>1. NodeTypes'
    BY DEF NodeTypes
  <1>2. ExecutorInv'
    BY DEF ExecutorInv, Inside
  <1>3. ShutdownInv'
    BY DEF ShutdownInv, MayUseServices, NodeTypes
  <1>4. AnswersInv' /\ HandlersFindServices'
    BY DEF AnswersInv, NeverBusy, HandlersFindServices
  <1>5. QED
    BY <1>1, <1>2, <1>3, <1>4

\* A request is taken: from the wait, in which nobody is served.
LEMMA TakeNodeInv ==
    ASSUME NodeInv, fault = "none", NEW c \in Clients, Take(c)
    PROVE  NodeInv'
  <1> USE DEF NodeInv, Take, updateVars
  <1>1. NodeTypes'
    BY DEF NodeTypes
  <1>2. /\ \A d \in Clients : stage[d] # "serving"
        /\ \A d \in Clients : stage'[d] = "serving" <=> d = c
        /\ ~Inside
    BY DEF ExecutorInv, NodeTypes
  <1>3. ExecutorInv'
    BY <1>2 DEF ExecutorInv, Inside
  <1>4. ShutdownInv'
    BY DEF ShutdownInv, MayUseServices, NodeTypes
  <1>5. AnswersInv' /\ HandlersFindServices'
    BY DEF AnswersInv, NeverBusy, HandlersFindServices
  <1>6. QED
    BY <1>1, <1>3, <1>4, <1>5

\* An answer ends the only handler there is.
LEMMA AnswerNodeInv ==
    ASSUME NodeInv, fault = "none", NEW c \in Clients, stage[c] = "serving",
           NEW text \in (Update!UpdateResults \cup {"", "rejected", "Success", "Failed"}) \ {"kBusy"},
           NEW d \in 0..MaxDownloads, Answer(c, text, d),
           UNCHANGED <<asked, context, signal, services, overran, fault>>,
           ~Inside', result'["executor"] # "kBusy"
    PROVE  NodeInv'
  <1> USE DEF NodeInv, Answer
  <1>1. NodeTypes'
    BY DEF NodeTypes
  <1>2. \A e \in Clients : stage'[e] # "serving"
    BY DEF ExecutorInv, NodeTypes
  <1>3. ExecutorInv'
    BY <1>2 DEF ExecutorInv
  <1>4. ShutdownInv'
    BY <1>2 DEF ShutdownInv, MayUseServices
  <1>5. AnswersInv' /\ HandlersFindServices'
    BY DEF AnswersInv, NeverBusy, HandlersFindServices, NodeTypes
  <1>6. QED
    BY <1>1, <1>3, <1>4, <1>5

\* While a handler other than that of firmware_download runs there is no download.
LEMMA NoDownloadMeanwhile ==
    ASSUME NodeInv, NEW c \in Clients, stage[c] = "serving",
           asked[c].service # "firmware_download" \/ ~asked[c].valid
    PROVE  ~Inside
  BY DEF NodeInv, ExecutorInv

LEMMA RejectNodeInv ==
    ASSUME NodeInv, fault = "none", NEW c \in Clients, Reject(c)
    PROVE  NodeInv'
  <1>1. ~Inside' /\ result'["executor"] # "kBusy"
    BY NoDownloadMeanwhile DEF Reject, updateVars, Inside, NodeInv, AnswersInv
  <1>2. 0 \in 0..MaxDownloads
    BY NodeAssumption
  <1>3. QED
    BY <1>1, <1>2, AnswerNodeInv DEF Reject, updateVars

\* The handler finds m_services, or the reset came too early.
LEMMA UseServicesNodeInv ==
    ASSUME NodeInv, fault = "none", NEW c \in Clients, UseServices(c)
    PROVE  NodeInv'
  <1>1. ~Inside' /\ result'["executor"] # "kBusy"
    BY NoDownloadMeanwhile DEF UseServices, updateVars, Inside, NodeInv, AnswersInv
  <1>2. 0 \in 0..MaxDownloads
    BY NodeAssumption
  <1>3. CASE services # "reset"
    BY <1>1, <1>2, <1>3, AnswerNodeInv DEF UseServices, updateVars
  <1>4. CASE services = "reset"
    <2> USE <1>4 DEF UseServices, updateVars, NodeInv
    <2>1. MayUseServices
      BY DEF MayUseServices
    <2>2. NodeTypes'
      BY DEF NodeTypes
    <2>3. ExecutorInv'
      BY DEF ExecutorInv, Inside
    <2>4. ShutdownInv'
      BY DEF ShutdownInv, MayUseServices
    <2>5. HandlersFindServices'
      BY <2>1 DEF ShutdownInv, HandlersFindServices
    <2>6. AnswersInv'
      BY DEF AnswersInv, NeverBusy
    <2>7. QED
      BY <2>2, <2>3, <2>4, <2>5, <2>6
  <1>5. QED
    BY <1>3, <1>4

\* A step of the download, or its end.
LEMMA FirmwareNodeInv ==
    ASSUME NodeInv, Proved!IInv, (Proved!IInv)', fault = "none", NEW c \in Clients, FirmwareDownload(c)
    PROVE  NodeInv'
  <1>1. /\ ~Inside => Inside'
        /\ result'["executor"] # "kBusy"
       
    BY UpdateFacts, DownloadStep DEF FirmwareDownload, NodeInv, AnswersInv
  <1>2. CASE ~Inside'
    <2>1. Update!TypeOK'
      BY SameTypes DEF Proved!IInv
    <2>2. result'["executor"] \in Update!UpdateResults /\ mine'["executor"] \in 0..MaxDownloads
      BY <2>1 DEF Update!TypeOK
    <2>3. Answer(c, result'["executor"], mine'["executor"])
      BY <1>2 DEF FirmwareDownload, Inside
    <2>4. QED
      BY <1>1, <1>2, <2>2, <2>3, AnswerNodeInv DEF FirmwareDownload
  <1>3. CASE Inside'
    <2> USE <1>3 DEF NodeInv, FirmwareDownload, Inside
    <2>1. UNCHANGED <<stage, told, main>>
      OBVIOUS
    <2>2. NodeTypes'
      BY <2>1 DEF NodeTypes
    <2>3. ExecutorInv'
      BY <2>1 DEF ExecutorInv
    <2>4. ShutdownInv'
      BY <1>1, <2>1 DEF ShutdownInv, MayUseServices
    <2>5. AnswersInv' /\ HandlersFindServices'
      BY <1>1, <2>1 DEF AnswersInv, NeverBusy, HandlersFindServices
    <2>6. QED
      BY <2>2, <2>3, <2>4, <2>5
  <1>4. QED
    BY <1>2, <1>3

\* The signal handler: m_services is reset under a handler, or nobody uses it any more.
LEMMA SignalNodeInv ==
    ASSUME NodeInv, fault = "none", Shutdown \/ RequestShutdown \/ ResetServices
    PROVE  NodeInv'
  <1> USE DEF NodeInv, Shutdown, RequestShutdown, ResetServices, clientVars, updateVars
  <1>1. NodeTypes'
    BY DEF NodeTypes, MayUseServices
  <1>2. ExecutorInv'
    BY DEF ExecutorInv, Inside
  <1>3. MayUseServices' = MayUseServices
    BY DEF MayUseServices
  <1>4. ShutdownInv'
    <2>1. CASE Shutdown \/ RequestShutdown
      BY <1>3, <2>1 DEF ShutdownInv, NodeTypes
    <2>2. CASE ResetServices
      <3>1. services' = "reset" /\ ~overran' => ~MayUseServices'
        BY <1>3, <2>2
      <3>2. QED
        BY <2>2, <3>1 DEF ShutdownInv, NodeTypes
    <2>3. QED
      BY <2>1, <2>2
  <1>5. AnswersInv' /\ HandlersFindServices'
    BY DEF AnswersInv, NeverBusy, HandlersFindServices
  <1>6. QED
    BY <1>1, <1>2, <1>4, <1>5

\* The library sends a report, stores it, or finds that the service is gone.
LEMMA LibraryNodeInv ==
    ASSUME NodeInv, Proved!IInv, fault = "none", Engine \/ UpdateCallback \/ LibraryCallback
    PROVE  NodeInv'
  <1>1. Update!TypeOK
    BY UpdateFacts
  <1>2. ASSUME UNCHANGED <<clientVars, processVars>>, Inside' = Inside, result' = result
        PROVE  NodeInv'
    <2> USE <1>2 DEF NodeInv, clientVars, processVars
    <2>1. NodeTypes'
      BY DEF NodeTypes
    <2>2. ExecutorInv'
      BY DEF ExecutorInv
    <2>3. ShutdownInv'
      BY DEF ShutdownInv, MayUseServices
    <2>4. AnswersInv' /\ HandlersFindServices'
      BY DEF AnswersInv, NeverBusy, HandlersFindServices
    <2>5. QED
      BY <2>1, <2>2, <2>3, <2>4
  <1>3. CASE Engine
    BY <1>1, <1>2, <1>3, LibraryFrame DEF Engine
  <1>4. CASE UpdateCallback /\ main # "gone"
    BY <1>1, <1>2, <1>4, LibraryFrame DEF UpdateCallback
  <1>5. CASE main = "gone" /\ (UpdateCallback \/ LibraryCallback)
    <2> USE <1>5 DEF NodeInv, UpdateCallback, LibraryCallback, clientVars, updateVars
    <2>1. NodeTypes' /\ ExecutorInv'
      BY DEF NodeTypes, ExecutorInv, Inside
    <2>2. ShutdownInv'
      BY DEF ShutdownInv, MayUseServices
    <2>3. AnswersInv' /\ HandlersFindServices'
      BY DEF AnswersInv, NeverBusy, HandlersFindServices
    <2>4. QED
      BY <2>1, <2>2, <2>3
  <1>6. QED
    BY <1>3, <1>4, <1>5 DEF LibraryCallback

LEMMA StutterNodeInv == ASSUME NodeInv, UNCHANGED vars PROVE NodeInv'
  BY DEF NodeInv, NodeTypes, ExecutorInv, ShutdownInv, AnswersInv, NeverBusy, Inside,
         HandlersFindServices, MayUseServices, vars, clientVars,
         processVars, updateVars

LEMMA NodeInvStep ==
    ASSUME NodeInv, Proved!IInv, (Proved!IInv)', [Next]_vars
    PROVE  NodeInv'
  BY SendNodeInv, LoopNodeInv, TakeNodeInv, RejectNodeInv, UseServicesNodeInv, FirmwareNodeInv,
     SignalNodeInv, LibraryNodeInv, StutterNodeInv
     DEF Next, MainThread, OnShutdownCallback
-----------------------------------------------------------------------------
(* Downloads and answers.                                                   *)

\* Every step is one of the library's, one of the download under way, or leaves both alone
\* and answers at most a request of another kind.
LEMMA StepKinds ==
    ASSUME [Next]_vars
    PROVE  \/ UNCHANGED <<updateVars, told>>
           \/ /\ UNCHANGED updateVars
              /\ \E c \in Clients : \E text \in {"rejected", "Success", "Failed"} :
                    /\ stage[c] = "serving"
                    /\ told' = [told EXCEPT ![c] = [text |-> text, download |-> 0]]
           \/ (Proved!Engine \/ Proved!UpdateCallback) /\ UNCHANGED told
           \/ \E c \in Clients : FirmwareDownload(c)
  <1>1. ASSUME NEW c \in Clients, Reject(c) \/ UseServices(c)
        PROVE  /\ UNCHANGED updateVars /\ stage[c] = "serving"
               /\ \/ UNCHANGED told
                  \/ \E text \in {"rejected", "Success", "Failed"} :
                        told' = [told EXCEPT ![c] = [text |-> text, download |-> 0]]
    BY <1>1 DEF Reject, UseServices, Answer
  <1>2. CASE \E c \in Clients : Reject(c) \/ UseServices(c)
    BY <1>1, <1>2
  <1>3. CASE Engine \/ UpdateCallback \/ LibraryCallback
    BY <1>3, SameEngine, SameCallback DEF Engine, UpdateCallback, LibraryCallback, clientVars
  <1>4. QED
    BY <1>2, <1>3
       DEF Next, vars, clientVars, MainThread, Spin, WakeUp, DestroyNode, Take, Send, Shutdown,
           OnShutdownCallback, RequestShutdown, ResetServices

\* The library leaves the callers in their downloads, but for a wakeup.
LEMMA LibraryTracks ==
    ASSUME Proved!IInv, Proved!Engine \/ Proved!UpdateCallback
    PROVE  UNCHANGED <<mine, started, result>> /\ (Tracked <=> Tracked')
  <1> USE DEF Proved!IInv, Proved!TypeOK, Tracked
  <1>1. CASE Proved!Engine
    BY <1>1 DEF Proved!Engine, Proved!EngineStep, Proved!Progress, Proved!Complete, Proved!Fail,
                Proved!serviceVars, Proved!historyVars
  <1>2. CASE Proved!UpdateCallback
    BY <1>2 DEF Proved!UpdateCallback, Proved!StoreReport, Proved!StoreHead, Proved!NotifyOne,
                Proved!Goto, Proved!engineVars, Proved!historyVars
  <1>3. QED
    BY <1>1, <1>2

\* A download is tracked from its start until its request returns: with a timeout, or with
\* the result it was given.
LEMMA RequestTracks ==
    ASSUME Proved!IInv, Update!StartSoftwareUpdate("executor")
    PROVE  \/ /\ ~Tracked /\ ~Tracked' /\ UNCHANGED started
              /\ pc'["executor"] = "idle" => result'["executor"] # "kSuccess"
           \/ Tracked /\ UNCHANGED <<mine, started>> /\ Tracked' /\ pc'["executor"] # "idle"
           \/ /\ Tracked /\ UNCHANGED <<mine, started>> /\ ~Tracked' /\ pc'["executor"] = "idle"
              /\ \/ result'["executor"] = "kTimeout"
                 \/ /\ pc["executor"] = "release" /\ UNCHANGED <<downloads, strayed>>
                    /\ result'["executor"] = result["executor"]
           \/ /\ ~Tracked /\ Tracked' /\ pc'["executor"] # "idle"
              /\ started' = started + 1 /\ mine'["executor"] = started'
  <1> USE DEF Proved!IInv, Proved!TypeOK, Proved!Steps, Tracked, Proved!Goto, Proved!Return,
              Proved!engineVars, Proved!historyVars
  <1>1. CASE Proved!StartAccepted("executor")
    BY <1>1 DEF Proved!StartAccepted, Proved!AcceptDownload
  <1>2. CASE Proved!Abort("executor")
    BY <1>2 DEF Proved!Abort, Proved!AbortDownloads, Proved!StopDownloads, Proved!StopNothing
  <1>3. CASE Proved!ReturnTimeout("executor")
    BY <1>3 DEF Proved!ReturnTimeout
  <1>4. CASE Proved!Release("executor")
    BY <1>4 DEF Proved!Release
  <1>5. CASE \/ Proved!Handle("executor") \/ Proved!CheckPredicate("executor")
             \/ Proved!TimeoutExpires("executor")
    BY <1>5 DEF Proved!Handle, Proved!CheckPredicate, Proved!TimeoutExpires
  <1>6. CASE Proved!Enter("executor") \/ Proved!StartFails("executor")
    BY <1>6 DEF Proved!Enter, Proved!StartFails
  <1>7. ASSUME NEW error \in EarlyErrors, Proved!PrepareFails("executor", error)
        PROVE  ~Tracked /\ ~Tracked' /\ UNCHANGED started /\ result'["executor"] # "kSuccess"
    BY <1>7, NodeAssumption DEF Proved!PrepareFails
  <1>8. ASSUME NEW size \in Sizes, Proved!Prepare("executor", size)
        PROVE  ~Tracked /\ ~Tracked' /\ UNCHANGED started /\ pc'["executor"] # "idle"
    BY <1>8 DEF Proved!Prepare
  <1>9. QED
    BY SameCaller, <1>1, <1>2, <1>3, <1>4, <1>5, <1>6, <1>7, <1>8
       DEF Proved!StartSoftwareUpdate

\* So the tracked download is always the one started last.
LEMMA TrackedStep ==
    ASSUME Proved!IInv, Tracked => mine["executor"] = started, [Next]_vars
    PROVE  /\ Tracked' => mine'["executor"] = started'
           /\ Tracked' => (Tracked /\ started' = started) \/ started' = started + 1
           /\ started' = started \/ (Tracked' /\ started' = started + 1)
  <1>1. CASE UNCHANGED updateVars
    BY <1>1 DEF updateVars, Tracked
  <1>2. CASE Proved!Engine \/ Proved!UpdateCallback
    BY <1>2, LibraryTracks
  <1>3. CASE \E c \in Clients : FirmwareDownload(c)
    BY <1>3, RequestTracks DEF FirmwareDownload
  <1>4. QED
    BY <1>1, <1>2, <1>3, StepKinds

\* A client that was not answered was told nothing.
LEMMA UntoldStep ==
    ASSUME NodeTypes, UntoldInv, [Next]_vars
    PROVE  UntoldInv'
  <1> USE DEF UntoldInv, NodeTypes
  <1>1. CASE UNCHANGED <<stage, told>>
    BY <1>1
  <1>2. ASSUME NEW c \in Clients, NEW text, NEW d, Answer(c, text, d)
        PROVE  UntoldInv'
    BY <1>2 DEF Answer
  <1>3. ASSUME NEW c \in Clients, Reject(c) \/ UseServices(c) \/ FirmwareDownload(c)
        PROVE  UntoldInv'
    BY <1>1, <1>2, <1>3 DEF Reject, UseServices, FirmwareDownload
  <1>4. ASSUME NEW c \in Clients, Take(c)
        PROVE  UntoldInv'
    BY <1>4 DEF Take
  <1>5. ASSUME NEW c \in Clients, NEW r \in Request, Send(c, r)
        PROVE  UntoldInv'
    BY <1>5 DEF Send
  <1>6. QED
    BY <1>1, <1>3, <1>4, <1>5
       DEF Next, vars, clientVars, MainThread, Spin, WakeUp, DestroyNode, Shutdown,
           OnShutdownCallback, RequestShutdown, ResetServices, Engine, UpdateCallback,
           LibraryCallback

\* A request that ends with "kSuccess" ends the wait for its own, finished download, or for
\* one that strayed.
LEMMA SuccessAnswer ==
    ASSUME Proved!IInv, Proved!OutcomeInv, Tracked => mine["executor"] = started,
           Update!StartSoftwareUpdate("executor"),
           pc'["executor"] = "idle", result'["executor"] = "kSuccess"
    PROVE  /\ Tracked /\ ~Tracked'
           /\ mine'["executor"] = started /\ started \in 1..started
           /\ downloads[started].status = "READY_SUCCESS" \/ started \in strayed
           /\ UNCHANGED <<downloads, started, strayed>>
  <1>1. /\ Tracked /\ ~Tracked' /\ pc["executor"] = "release"
        /\ result["executor"] = "kSuccess" /\ UNCHANGED <<mine, downloads, started, strayed>>
    BY RequestTracks
  <1>2. mine["executor"] = started /\ mine["executor"] \in 1..started
    BY <1>1 DEF Proved!OutcomeInv, Proved!InfoIsOwn
  <1>3. downloads[started].status = "READY_SUCCESS" \/ started \in strayed
    BY <1>1, <1>2 DEF Proved!OutcomeInv, Proved!SuccessIsOwn
  <1>4. QED
    BY <1>1, <1>2, <1>3

\* What is over or strayed is so for good.
LEMMA GrowsOnly ==
    ASSUME Proved!IInv, [Next]_vars
    PROVE  /\ started \in Nat /\ started' \in Nat /\ started <= started'
           /\ \A d \in 1..started : downloads[d].status # "RUNNING" =>
                                        downloads'[d].status = downloads[d].status
           /\ strayed \subseteq strayed'
  <1>1. Proved!TypeOK /\ [Proved!Next]_(Proved!vars)
    BY StepIsUpdate DEF Proved!IInv
  <1>2. QED
    BY <1>1, Proved!FinalStays, Proved!StrayedStays, NodeAssumption
       DEF Update!FailureStatuses, Proved!FailureStatuses

\* A success stays one that was told of its own download, and a new one is.
LEMMA ToldStep ==
    ASSUME OutcomeIInv, [Next]_vars
    PROVE  ToldInv'
  <1> USE DEF OutcomeIInv, IInv
  <1>1. /\ started \in Nat /\ started' \in Nat /\ started <= started'
        /\ \A d \in 1..started : downloads[d].status # "RUNNING" =>
                                     downloads'[d].status = downloads[d].status
        /\ strayed \subseteq strayed'
    BY GrowsOnly
  <1>2. Tracked' => (Tracked /\ started' = started) \/ started' = started + 1
    BY TrackedStep
  <1>3. ASSUME NEW c \in Clients, told[c].text = "kSuccess"
        PROVE  /\ told[c].download \in 1..started'
               /\ \/ downloads'[told[c].download].status = "READY_SUCCESS"
                  \/ told[c].download \in strayed'
               /\ Tracked' => told[c].download # started'
    BY <1>1, <1>2, <1>3 DEF ToldInv
  <1>4. CASE told' = told
    BY <1>3, <1>4 DEF ToldInv
  <1>5. ASSUME NEW c \in Clients, NEW text, NEW last,
               told' = [told EXCEPT ![c] = [text |-> text, download |-> last]],
               text = "kSuccess" =>
                   /\ Update!StartSoftwareUpdate("executor")
                   /\ pc'["executor"] = "idle" /\ result'["executor"] = "kSuccess"
                   /\ last = mine'["executor"]
        PROVE  ToldInv'
    <2>1. /\ told'[c].text = text /\ told'[c].download = last
          /\ \A d \in Clients \ {c} : told'[d] = told[d]
      BY <1>5 DEF NodeInv, NodeTypes
    <2>2. CASE text # "kSuccess"
      BY <1>3, <2>1, <2>2 DEF ToldInv
    <2>3. CASE text = "kSuccess"
      <3>1. /\ Tracked /\ ~Tracked' /\ last = started /\ started \in 1..started'
            /\ downloads'[started].status = "READY_SUCCESS" \/ started \in strayed'
        BY <1>1, <1>5, <2>3, SuccessAnswer
      <3>2. \A d \in Clients : told[d].text = "kSuccess" => told[d].download # started
        BY <3>1 DEF ToldInv
      <3>3. QED
        BY <1>3, <2>1, <2>3, <3>1, <3>2 DEF ToldInv
    <2>4. QED
      BY <2>2, <2>3
  <1>6. ASSUME NEW c \in Clients, FirmwareDownload(c)
        PROVE  ToldInv'
    BY <1>4, <1>5, <1>6 DEF FirmwareDownload, Answer
  <1>7. QED
    BY <1>4, <1>5, <1>6, StepKinds

\* What a client was told is not told anew: an answer goes to a client that was told nothing.
LEMMA OpenlyStays ==
    ASSUME NodeTypes, UntoldInv, NEW c \in Clients, stage[c] = "serving", NEW text, NEW last,
           told' = [told EXCEPT ![c] = [text |-> text, download |-> last]],
           NEW d, ToldOpenly(d)
    PROVE  ToldOpenly(d)'
  <1>1. PICK e \in Clients : told[e].download = d /\ told[e].text \in {"kTimeout", "kUnknownError"}
    BY DEF ToldOpenly
  <1>2. told[c].text = ""
    <2>1. told[c] = Nothing
      BY DEF UntoldInv
    <2>2. Nothing.text = ""
      BY DEF Nothing
    <2>3. QED
      BY <2>1, <2>2
  <1>3. told'[e] = told[e]
    BY <1>1, <1>2 DEF NodeTypes
  <1>4. QED
    BY <1>1, <1>3 DEF ToldOpenly

\* A download nothing more will be heard of stays one.
LEMMA SilenceStays ==
    ASSUME Proved!IInv, Proved!OutcomeInv, [Next]_vars, NEW d \in 1..started, Proved!Silent(d)
    PROVE  Proved!Silent(d)'
  <1>1. Proved!TypeOK /\ Proved!BytesFit /\ [Proved!Next]_(Proved!vars)
    BY StepIsUpdate DEF Proved!IInv, Proved!OutcomeInv
  <1>2. QED
    BY <1>1, Proved!SilentStays, NodeAssumption
       DEF Update!FailureStatuses, Proved!FailureStatuses

\* The answer that ends the tracking of a download leaves it silent or strayed, or says
\* "timed out" or "unknown error".
LEMMA AnswerSettles ==
    ASSUME OutcomeIInv, [Next]_vars, NEW c \in Clients, FirmwareDownload(c), Tracked, ~Tracked',
           NEW d, d = mine["executor"]
    PROVE  Proved!Silent(d)' \/ d \in strayed' \/ ToldOpenly(d)'
  <1> USE DEF OutcomeIInv, IInv
  <1>1. /\ mine'["executor"] = d /\ pc'["executor"] = "idle"
        /\ \/ result'["executor"] = "kTimeout"
           \/ pc["executor"] = "release" /\ result'["executor"] = result["executor"]
    BY RequestTracks DEF FirmwareDownload
  <1>2. told'[c] = [text |-> result'["executor"], download |-> d]
    <2>1. told' = [told EXCEPT ![c] = [text |-> result'["executor"], download |-> d]]
      BY <1>1 DEF FirmwareDownload, Answer
    <2>2. DOMAIN told = Clients
      BY DEF NodeInv, NodeTypes
    <2>3. QED
      BY <2>1, <2>2
  <1>3. CASE result'["executor"] \in {"kTimeout", "kUnknownError"}
    BY <1>2, <1>3 DEF ToldOpenly
  <1>4. CASE pc["executor"] = "release" /\ result["executor"] # "kUnknownError"
    <2>1. d \in 1..started /\ (Proved!Silent(d) \/ d \in strayed)
      BY <1>4 DEF Proved!OutcomeInv, Proved!InfoIsOwn, Proved!AnsweredIsSilent
    <2>2. Proved!Silent(d)' \/ d \in strayed'
      BY <2>1, SilenceStays, GrowsOnly
    <2>3. QED
      BY <2>2
  <1>5. QED
    BY <1>1, <1>3, <1>4

\* A download leaves the tracking by its answer, and what is silent or strayed stays so.
LEMMA LateStep ==
    ASSUME OutcomeIInv, (Proved!OutcomeInv)', [Next]_vars
    PROVE  LateInv'
  <1> USE DEF OutcomeIInv, IInv, NodeInv
  <1> SUFFICES ASSUME NEW d \in 1..started', ~Proved!Silent(d)', d \notin strayed',
                      ~ToldOpenly(d)'
               PROVE  Tracked' /\ d = mine'["executor"]
    BY DEF LateInv
  <1>1. /\ started \in Nat /\ started' \in Nat /\ started <= started'
        /\ strayed \subseteq strayed'
    BY GrowsOnly
  <1>2. CASE d \notin 1..started
    <2>1. started' = started + 1 /\ Tracked' /\ mine'["executor"] = started'
      BY <1>1, <1>2, TrackedStep
    <2>2. QED
      BY <1>1, <1>2, <2>1
  <1>3. CASE d \in 1..started
    <2>1. ~Proved!Silent(d) /\ d \notin strayed
      BY <1>1, <1>3, SilenceStays
    <2>2. ~ToldOpenly(d)
      <3>1. CASE told' = told
        BY <3>1 DEF ToldOpenly
      <3>2. ASSUME NEW c \in Clients, stage[c] = "serving", NEW text, NEW last,
                   told' = [told EXCEPT ![c] = [text |-> text, download |-> last]]
            PROVE  ~ToldOpenly(d)
        BY <3>2, OpenlyStays
      <3>3. ASSUME NEW c \in Clients, FirmwareDownload(c)
            PROVE  ~ToldOpenly(d)
        BY <3>1, <3>2, <3>3 DEF FirmwareDownload, Answer
      <3>4. QED
        BY <3>1, <3>2, <3>3, StepKinds
    <2>3. Tracked /\ d = mine["executor"]
      BY <1>3, <2>1, <2>2 DEF LateInv
    <2>4. CASE UNCHANGED updateVars
      BY <2>3, <2>4 DEF updateVars, Tracked
    <2>5. CASE Proved!Engine \/ Proved!UpdateCallback
      BY <2>3, <2>5, LibraryTracks
    <2>6. ASSUME NEW c \in Clients, FirmwareDownload(c)
          PROVE  Tracked' /\ d = mine'["executor"]
      <3>1. Tracked'
        BY <2>3, <2>6, AnswerSettles
      <3>2. UNCHANGED mine
        BY <2>3, <2>6, <3>1, RequestTracks DEF FirmwareDownload
      <3>3. QED
        BY <2>3, <3>1, <3>2
    <2>7. QED
      BY <2>4, <2>5, <2>6, StepKinds
  <1>4. QED
    BY <1>2, <1>3

\* The next report to be delivered is the first of the queue and is typed.
LEMMA FirstTyped ==
    ASSUME NEW S, NEW q \in Seq(S), q # <<>>
    PROVE  1 \in 1..Len(q) /\ Head(q) = q[1] /\ q[1] \in S
  OBVIOUS

\* A positive number up to n is one of 1..n.
LEMMA Positive == \A d, n \in Nat : d # 0 /\ d <= n => d \in 1..n
  OBVIOUS

\* The download a report is about is a number.
LEMMA DownloadTyped == \A info \in Proved!SWUpdateInfo : info.download \in Nat
  BY NodeAssumption DEF Proved!SWUpdateInfo

\* A report that finds its UpdateService gone is of a download whose request was answered.
LEMMA ComeInTimeStep ==
    ASSUME OutcomeIInv, [Next]_vars
    PROVE  ReportsComeInTime'
  <1> USE DEF OutcomeIInv, IInv, NodeInv
  <1> SUFFICES ASSUME fault' = "destroyed service", callback' # "notify"
               PROVE  ReportsComeInTime'
    BY DEF ReportsComeInTime
  <1>1. CASE UNCHANGED vars
    BY <1>1 DEF vars, clientVars, processVars, updateVars, ReportsComeInTime
  <1>2. CASE fault = "none" /\ UpdateCallback /\ main = "gone"
    <2>1. reports # <<>> /\ UNCHANGED <<reports, told, strayed>>
      BY <1>2 DEF UpdateCallback, clientVars, updateVars
    <2>2. PICK d : d = Head(reports).download
      OBVIOUS
    <2>3. reports \in Seq(Proved!SWUpdateInfo)
      BY DEF Proved!IInv, Proved!TypeOK, Proved!EngineTypeOK
    <2>4. 1 \in 1..Len(reports) /\ Head(reports) = reports[1] /\ reports[1] \in Proved!SWUpdateInfo
      BY <2>1, <2>3, FirstTyped
    <2>5. d \in 1..started /\ ~Proved!Silent(d)
      <3>1. reports[1].download = d
        BY <2>2, <2>4, Zenon
      <3>2. d \in Nat /\ started \in Nat
        BY <2>4, <3>1, DownloadTyped, GrowsOnly
      <3>3. d # 0 /\ d <= started
        BY <2>4, <3>1 DEF Proved!OutcomeInv, Proved!FinalIsLast, Proved!ReportsAreTrue, Proved!IsTrue
      <3>4. ~Proved!Silent(d)
        BY <2>4, <3>1 DEF Proved!Silent
      <3>5. d \in 1..started
        BY <3>2, <3>3, Positive, Zenon
      <3>6. QED
        BY <3>4, <3>5, Zenon
    <2>6. ~Tracked
      BY <1>2 DEF ExecutorInv, Tracked, Inside
    <2>7. d \in strayed \/ ToldOpenly(d)
      BY <2>5, <2>6 DEF LateInv
    <2>8. QED
      BY <2>1, <2>2, <2>7 DEF ToldOpenly, ReportsComeInTime
  <1>3. fault' # fault => UpdateCallback /\ main = "gone"
    BY DEF Next, vars, processVars, MainThread, Spin, WakeUp, DestroyNode, Take, Reject,
           UseServices, FirmwareDownload, Send, Shutdown, OnShutdownCallback, RequestShutdown,
           ResetServices, Engine, UpdateCallback, LibraryCallback
  <1>4. QED
    BY <1>1, <1>2, <1>3 DEF Next
-----------------------------------------------------------------------------
(* The results: for any clients, downloads and images.                      *)

LEMMA InitIInv == Init => IInv
  BY UpdateInit, NodeInvInit DEF IInv

LEMMA StepIInv == IInv /\ [Next]_vars => IInv'
  BY UpdateStep, NodeInvStep DEF IInv

\* The invariant of the executor, the shutdown and the firmware update holds in every
\* state of the process, whatever the library reports.
THEOREM NodeInvariance == Spec => []IInv
  BY InitIInv, StepIInv, PTL DEF Spec

\* What is told and heard of the downloads is as OutcomeIInv says, whatever the library does.
THEOREM NodeOutcomeInvariance == Spec => []OutcomeIInv
  <1>1. Init => OutcomeIInv
    <2> SUFFICES ASSUME Init PROVE OutcomeIInv
      OBVIOUS
    <2>1. IInv /\ Proved!OutcomeInv
      BY InitIInv, UpdateInit
    <2>2. /\ fault = "none" /\ started = 0 /\ pc["executor"] = "idle"
          /\ \A c \in Clients : told[c] = Nothing
      BY SameInit DEF Init, Proved!Init, Proved!EngineInit
    <2>3. Nothing.text # "kSuccess"
      BY DEF Nothing
    <2>4. ToldInv
      BY <2>2, <2>3, Zenon DEF ToldInv
    <2>5. UntoldInv /\ LateInv /\ ReportsComeInTime /\ ~Tracked
      BY <2>2 DEF UntoldInv, LateInv, ReportsComeInTime, Tracked
    <2>6. QED
      BY <2>1, <2>4, <2>5 DEF OutcomeIInv
  <1>2. OutcomeIInv /\ [Next]_vars => OutcomeIInv'
    <2> SUFFICES ASSUME OutcomeIInv, [Next]_vars PROVE OutcomeIInv'
      OBVIOUS
    <2>1. IInv'
      BY StepIInv DEF OutcomeIInv
    <2>2. (Proved!OutcomeInv)'
      BY OutcomeOfStep DEF OutcomeIInv, IInv
    <2>3. Tracked' => mine'["executor"] = started'
      BY TrackedStep DEF OutcomeIInv, IInv
    <2>4. UntoldInv' /\ ToldInv'
      BY UntoldStep, ToldStep DEF OutcomeIInv, IInv, NodeInv
    <2>5. LateInv' /\ ReportsComeInTime'
      BY <2>2, LateStep, ComeInTimeStep
    <2>6. QED
      BY <2>1, <2>2, <2>3, <2>4, <2>5 DEF OutcomeIInv
  <1>3. QED
    BY <1>1, <1>2, PTL DEF Spec

\* The state of the process, of its clients and of the download keeps its types.
THEOREM NodeTypeCorrect == Spec => []TypeOK
  <1>1. IInv => TypeOK
    BY UpdateFacts DEF IInv, NodeInv, NodeTypes, TypeOK
  <1>2. QED
    BY <1>1, NodeInvariance, PTL

\* A handler finds m_services reset only if the reset came while one was running or about
\* to, however many requests queued up behind a download.
THEOREM ServicesAreThere == Spec => []HandlersFindServices
  <1>1. IInv => HandlersFindServices
    BY DEF IInv, NodeInv
  <1>2. QED
    BY <1>1, NodeInvariance, PTL

\* An UpdateService that is gone is called by no report but the one not yet notified, those
\* of a download answered "timed out" or "unknown error", and those of one that strayed.
THEOREM ReportsAreInTime == Spec => []ReportsComeInTime
  <1>1. OutcomeIInv => ReportsComeInTime
    BY DEF OutcomeIInv
  <1>2. QED
    BY <1>1, NodeOutcomeInvariance, PTL

\* The process ends with no download running: main leaves from between two handlers, and a
\* download outlives its handler only in the ways MayOutlive names.
THEOREM SensorsAreWhole == Spec => []NoDownloadLeft
  <1>1. OutcomeIInv => NoDownloadLeft
    BY QuietOutside
       DEF OutcomeIInv, IInv, NodeInv, NodeTypes, ExecutorInv, NoDownloadLeft
  <1>2. QED
    BY <1>1, NodeOutcomeInvariance, PTL

\* A client is told of a success only if the sensor has taken the whole image in a download
\* started for this very request, whatever requests ended before it and in whatever way, or
\* if a report of another download was stored while its own was under way.
THEOREM SuccessesAreTrue == Spec => []SuccessIsTold
  <1>1. OutcomeIInv => SuccessIsTold
    BY DEF OutcomeIInv, ToldInv, SuccessIsTold
  <1>2. QED
    BY <1>1, NodeOutcomeInvariance, PTL

\* No client of the node is ever told that an update is in progress.
THEOREM NobodyIsRejected == Spec => []NeverBusy
  <1>1. IInv => NeverBusy
    BY DEF IInv, NodeInv, AnswersInv
  <1>2. QED
    BY <1>1, NodeInvariance, PTL

-----------------------------------------------------------------------------
(* The node implements RadarServices.                                       *)

LEMMA InitMaps == Init => Abstract!NodeInit
  BY DEF Init, Abstract!NodeInit, IsUp, At

\* Nothing a client sees.
LEMMA Unseen ==
    ASSUME UNCHANGED <<stage, main, fault>>
    PROVE  UNCHANGED Abstract!nodeVars
  BY DEF Abstract!nodeVars, IsUp, At

LEMMA SendMaps ==
    ASSUME NodeInv, fault = "none", NEW c \in Clients, NEW r \in Request, Send(c, r)
    PROVE  Abstract!NodeNext
  <1>1. /\ At("waiting")' = At("waiting") \cup {c}
        /\ At("serving")' = At("serving")
        /\ At("answered")' = At("answered")
    BY DEF Send, At, NodeInv, NodeTypes
  <1>2. IsUp' = IsUp
    BY DEF Send, processVars, IsUp
  <1>3. Abstract!Send(c)
    BY <1>1, <1>2 DEF Abstract!Send
  <1>4. QED
    BY <1>3 DEF Abstract!NodeNext

\* The end of the process takes along what waits and what is served.
LEMMA EndMaps ==
    ASSUME IsUp, ~IsUp', UNCHANGED stage
    PROVE  Abstract!NodeNext
  BY DEF Abstract!NodeNext, Abstract!NodeGoes, At

LEMMA TakeMaps ==
    ASSUME NodeInv, fault = "none", NEW c \in Clients, Take(c)
    PROVE  Abstract!NodeNext
  <1>1. /\ IsUp /\ IsUp'
        /\ c \in At("waiting") /\ At("serving") = {}
    BY DEF Take, IsUp, At, NodeInv, ExecutorInv
  <1>2. /\ At("waiting")' = At("waiting") \ {c}
        /\ At("serving")' = {c}
        /\ At("answered")' = At("answered")
    BY <1>1 DEF Take, At, NodeInv, NodeTypes
  <1>3. Abstract!Serve(c)
    BY <1>1, <1>2 DEF Abstract!Serve
  <1>4. QED
    BY <1>3 DEF Abstract!NodeNext

LEMMA AnswerMaps ==
    ASSUME NodeInv, fault = "none", NEW c \in Clients, stage[c] = "serving",
           NEW text, NEW d, Answer(c, text, d), UNCHANGED fault
    PROVE  Abstract!NodeNext
  <1>1. IsUp /\ IsUp' /\ At("serving") = {c}
    BY DEF Answer, IsUp, At, NodeInv, ExecutorInv
  <1>2. /\ At("waiting")' = At("waiting")
        /\ At("serving")' = {}
        /\ At("answered")' = At("answered") \cup {c}
    BY <1>1 DEF Answer, At, NodeInv, NodeTypes
  <1>3. Abstract!Respond(c)
    BY <1>1, <1>2 DEF Abstract!Respond
  <1>4. QED
    BY <1>3 DEF Abstract!NodeNext

LEMMA StepMaps ==
    ASSUME IInv, [Next]_vars
    PROVE  [Abstract!NodeNext]_(Abstract!nodeVars)
  <1>1. NodeInv
    BY DEF IInv
  <1>2. CASE UNCHANGED vars
    BY <1>2, Unseen DEF vars, clientVars, processVars
  <1>3. ASSUME fault = "none", NEW c \in Clients, NEW r \in Request, Send(c, r)
        PROVE  Abstract!NodeNext
    BY <1>1, <1>3, SendMaps
  <1>4. CASE fault = "none" /\ (Spin \/ WakeUp \/ DestroyNode)
    <2>1. CASE IsUp' = IsUp
      BY <1>4, <2>1 DEF Spin, WakeUp, DestroyNode, clientVars, Abstract!nodeVars, At
    <2>2. CASE IsUp' # IsUp
      BY <1>4, <2>2, EndMaps DEF Spin, WakeUp, DestroyNode, clientVars, IsUp
    <2>3. QED
      BY <2>1, <2>2
  <1>5. ASSUME fault = "none", NEW c \in Clients, Take(c)
        PROVE  Abstract!NodeNext
    BY <1>1, <1>5, TakeMaps
  <1>6. ASSUME fault = "none", NEW c \in Clients, Reject(c)
        PROVE  Abstract!NodeNext
    BY <1>1, <1>6, AnswerMaps DEF Reject
  <1>7. ASSUME fault = "none", NEW c \in Clients, UseServices(c)
        PROVE  Abstract!NodeNext
    <2>1. CASE services # "reset"
      BY <1>1, <1>7, <2>1, AnswerMaps DEF UseServices
    <2>2. CASE services = "reset"
      <3>1. IsUp /\ ~IsUp' /\ UNCHANGED stage
        BY <1>1, <1>7, <2>2 DEF UseServices, IsUp, NodeInv, ExecutorInv
      <3>2. QED
        BY <3>1, EndMaps
    <2>3. QED
      BY <2>1, <2>2
  <1>8. ASSUME fault = "none", NEW c \in Clients, FirmwareDownload(c)
        PROVE  [Abstract!NodeNext]_(Abstract!nodeVars)
    <2>1. CASE pc'["executor"] = "idle"
      BY <1>1, <1>8, <2>1, AnswerMaps DEF FirmwareDownload
    <2>2. CASE pc'["executor"] # "idle"
      BY <1>8, <2>2, Unseen DEF FirmwareDownload
    <2>3. QED
      BY <2>1, <2>2
  <1>9. CASE fault = "none" /\ (Shutdown \/ Engine)
    BY <1>9, Unseen DEF Shutdown, Engine, clientVars, processVars
  <1>10. CASE fault = "none" /\ (OnShutdownCallback \/ UpdateCallback \/ LibraryCallback)
    <2>1. CASE UNCHANGED fault
      BY <1>10, <2>1, Unseen
         DEF OnShutdownCallback, RequestShutdown, ResetServices, UpdateCallback, LibraryCallback,
             clientVars, processVars
    <2>2. CASE main = "gone" /\ UNCHANGED <<main, stage>>
      BY <2>2 DEF Abstract!nodeVars, IsUp, At
    <2>3. QED
      BY <1>10, <2>1, <2>2
         DEF OnShutdownCallback, RequestShutdown, ResetServices, UpdateCallback, LibraryCallback,
             clientVars, processVars
  <1>11. QED
    BY <1>2, <1>3, <1>4, <1>5, <1>6, <1>7, <1>8, <1>9, <1>10
       DEF Next, MainThread, OnShutdownCallback

\* The safety part of ImplementsRadarServices: whatever the clients ask and whenever the
\* signal comes, the node does nothing RadarServices forbids.
THEOREM NodeRefinesRadarServices ==
    Spec => Abstract!NodeInit /\ [][Abstract!NodeNext]_(Abstract!nodeVars)
  <1>1. IInv /\ [Next]_vars => [Abstract!NodeNext]_(Abstract!nodeVars)
    BY StepMaps
  <1>2. QED
    BY InitMaps, <1>1, NodeInvariance, PTL DEF Spec
=============================================================================
