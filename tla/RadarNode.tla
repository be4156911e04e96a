------------------------------- MODULE RadarNode -------------------------------
(***************************************************************************)
(* The node as a process (smartmicro_radar_node.cpp with update_service.cpp *)
(* inside): one thread spins the node and runs the service handlers, one at *)
(* a time; firmware_download runs the whole of StartSoftwareUpdate there.   *)
(* The library reports on a thread of its own, and a signal shuts the node  *)
(* down on a third, whatever the other two are doing.                       *)
(*                                                                         *)
(*   main:   spin -> wait -> handler -> spin ... -> left -> gone            *)
(*   signal: none -> callbacks -> resting -> done                           *)
(*                                                                         *)
(* A definition whose comment says "Variant" is not part of the             *)
(* specification: it is the operator that follows it with a mistake in it,  *)
(* kept to show which property notices the mistake.                         *)
(***************************************************************************)
EXTENDS Naturals, Sequences

CONSTANTS Clients,       \* the clients of the node's services, of one request each
          EarlyErrors, Sizes, Failures, MaxDownloads, FullProgress, LateReports,
          AbortFails

VARIABLES context,       \* "ok", or "shut down": what rclcpp::ok() looks at
          main,          \* where the thread that spins the node is
          asked,         \* the request of each client
          stage,         \* and how far it came
          told,          \* what the client was told, and the download behind it (0: none)
          signal,        \* where the thread of the signal handler is
          services,      \* m_services: "up" or "reset"
          overran,       \* history: m_services was reset while a handler could be using it
          fault          \* "none", or the undefined behaviour that happened

\* The firmware update, with the thread of the executor as its only caller.
VARIABLES downloads, started, reports, update_in_progress, updateInfo, pc, totalSize, result,
          callback, survived, mine, seen, strayed

Update == INSTANCE UpdateService WITH Callers <- {"executor"}

\* What UpdateService assumes of the constants it shares.
ASSUME NodeAssumption ==
    /\ Sizes \subseteq Nat
    /\ Failures \subseteq Update!FailureStatuses
    /\ EarlyErrors \subseteq {"kFileOpenError", "kFileSizeError", "kServiceUnavailable"}
    /\ MaxDownloads \in Nat
    /\ FullProgress \in BOOLEAN
    /\ LateReports \in BOOLEAN
    /\ AbortFails \in BOOLEAN

updateVars == <<downloads, started, reports, update_in_progress, updateInfo, pc, totalSize, result,
                callback, survived, mine, seen, strayed>>

clientVars == <<asked, stage, told>>
processVars == <<context, main, signal, services, overran, fault>>
vars == <<clientVars, processVars, updateVars>>

\* Requests as far as the handlers differ: what they do before and with m_services.
Request == [service : {"firmware_download", "set_radar_mode", "set_ip_address"},
            valid : BOOLEAN]   \* is sensor_id found in m_sensors, have the arrays one length?

NoRequest == [service |-> "set_radar_mode", valid |-> FALSE]

Nothing == [text |-> "", download |-> 0]

-----------------------------------------------------------------------------

Init ==
    /\ Update!Init
    /\ context = "ok"
    /\ main = "spin"
    /\ asked = [c \in Clients |-> NoRequest]
    /\ stage = [c \in Clients |-> "free"]
    /\ told = [c \in Clients |-> Nothing]
    /\ signal = "none"
    /\ services = "up"
    /\ overran = FALSE
    /\ fault = "none"

\* A client sends its request.
Send(c, r) ==
    /\ stage[c] = "free"
    /\ asked' = [asked EXCEPT ![c] = r]
    /\ stage' = [stage EXCEPT ![c] = "waiting"]
    /\ UNCHANGED <<told, processVars, updateVars>>

-----------------------------------------------------------------------------
(* The thread that spins the node.                                          *)

\* Variant: the loop does not ask whether the context is still valid.
SpinForever ==
    /\ main = "spin"
    /\ main' = "wait"
    /\ UNCHANGED <<clientVars, context, signal, services, overran, fault, updateVars>>

\* The loop of the executor: while the context is valid it waits for work.
Spin ==
    /\ main = "spin"
    /\ main' = IF context = "ok" THEN "wait" ELSE "left"
    /\ UNCHANGED <<clientVars, context, signal, services, overran, fault, updateVars>>

\* The shutdown wakes a waiting executor, which found nothing to do.
WakeUp ==
    /\ main = "wait"
    /\ context # "ok"
    /\ main' = "spin"
    /\ UNCHANGED <<clientVars, context, signal, services, overran, fault, updateVars>>

\* Variant: the executor has more than one thread.
TakeOneMore(c) ==
    /\ main \in {"wait", "handler"}
    /\ stage[c] = "waiting"
    /\ main' = "handler"
    /\ stage' = [stage EXCEPT ![c] = "serving"]
    /\ UNCHANGED <<asked, told, context, signal, services, overran, fault, updateVars>>

\* The executor found a request and calls its handler; which of several, is its choice.
Take(c) ==
    /\ main = "wait"
    /\ stage[c] = "waiting"
    /\ main' = "handler"
    /\ stage' = [stage EXCEPT ![c] = "serving"]
    /\ UNCHANGED <<asked, told, context, signal, services, overran, fault, updateVars>>

\* The handler returns and the client gets its answer.
Answer(c, text, d) ==
    /\ told' = [told EXCEPT ![c] = [text |-> text, download |-> d]]
    /\ stage' = [stage EXCEPT ![c] = "answered"]
    /\ main' = "spin"

\* All handlers but one look at the sensor id and at the lengths before anything else.
Reject(c) ==
    /\ stage[c] = "serving"
    /\ ~asked[c].valid /\ asked[c].service # "set_ip_address"
    /\ Answer(c, "rejected", 0)
    /\ UNCHANGED <<asked, context, signal, services, overran, fault, updateVars>>

\* The handlers of the instruction services dereference m_services, once; set_ip_address
\* does so before it looks at the request.  The rest of them is in Instructions.
UseServices(c) ==
    /\ stage[c] = "serving"
    /\ asked[c].service # "firmware_download"
    /\ asked[c].valid \/ asked[c].service = "set_ip_address"
    /\ IF services = "reset"
       THEN fault' = "null m_services" /\ UNCHANGED <<stage, told, main>>
       ELSE /\ \E text \in IF asked[c].valid THEN {"Success", "Failed"} ELSE {"rejected"} :
                   Answer(c, text, 0)
            /\ UNCHANGED fault
    /\ UNCHANGED <<asked, context, signal, services, overran, updateVars>>

\* firmware_download: StartSoftwareUpdate, step by step, and the answer when it returns.
FirmwareDownload(c) ==
    /\ stage[c] = "serving"
    /\ asked[c].service = "firmware_download" /\ asked[c].valid
    /\ Update!StartSoftwareUpdate("executor")
    /\ IF pc'["executor"] = "idle"
       THEN Answer(c, result'["executor"], mine'["executor"])
       ELSE UNCHANGED <<stage, told, main>>
    /\ UNCHANGED <<asked, context, signal, services, overran, fault>>

\* spin() returned: main destroys the node, with its UpdateService, and waits for nobody.
DestroyNode ==
    /\ main = "left"
    /\ main' = "gone"
    /\ UNCHANGED <<clientVars, context, signal, services, overran, fault, updateVars>>

MainThread ==
    \/ Spin
    \/ WakeUp
    \/ DestroyNode
    \/ \E c \in Clients : Take(c) \/ Reject(c) \/ UseServices(c) \/ FirmwareDownload(c)

-----------------------------------------------------------------------------
(* The thread of the signal handler.                                        *)

\* The context becomes invalid first, then the callbacks of on_shutdown are called.
Shutdown ==
    /\ signal = "none"
    /\ signal' = "callbacks"
    /\ context' = "shut down"
    /\ UNCHANGED <<clientVars, main, services, overran, fault, updateVars>>

\* on_shutdown_callback sets the flag of the node, if there still is a node.
RequestShutdown ==
    /\ signal = "callbacks"
    /\ signal' = "resting"
    /\ fault' = IF main = "gone" THEN "destroyed node" ELSE fault
    /\ UNCHANGED <<clientVars, context, main, services, overran, updateVars>>

\* A handler that uses m_services may be running, or be about to run.
MayUseServices ==
    \/ main = "wait"
    \/ \E c \in Clients : stage[c] = "serving" /\ asked[c].service # "firmware_download"

\* Variant: m_services is reset before the rest of 100 ms.
ResetServicesAtOnce ==
    /\ signal = "callbacks"
    /\ signal' = "done"
    /\ services' = "reset"
    /\ UNCHANGED <<clientVars, context, main, overran, fault, updateVars>>

\* ... rests for 100 ms and resets m_services, a member of the node.
ResetServices ==
    /\ signal = "resting"
    /\ signal' = "done"
    /\ services' = "reset"
    /\ overran' = MayUseServices
    /\ fault' = IF main = "gone" THEN "destroyed node" ELSE fault
    /\ UNCHANGED <<clientVars, context, main, updateVars>>

OnShutdownCallback == RequestShutdown \/ ResetServices

-----------------------------------------------------------------------------
(* The library.                                                             *)

Engine == Update!Engine /\ UNCHANGED <<clientVars, processVars>>

\* A report is stored and notified, or finds that its UpdateService is gone.
UpdateCallback ==
    \/ /\ main # "gone"
       /\ Update!UpdateCallback
       /\ UNCHANGED <<clientVars, processVars>>
    \/ /\ main = "gone"
       /\ callback = "notify" \/ reports # <<>>
       /\ fault' = "destroyed service"
       /\ UNCHANGED <<clientVars, context, main, signal, services, overran, updateVars>>

\* The data callbacks and the handlers of the responses are bound to the node and never
\* taken back: the library may call one whenever it likes.
LibraryCallback ==
    /\ main = "gone"
    /\ fault' = "destroyed node"
    /\ UNCHANGED <<clientVars, context, main, signal, services, overran, updateVars>>

Next ==
    /\ fault = "none"
    /\ \/ MainThread
       \/ Shutdown
       \/ OnShutdownCallback
       \/ Engine
       \/ UpdateCallback
       \/ LibraryCallback
       \/ \E c \in Clients, r \in Request : Send(c, r)

\* The threads of the process run, and the five minutes of a download pass.  Nobody has to
\* ask or to send a signal, and the library need not report.
Alive(A) == fault = "none" /\ A

Fairness ==
    /\ WF_vars(Alive(MainThread))
    /\ WF_vars(Alive(OnShutdownCallback))
    /\ SF_vars(Alive(\E c \in Clients : FirmwareDownload(c) /\ Update!TimeoutExpires("executor")))

Spec == Init /\ [][Next]_vars /\ Fairness
-----------------------------------------------------------------------------

\* The state of the process and of its clients keeps its types.
TypeOK ==
    /\ Update!TypeOK
    /\ context \in {"ok", "shut down"}
    /\ main \in {"spin", "wait", "handler", "left", "gone"}
    /\ asked \in [Clients -> Request]
    /\ stage \in [Clients -> {"free", "waiting", "serving", "answered"}]
    /\ told \in [Clients -> [text : Update!UpdateResults \cup {"", "rejected", "Success", "Failed"},
                             download : 0..MaxDownloads]]
    /\ signal \in {"none", "callbacks", "resting", "done"}
    /\ services \in {"up", "reset"}
    /\ overran \in BOOLEAN
    /\ fault \in {"none", "null m_services", "destroyed node", "destroyed service"}

\* A handler dereferences m_services after the reset only if at the reset, 100 ms after the
\* signal, the executor was still in its wait or in such a handler: a download of minutes
\* that the shutdown meets, and the requests that queue up behind it, do no harm.
HandlersFindServices == fault = "null m_services" => overran

\* The UpdateService of an ended node is not called by a report that comes too late, but for
\* the report stored and not yet notified, and those of a download whose client was told
\* "timed out" (an aborted one may still report) or "unknown error" (all its bytes were sent,
\* it was still RUNNING), or a report of another download.  The node itself has no such
\* protection: the signal handler, the data callbacks and the handlers of responses.
ReportsComeInTime ==
    fault = "destroyed service" /\ callback # "notify" =>
        LET d == Head(reports).download
        IN  \/ d \in strayed
            \/ \E c \in Clients : /\ told[c].download = d
                                 /\ told[c].text \in {"kTimeout", "kUnknownError"}

\* A process that ends on a signal leaves no sensor in the middle of a download: the executor
\* leaves its loop after the download was finished, refused or aborted.  The exceptions are
\* those of a request that returned too early (MayOutlive); a process that is killed before
\* the five minutes are over leaves its sensor as it is.
NoDownloadLeft ==
    main \in {"left", "gone"} =>
        \A d \in Update!DownloadIds : Update!Running(d) => Update!MayOutlive(d)

\* "kSuccess" reaches a client only if a download started for this very request ended with
\* the whole image in the sensor, or a report of another one was stored while it waited: no
\* two successes are told of one download, and none of a report of before the request.
SuccessIsTold ==
    \A c \in Clients :
        told[c].text = "kSuccess" =>
            /\ \/ downloads[told[c].download].status = "READY_SUCCESS"
               \/ told[c].download \in strayed
            /\ \A d \in Clients \ {c} :
                  told[d].text = "kSuccess" => told[d].download # told[c].download

\* "Firmware download rejected: another update is already in progress." is never said: the
\* one thread of the executor cannot ask twice, and no way out leaves the flag behind.
NeverBusy == \A c \in Clients : told[c].text # "kBusy"

\* A request is answered, whatever requests are before it and whatever the library does,
\* unless the process ends: the slowest answer is that of a download that times out.
RequestsAreAnswered ==
    \A c \in Clients :
        stage[c] = "waiting" ~> stage[c] = "answered" \/ context # "ok" \/ fault # "none"

\* A signal ends the process, also in the middle of a download the library fell silent on,
\* or with one of the faults: a handler that found m_services reset, or a use of the node
\* main had destroyed.
ShutdownCompletes ==
    context # "ok" ~>
        \/ main = "gone" /\ (services = "reset" \/ fault # "none")
        \/ fault = "null m_services"

-----------------------------------------------------------------------------
(* The node implements RadarServices.                                       *)

IsUp == main \notin {"left", "gone"} /\ fault = "none"

At(s) == {c \in Clients : stage[c] = s}

Abstract == INSTANCE RadarServices WITH
    Requests  <- Clients,
    node      <- IF IsUp THEN "up" ELSE "down",
    waiting   <- IF IsUp THEN At("waiting") ELSE {},
    serving   <- IF IsUp THEN At("serving") ELSE {},
    responses <- At("answered")

\* To its clients the node is RadarServices: one request at a time, each answered once,
\* all of them lost when the process ends.
ImplementsRadarServices == Abstract!NodeSpec
=============================================================================
