---------------------------- MODULE DownloadPanel ----------------------------
(***************************************************************************)
(* The panel for firmware downloads (smart_download.cpp).  A click sends    *)
(* the request on Qt's thread; a thread of the panel (ros_thread_) spins    *)
(* its node and receives the response; a detached thread per request waits  *)
(* for the future, posts the text back to Qt's thread and logs it.  The     *)
(* panel may be closed at any time.                                         *)
(*                                                                         *)
(*   slot:   out -> checking -> sending -> out                              *)
(*           out -> warning -> out, checking -> missing -> out              *)
(*   thread: starting -> spinning -> cancelled -> ended                     *)
(*           starting -> deaf (it spins, and missed its cancel)             *)
(*   worker: none -> waiting -> ready -> logging -> done                    *)
(***************************************************************************)
EXTENDS Naturals, Sequences, RadarServices, UserInterface

CONSTANT MaxDownloads   \* bound of the model: downloads sent

VARIABLES panel,        \* "open", "closing" (the destructor joins the thread), "closed"
          thread,       \* ros_thread_
          slot,         \* where download_firmware is
          button,       \* is the start button enabled?
          sent,         \* how many requests were sent: the number of the last one
          worker,       \* the detached thread of each request
          events        \* the responses posted to Qt's thread, not yet shown

downloadVars == <<panel, thread, slot, button, sent, worker, events>>

ASSUME MaxDownloadsAssumption == MaxDownloads \in Nat

Downloads == 1..MaxDownloads

DownloadRequest(k) == <<"download", k>>

DownloadInit ==
    /\ panel = "open"
    /\ thread = "starting"
    /\ slot = "out"
    /\ button = TRUE
    /\ sent = 0
    /\ worker = [k \in Downloads |-> "none"]
    /\ events = <<>>

-----------------------------------------------------------------------------
(* Qt's thread.                                                             *)

\* The button is clicked; no file or no number is given: a box, and nothing else.
DownloadWarning ==
    /\ Clickable /\ panel = "open" /\ slot = "out" /\ button
    /\ slot' = "warning"
    /\ ui' = "dialog"
    /\ UNCHANGED <<panel, thread, button, sent, worker, events, ok, fault, nodeVars>>

\* Variant: the button stays enabled.
DownloadClickedAgain ==
    /\ Clickable /\ panel = "open" /\ slot = "out"
    /\ sent < MaxDownloads
    /\ slot' = "checking"
    /\ ui' = "call"
    /\ UNCHANGED <<panel, thread, button, sent, worker, events, ok, fault, nodeVars>>

\* The button is clicked: it is disabled, and Qt's thread waits for the service.
DownloadClicked ==
    /\ Clickable /\ panel = "open" /\ slot = "out" /\ button
    /\ sent < MaxDownloads
    /\ button' = FALSE
    /\ slot' = "checking"
    /\ ui' = "call"
    /\ UNCHANGED <<panel, thread, sent, worker, events, ok, fault, nodeVars>>

DownloadServiceFound ==
    /\ slot = "checking"
    /\ ok /\ node = "up"
    /\ slot' = "sending"
    /\ UNCHANGED <<panel, thread, button, sent, worker, events, uiVars, nodeVars>>

\* After two seconds, or with an invalid context: another box.
DownloadServiceMissing ==
    /\ slot = "checking"
    /\ slot' = "missing"
    /\ ui' = "dialog"
    /\ UNCHANGED <<panel, thread, button, sent, worker, events, ok, fault, nodeVars>>

\* The request is sent, whatever became of the node meanwhile, and the worker detached.
SendDownload ==
    /\ slot = "sending"
    /\ sent' = sent + 1
    /\ Send(DownloadRequest(sent'))
    /\ worker' = [worker EXCEPT ![sent'] = "waiting"]
    /\ slot' = "out"
    /\ ui' = "events"
    /\ UNCHANGED <<panel, thread, button, events, ok, fault>>

\* The user closes the box; the button comes back.
CloseBox ==
    /\ slot \in {"warning", "missing"}
    /\ slot' = "out"
    /\ ui' = "events"
    /\ button' = TRUE
    /\ UNCHANGED <<panel, thread, sent, worker, events, ok, fault, nodeVars>>

\* A posted event: the response is shown and the button enabled.
ShowResponse ==
    /\ Responsive /\ panel = "open"
    /\ events # <<>>
    /\ events' = Tail(events)
    /\ button' = TRUE
    /\ UNCHANGED <<panel, thread, slot, sent, worker, uiVars, nodeVars>>

\* The panel is closed: the destructor cancels the executor, and waits for its thread.  An
\* executor that does not spin yet does not notice.
ClosePanel ==
    /\ Clickable /\ panel = "open" /\ slot = "out"
    /\ panel' = "closing"
    /\ thread' = IF thread = "spinning" THEN "cancelled" ELSE thread
    /\ ui' = "call"
    /\ UNCHANGED <<slot, button, sent, worker, events, ok, fault, nodeVars>>

\* The thread is joined: the members are destroyed, and the events posted to the panel.
DestroyPanel ==
    /\ panel = "closing"
    /\ thread = "ended"
    /\ panel' = "closed"
    /\ events' = <<>>
    /\ ui' = "events"
    /\ UNCHANGED <<thread, slot, button, sent, worker, ok, fault, nodeVars>>

DownloadSlot ==
    \/ DownloadServiceFound
    \/ DownloadServiceMissing
    \/ SendDownload
    \/ DestroyPanel

-----------------------------------------------------------------------------
(* ros_thread_ and the workers.                                             *)

\* spin() begins: a cancel() before it is forgotten.
SpinStarts ==
    /\ thread = "starting"
    /\ thread' = IF panel = "open" THEN "spinning" ELSE "deaf"
    /\ UNCHANGED <<panel, slot, button, sent, worker, events, uiVars, nodeVars>>

SpinEnds ==
    /\ thread = "cancelled" \/ (thread \in {"spinning", "deaf"} /\ ~ok)
    /\ thread' = "ended"
    /\ UNCHANGED <<panel, slot, button, sent, worker, events, uiVars, nodeVars>>

\* The client receives the response: the future of its worker is ready.
ReceiveResponse(k) ==
    /\ thread \in {"spinning", "deaf", "cancelled"}
    /\ worker[k] = "waiting"
    /\ DownloadRequest(k) \in responses
    /\ worker' = [worker EXCEPT ![k] = "ready"]
    /\ UNCHANGED <<panel, thread, slot, button, sent, events, uiVars, nodeVars>>

RosThread == SpinStarts \/ SpinEnds \/ \E k \in Downloads : ReceiveResponse(k)

\* Variant: the worker does not say that it is done.
PostNothing(k) ==
    /\ worker[k] = "ready"
    /\ worker' = [worker EXCEPT ![k] = "logging"]
    /\ fault' = IF panel = "closed" THEN "destroyed panel" ELSE fault
    /\ UNCHANGED <<panel, thread, slot, button, sent, events, ui, ok, nodeVars>>

\* The worker posts the response to the panel ...
PostResponse(k) ==
    /\ worker[k] = "ready"
    /\ worker' = [worker EXCEPT ![k] = "logging"]
    /\ IF panel = "closed"
       THEN fault' = "destroyed panel" /\ UNCHANGED events
       ELSE events' = Append(events, k) /\ UNCHANGED fault
    /\ UNCHANGED <<panel, thread, slot, button, sent, ui, ok, nodeVars>>

\* ... and logs it with the panel's node.
LogResponse(k) ==
    /\ worker[k] = "logging"
    /\ worker' = [worker EXCEPT ![k] = "done"]
    /\ fault' = IF panel = "closed" THEN "destroyed panel" ELSE fault
    /\ UNCHANGED <<panel, thread, slot, button, sent, events, ui, ok, nodeVars>>

\* The promise went with the client: the handler of the exception posts to the panel.
PromiseBroken(k) ==
    /\ worker[k] = "waiting"
    /\ panel = "closed"
    /\ fault' = "destroyed panel"
    /\ UNCHANGED <<downloadVars, ui, ok, nodeVars>>

Worker(k) == PostResponse(k) \/ LogResponse(k) \/ PromiseBroken(k)

DownloadUser == DownloadWarning \/ DownloadClicked \/ CloseBox \/ ClosePanel

DownloadNext ==
    \/ DownloadUser
    \/ DownloadSlot
    \/ ShowResponse
    \/ RosThread
    \/ \E k \in Downloads : Worker(k)

-----------------------------------------------------------------------------

DownloadTypeOK ==
    /\ panel \in {"open", "closing", "closed"}
    /\ thread \in {"starting", "spinning", "deaf", "cancelled", "ended"}
    /\ slot \in {"out", "checking", "sending", "warning", "missing"}
    /\ button \in BOOLEAN
    /\ sent \in 0..MaxDownloads
    /\ worker \in [Downloads -> {"none", "waiting", "ready", "logging", "done"}]
    /\ events \in Seq(Downloads)

\* The requests whose worker has not posted a response.
Pending == {k \in Downloads : worker[k] \in {"waiting", "ready"}}

\* While the panel is open the button is disabled exactly while one request is on its way
\* to the node and back: in the slot, with its worker, or posted and not yet shown.  No
\* second download can be started meanwhile, and none leaves the button behind.
ButtonMeansPending ==
    panel = "open" =>
        /\ ~button <=> \/ slot \in {"checking", "sending", "missing"}
                       \/ Pending # {}
                       \/ events # <<>>
        /\ \A k \in Pending : Pending = {k} /\ events = <<>> /\ k = sent

\* What it rests on: a slot begins with nothing pending, and at most one response is posted.
DownloadPanelInv ==
    /\ DownloadTypeOK
    /\ ButtonMeansPending
    /\ slot # "out" => panel = "open" /\ Pending = {} /\ events = <<>>
    /\ slot \in {"checking", "sending"} => sent < MaxDownloads
    /\ panel = "open" => Len(events) <= 1

\* "thread-safe" (CHANGELOG.md): nobody uses a panel that was destroyed.
PanelOutlivesItsThreads == fault # "destroyed panel"
=============================================================================
