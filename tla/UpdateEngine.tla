---------------------------- MODULE UpdateEngine ----------------------------
(***************************************************************************)
(* The software-update engine of the Smart Access library, as the driver   *)
(* uses it.  The library is closed source: it is modelled from the calls   *)
(* update_service.cpp makes (SoftwareUpdate, AbortSoftwareUpdate) and from *)
(* the SWUpdateInfo reports it passes to the callback, never from its      *)
(* code.  A download moves from "RUNNING" to one final status; every change *)
(* is reported, in order, on the library's own thread.  A report carries    *)
(* no identification of its download: the field "download" is kept for the  *)
(* properties only and no action reads it.                                  *)
(***************************************************************************)
EXTENDS Naturals, Sequences

CONSTANTS Sizes,         \* the sizes an update image may have
          Failures,      \* the failures a report may carry
          MaxDownloads,  \* bound of the model: downloads the engine accepts
          FullProgress,  \* may a report say RUNNING with every byte sent?
          LateReports,   \* may a report still arrive after its download was aborted?
          AbortFails     \* may AbortSoftwareUpdate fail? (its result is not looked at)

\* The final statuses other than success that HandleResult distinguishes.
FailureStatuses == {"STOPPED_BY_MASTER", "STOPPED_BY_SLAVE", "STOPPED_BY_ERROR_TIMEOUT",
                    "STOPPED_BY_ERROR_BLOCK_REPEAT", "STOPPED_BY_ERROR_IMAGE_INVALID"}

ASSUME EngineAssumption ==
    /\ Sizes \subseteq Nat
    /\ Failures \subseteq FailureStatuses
    /\ MaxDownloads \in Nat
    /\ FullProgress \in BOOLEAN
    /\ LateReports \in BOOLEAN
    /\ AbortFails \in BOOLEAN

VARIABLES downloads,     \* downloads[d]: the d-th download the engine accepted
          started,       \* how many downloads were accepted so far
          reports,       \* the reports the library has not yet delivered
          survived       \* history: the downloads that an abort did not stop

engineVars == <<downloads, started, reports, survived>>

Statuses == {"RUNNING", "READY_SUCCESS"} \cup FailureStatuses

DownloadIds == 1..MaxDownloads

Download == [status : Statuses, size : Nat, bytes : Nat]

\* com::types::SWUpdateInfo, with the download it is about (0: written by the driver).
SWUpdateInfo == [status : Statuses, bytes : Nat, download : 0..MaxDownloads]

Info(status, bytes, d) == [status |-> status, bytes |-> bytes, download |-> d]

Running(d) == d <= started /\ downloads[d].status = "RUNNING"

-----------------------------------------------------------------------------

EngineInit ==
    /\ downloads = [d \in DownloadIds |-> [status |-> "STOPPED_BY_MASTER", size |-> 0, bytes |-> 0]]
    /\ started = 0
    /\ reports = <<>>
    /\ survived = {}

\* SoftwareUpdate returned ERROR_CODE_OK: download number started + 1 runs.
AcceptDownload(size) ==
    /\ started < MaxDownloads
    /\ started' = started + 1
    /\ downloads' = [downloads EXCEPT ![started + 1] =
                        [status |-> "RUNNING", size |-> size, bytes |-> 0]]
    /\ UNCHANGED <<reports, survived>>

\* One more block was sent; the report still says RUNNING.
Progress(d) ==
    /\ Running(d)
    /\ downloads[d].bytes < downloads[d].size
    /\ LET sent == downloads[d].bytes + 1
       IN  /\ sent = downloads[d].size => FullProgress
           /\ downloads' = [downloads EXCEPT ![d].bytes = sent]
           /\ reports' = Append(reports, Info("RUNNING", sent, d))
    /\ UNCHANGED <<started, survived>>

\* The sensor has the whole image and accepted it.
Complete(d) ==
    /\ Running(d)
    /\ downloads' = [downloads EXCEPT ![d].status = "READY_SUCCESS",
                                      ![d].bytes = downloads[d].size]
    /\ reports' = Append(reports, Info("READY_SUCCESS", downloads[d].size, d))
    /\ UNCHANGED <<started, survived>>

\* The download ends with an error, after any number of blocks.
Fail(d, status) ==
    /\ Running(d)
    /\ downloads' = [downloads EXCEPT ![d].status = status]
    /\ reports' = Append(reports, Info(status, downloads[d].bytes, d))
    /\ UNCHANGED <<started, survived>>

\* AbortSoftwareUpdate: it names no download, so every running one stops.  The
\* reports on their way are dropped, unless the library still delivers them,
\* possibly with one more that says the master stopped the download.
StopDownloads ==
    /\ downloads' = [d \in DownloadIds |->
                        IF Running(d) THEN [downloads[d] EXCEPT !.status = "STOPPED_BY_MASTER"]
                                      ELSE downloads[d]]
    /\ \/ reports' = IF LateReports THEN reports ELSE <<>>
       \/ \E d \in DownloadIds :
            /\ LateReports /\ Running(d)
            /\ reports' = Append(reports, Info("STOPPED_BY_MASTER", downloads[d].bytes, d))
    /\ UNCHANGED <<started, survived>>

\* It fails, and what runs goes on.
StopNothing ==
    /\ AbortFails
    /\ survived' = survived \cup {d \in DownloadIds : Running(d)}
    /\ UNCHANGED <<downloads, started, reports>>

AbortDownloads == StopDownloads \/ StopNothing

EngineStep ==
    \E d \in DownloadIds :
        \/ Progress(d)
        \/ Complete(d)
        \/ \E status \in Failures : Fail(d, status)

EngineTypeOK ==
    /\ downloads \in [DownloadIds -> Download]
    /\ started \in 0..MaxDownloads
    /\ reports \in Seq(SWUpdateInfo)
    /\ survived \subseteq DownloadIds
=============================================================================
