------------------------- MODULE UpdateServiceProofs -------------------------
(***************************************************************************)
(* Proofs about UpdateService, for every set of callers, every size of the *)
(* images and every behaviour of the library.                              *)
(***************************************************************************)
EXTENDS UpdateService, TLAPS

\* The statuses are where they should be, so the type of a report is preserved by
\* taking it off the queue.
LEMMA QueueTyped ==
    ASSUME NEW S, NEW q \in Seq(S), q # <<>>
    PROVE  Head(q) \in S /\ Tail(q) \in Seq(S)
  OBVIOUS

\* A report appended to the queue leaves it a queue of reports.
LEMMA AppendTyped ==
    ASSUME NEW S, NEW q \in Seq(S), NEW e \in S
    PROVE  Append(q, e) \in Seq(S)
  OBVIOUS

\* A report built from a status, a byte count and a download is a SWUpdateInfo.
LEMMA InfoTyped ==
    ASSUME NEW status \in Statuses, NEW bytes \in Nat, NEW d \in 0..MaxDownloads
    PROVE  Info(status, bytes, d) \in SWUpdateInfo
  BY DEF Info, SWUpdateInfo

\* The engine keeps the types of its own variables, whatever it reports.
LEMMA EngineTyped ==
    ASSUME EngineTypeOK, EngineStep
    PROVE  EngineTypeOK'
  <1> USE EngineAssumption
  <1>1. ASSUME NEW d \in DownloadIds, Progress(d)
        PROVE  EngineTypeOK'
    <2> DEFINE sent == downloads[d].bytes + 1
    <2>1. downloads[d] \in Download /\ sent \in Nat
      BY <1>1 DEF EngineTypeOK, Download
    <2>2. [downloads[d] EXCEPT !.bytes = sent] \in Download
      BY <2>1 DEF Download
    <2>3. downloads' \in [DownloadIds -> Download]
      BY <1>1, <2>2 DEF Progress, EngineTypeOK
    <2>4. Info("RUNNING", sent, d) \in SWUpdateInfo
      BY <2>1, InfoTyped DEF Statuses, DownloadIds
    <2>5. reports' \in Seq(SWUpdateInfo)
      BY <1>1, <2>4, AppendTyped DEF Progress, EngineTypeOK
    <2>6. QED
      BY <1>1, <2>3, <2>5 DEF Progress, EngineTypeOK
  <1>2. ASSUME NEW d \in DownloadIds, Complete(d)
        PROVE  EngineTypeOK'
    <2>1. downloads[d] \in Download /\ downloads[d].size \in Nat
      BY <1>2 DEF EngineTypeOK, Download
    <2>2. downloads' \in [DownloadIds -> Download]
      BY <1>2, <2>1 DEF Complete, EngineTypeOK, Download, Statuses
    <2>3. Info("READY_SUCCESS", downloads[d].size, d) \in SWUpdateInfo
      BY <2>1, InfoTyped DEF Statuses, DownloadIds
    <2>4. reports' \in Seq(SWUpdateInfo)
      BY <1>2, <2>3, AppendTyped DEF Complete, EngineTypeOK
    <2>5. QED
      BY <1>2, <2>2, <2>4 DEF Complete, EngineTypeOK
  <1>3. ASSUME NEW d \in DownloadIds, NEW status \in Failures, Fail(d, status)
        PROVE  EngineTypeOK'
    <2>1. downloads[d] \in Download /\ downloads[d].bytes \in Nat /\ status \in Statuses
      BY <1>3 DEF EngineTypeOK, Download, Statuses
    <2>2. downloads' \in [DownloadIds -> Download]
      BY <1>3, <2>1 DEF Fail, EngineTypeOK, Download
    <2>3. Info(status, downloads[d].bytes, d) \in SWUpdateInfo
      BY <2>1, InfoTyped DEF DownloadIds
    <2>4. reports' \in Seq(SWUpdateInfo)
      BY <1>3, <2>3, AppendTyped DEF Fail, EngineTypeOK
    <2>5. QED
      BY <1>3, <2>2, <2>4 DEF Fail, EngineTypeOK
  <1>4. QED
    BY <1>1, <1>2, <1>3 DEF EngineStep

\* So does an abort, which leaves no download running but those it failed to stop.
LEMMA AbortTyped ==
    ASSUME EngineTypeOK, AbortDownloads
    PROVE  EngineTypeOK' /\ \A d \in DownloadIds : Running(d)' => d \in survived'
  <1> USE EngineAssumption
  <1>1. CASE StopNothing
    BY <1>1 DEF StopNothing, EngineTypeOK, Running
  <1>2. CASE StopDownloads
    <2>1. \A d \in DownloadIds :
              [downloads[d] EXCEPT !.status = "STOPPED_BY_MASTER"] \in Download
      BY DEF EngineTypeOK, Download, Statuses, FailureStatuses
    <2>2. downloads' \in [DownloadIds -> Download]
      BY <1>2, <2>1 DEF StopDownloads, EngineTypeOK
    <2>3. reports' \in Seq(SWUpdateInfo)
      <3>1. CASE reports' = IF LateReports THEN reports ELSE <<>>
        BY <3>1 DEF EngineTypeOK
      <3>2. ASSUME NEW d \in DownloadIds,
                   reports' = Append(reports, Info("STOPPED_BY_MASTER", downloads[d].bytes, d))
            PROVE  reports' \in Seq(SWUpdateInfo)
        <4>1. Info("STOPPED_BY_MASTER", downloads[d].bytes, d) \in SWUpdateInfo
          BY InfoTyped DEF EngineTypeOK, Download, Statuses, FailureStatuses, DownloadIds
        <4>2. QED
          BY <3>2, <4>1, AppendTyped DEF EngineTypeOK
      <3>3. QED
        BY <1>2, <3>1, <3>2 DEF StopDownloads
    <2>4. \A d \in DownloadIds : ~Running(d)'
      BY <1>2, <2>2 DEF StopDownloads, EngineTypeOK, Running, Download
    <2>5. QED
      BY <1>2, <2>2, <2>3, <2>4 DEF StopDownloads, EngineTypeOK
  <1>3. QED
    BY <1>1, <1>2 DEF AbortDownloads

\* A download that is accepted has the type of a download.
LEMMA AcceptTyped ==
    ASSUME EngineTypeOK, NEW size \in Nat, AcceptDownload(size)
    PROVE  EngineTypeOK' /\ started + 1 \in 0..MaxDownloads
  BY EngineAssumption DEF EngineTypeOK, AcceptDownload, Download, DownloadIds, Statuses

\* Every result HandleResult can give is one a caller may be answered.
LEMMA HandleResultTyped ==
    ASSUME NEW status \in Statuses
    PROVE  HandleResult(status) \in UpdateResults
  BY DEF HandleResult, UpdateResults

-----------------------------------------------------------------------------
(* The actions of the callers and of the library's thread, by name.         *)

LEMMA TypeInit == Init => TypeOK
  <1> SUFFICES ASSUME Init PROVE TypeOK
    OBVIOUS
  <1>1. EngineTypeOK
    BY EngineAssumption
       DEF Init, EngineInit, EngineTypeOK, Download, Statuses, FailureStatuses, DownloadIds
  <1>2. updateInfo \in SWUpdateInfo
    BY EngineAssumption, InfoTyped DEF Init, Statuses, FailureStatuses
  <1>3. QED
    <2>1. pc \in [Callers -> Steps] /\ result \in [Callers -> UpdateResults]
      BY DEF Init, Steps, UpdateResults
    <2>2. totalSize \in [Callers -> Nat] /\ mine \in [Callers -> 0..MaxDownloads]
      BY EngineAssumption DEF Init
    <2>3. /\ seen \subseteq Statuses /\ strayed \subseteq 0..MaxDownloads
          /\ callback \in {"idle", "notify"}
      BY DEF Init
    <2>4. QED
      BY <1>1, <1>2, <2>1, <2>2, <2>3 DEF Init, TypeOK

\* No step of the callers, of UpdateCallback or of the library breaks a type.
LEMMA TypeStep == TypeOK /\ [Next]_vars => TypeOK'
  <1> SUFFICES ASSUME TypeOK, [Next]_vars PROVE TypeOK'
    OBVIOUS
  <1> USE EngineAssumption, ServiceAssumption
  <1>1. CASE Engine
    BY <1>1, EngineTyped DEF Engine, TypeOK, serviceVars, historyVars
  <1>2. CASE StoreReport
    <2>1. Head(reports) \in SWUpdateInfo /\ Tail(reports) \in Seq(SWUpdateInfo)
      BY <1>2, QueueTyped DEF StoreReport, TypeOK, EngineTypeOK
    <2>2. Head(reports).status \in Statuses
      BY <2>1 DEF SWUpdateInfo
    <2>3. EngineTypeOK'
      BY <1>2, <2>1 DEF StoreReport, StoreHead, TypeOK, EngineTypeOK
    <2>4. strayed' \subseteq 0..MaxDownloads
      BY <1>2 DEF StoreReport, StoreHead, TypeOK
    <2>5. QED
      BY <1>2, <2>1, <2>2, <2>3, <2>4 DEF StoreReport, StoreHead, TypeOK
  <1>3. CASE NotifyOne
    <2>1. pc' \in [Callers -> Steps]
      BY <1>3 DEF NotifyOne, TypeOK, Goto, Steps
    <2>2. QED
      BY <1>3, <2>1 DEF NotifyOne, TypeOK, EngineTypeOK, engineVars, historyVars
  <1>4. ASSUME NEW c \in Callers, StartSoftwareUpdate(c)
        PROVE  TypeOK'
    <2> USE DEF TypeOK, EngineTypeOK, engineVars, historyVars, Goto, Return
    <2>1. CASE Enter(c)
      BY <2>1 DEF Enter, Steps, UpdateResults
    <2>2. ASSUME NEW error \in EarlyErrors, PrepareFails(c, error)
          PROVE  TypeOK'
      BY <2>2 DEF PrepareFails, Steps, UpdateResults
    <2>3. ASSUME NEW size \in Sizes, Prepare(c, size)
          PROVE  TypeOK'
      <3>1. Info("RUNNING", 0, 0) \in SWUpdateInfo
        BY InfoTyped DEF Statuses
      <3>2. QED
        BY <2>3, <3>1 DEF Prepare, Steps
    <2>4. CASE StartAccepted(c)
      <3>1. EngineTypeOK' /\ started + 1 \in 0..MaxDownloads
        BY <2>4, AcceptTyped DEF StartAccepted
      <3>2. QED
        BY <2>4, <3>1 DEF StartAccepted, Steps
    <2>5. CASE StartFails(c)
      BY <2>5 DEF StartFails, Steps, UpdateResults
    <2>6. CASE CheckPredicate(c)
      BY <2>6 DEF CheckPredicate, Steps
    <2>7. CASE TimeoutExpires(c)
      BY <2>7 DEF TimeoutExpires, Steps
    <2>8. CASE Abort(c)
      <3>1. EngineTypeOK'
        BY <2>8, AbortTyped DEF Abort
      <3>2. QED
        BY <2>8, <3>1 DEF Abort, Steps
    <2>9. CASE ReturnTimeout(c)
      <3>1. updateInfo' \in SWUpdateInfo
        <4>1. updateInfo.bytes \in Nat /\ 0 \in 0..MaxDownloads
          BY DEF SWUpdateInfo
        <4>2. "STOPPED_BY_ERROR_TIMEOUT" \in Statuses
          BY DEF Statuses, FailureStatuses
        <4>3. QED
          BY <2>9, <4>1, <4>2, InfoTyped DEF ReturnTimeout
      <3>2. QED
        BY <2>9, <3>1 DEF ReturnTimeout, Steps, UpdateResults
    <2>10. CASE Handle(c)
      <3>1. HandleResult(updateInfo.status) \in UpdateResults
        BY HandleResultTyped DEF SWUpdateInfo
      <3>2. QED
        BY <2>10, <3>1 DEF Handle, Steps
    <2>11. CASE Release(c)
      BY <2>11 DEF Release, Steps
    <2>12. QED
      BY <1>4, <2>1, <2>2, <2>3, <2>4, <2>5, <2>6, <2>7, <2>8, <2>9, <2>10, <2>11
         DEF StartSoftwareUpdate
  <1>5. CASE UNCHANGED vars
    BY <1>5 DEF vars, serviceVars, historyVars, engineVars, TypeOK, EngineTypeOK
  <1>6. QED
    BY <1>1, <1>2, <1>3, <1>4, <1>5 DEF Next, UpdateCallback

\* The typing of the service and of the reports it stores holds in every state.
THEOREM TypeCorrect == Spec => []TypeOK
  BY TypeInit, TypeStep, PTL DEF Spec

\* Whatever a step does, the downloads that are over keep their outcome.
LEMMA FinalStays ==
    ASSUME TypeOK, [Next]_vars
    PROVE  /\ started \in Nat /\ started' \in Nat /\ started <= started'
           /\ \A d \in 1..started : downloads[d].status # "RUNNING" =>
                                        downloads'[d].status = downloads[d].status
  <1> USE EngineAssumption DEF TypeOK, EngineTypeOK, DownloadIds
  <1>1. started \in Nat /\ 1..started \subseteq DownloadIds
    OBVIOUS
  <1>2. CASE UNCHANGED <<downloads, started>>
    BY <1>1, <1>2
  <1>3. CASE Engine
    <2>1. PICK d \in DownloadIds :
             Progress(d) \/ Complete(d) \/ \E status \in Failures : Fail(d, status)
      BY <1>3 DEF Engine, EngineStep
    <2>2. downloads[d].status = "RUNNING" /\ started' = started
      BY <2>1 DEF Progress, Complete, Fail, Running
    <2>3. \A e \in DownloadIds \ {d} : downloads'[e] = downloads[e]
      BY <2>1 DEF Progress, Complete, Fail
    <2>4. QED
      BY <1>1, <2>2, <2>3
  <1>4. ASSUME NEW c \in Callers, StartAccepted(c)
        PROVE  /\ started' = started + 1
               /\ \A d \in 1..started : downloads'[d] = downloads[d]
    BY <1>1, <1>4 DEF StartAccepted, AcceptDownload
  <1>5. ASSUME NEW c \in Callers, Abort(c)
        PROVE  /\ started' = started
               /\ \A d \in 1..started : downloads[d].status # "RUNNING" =>
                                            downloads'[d].status = downloads[d].status
    BY <1>1, <1>5 DEF Abort, AbortDownloads, StopDownloads, StopNothing, Running
  <1>6. ASSUME NEW c \in Callers, StartSoftwareUpdate(c)
        PROVE  \/ UNCHANGED <<downloads, started>>
               \/ StartAccepted(c)
               \/ Abort(c)
    BY <1>6 DEF StartSoftwareUpdate, Enter, PrepareFails, Prepare, StartFails, CheckPredicate,
                TimeoutExpires, ReturnTimeout, Handle, Release, engineVars
  <1>7. CASE UpdateCallback
    BY <1>1, <1>7 DEF UpdateCallback, StoreReport, StoreHead, NotifyOne, engineVars
  <1>8. QED
    BY <1>1, <1>2, <1>3, <1>4, <1>5, <1>6, <1>7 DEF Next, vars, engineVars

-----------------------------------------------------------------------------
(* The inductive invariant.                                                 *)

\* A caller is inside exactly if it is at a step other than "idle"; the step of one
\* caller leaves the others where they are.
LEMMA OthersStay ==
    ASSUME TypeOK, NEW c \in Callers, NEW step \in Steps, Goto(c, step)
    PROVE  /\ pc'[c] = step
           /\ \A other \in Callers \ {c} : pc'[other] = pc[other]
  BY DEF TypeOK, Goto

\* No step of a caller lets a second one in or leaves the flag behind.
LEMMA ExclusionStep ==
    ASSUME TypeOK, MutualExclusion, FlagMeansUpdating, [Next]_vars
    PROVE  MutualExclusion' /\ FlagMeansUpdating'
  <1> USE DEF MutualExclusion, FlagMeansUpdating, Updating
  <1>1. CASE Engine
    BY <1>1 DEF Engine, serviceVars
  <1>2. CASE StoreReport
    BY <1>2 DEF StoreReport, StoreHead
  <1>3. CASE NotifyOne
    BY <1>3 DEF NotifyOne, Goto, TypeOK
  <1>4. ASSUME NEW c \in Callers, Enter(c)
        PROVE  MutualExclusion' /\ FlagMeansUpdating'
    BY <1>4 DEF Enter, Goto, Return, TypeOK
  <1>5. ASSUME NEW c \in Callers, StartSoftwareUpdate(c), pc[c] # "idle"
        PROVE  MutualExclusion' /\ FlagMeansUpdating'
    <2>1. \A other \in Callers : other # c => pc[other] = "idle"
      BY <1>5
    <2>2. update_in_progress = TRUE
      BY <1>5 DEF TypeOK
    <2>3. \E step \in Steps :
            /\ pc' = [pc EXCEPT ![c] = step]
            /\ update_in_progress' = (step # "idle")
      <3> USE DEF Goto, Return, Steps
      <3>1. ASSUME NEW error \in EarlyErrors, PrepareFails(c, error)
            PROVE  pc' = [pc EXCEPT ![c] = "idle"] /\ update_in_progress' = FALSE
        BY <3>1 DEF PrepareFails
      <3>2. CASE StartFails(c) \/ ReturnTimeout(c) \/ Release(c)
        BY <3>2 DEF StartFails, ReturnTimeout, Release
      <3>3. ASSUME NEW size \in Sizes, Prepare(c, size)
            PROVE  pc' = [pc EXCEPT ![c] = "start"] /\ update_in_progress' = TRUE
        BY <2>2, <3>3 DEF Prepare
      <3>4. CASE StartAccepted(c) \/ Abort(c) \/ Handle(c)
        BY <2>2, <3>4 DEF StartAccepted, Abort, Handle
      <3>5. CASE CheckPredicate(c) \/ TimeoutExpires(c)
        BY <2>2, <3>5 DEF CheckPredicate, TimeoutExpires
      <3>6. CASE Enter(c)
        BY <1>5, <3>6 DEF Enter
      <3>7. QED
        BY <1>5, <3>1, <3>2, <3>3, <3>4, <3>5, <3>6 DEF StartSoftwareUpdate
    <2>4. QED
      BY <2>1, <2>3 DEF TypeOK
  <1>6. ASSUME NEW c \in Callers, StartSoftwareUpdate(c), pc[c] = "idle"
        PROVE  Enter(c)
    BY <1>6 DEF StartSoftwareUpdate, PrepareFails, Prepare, StartAccepted, StartFails,
                CheckPredicate, TimeoutExpires, Abort, ReturnTimeout, Handle, Release
  <1>7. CASE UNCHANGED vars
    BY <1>7 DEF vars, serviceVars
  <1>8. QED
    BY <1>1, <1>2, <1>3, <1>4, <1>5, <1>6, <1>7 DEF Next, UpdateCallback

\* The predicate of a sleeping caller turns true only in StoreReport, which owes a
\* notification; NotifyOne pays it to the only caller that can sleep.
LEMMA WakeupStep ==
    ASSUME TypeOK, MutualExclusion, NoLostWakeup, [Next]_vars
    PROVE  NoLostWakeup'
  <1> USE DEF NoLostWakeup, Finished
  <1>1. CASE Engine
    BY <1>1 DEF Engine, serviceVars
  <1>2. CASE StoreReport
    BY <1>2 DEF StoreReport, StoreHead
  <1>3. CASE NotifyOne
    BY <1>3 DEF NotifyOne, Goto, TypeOK, MutualExclusion, Updating
  <1>4. ASSUME NEW c \in Callers, StartSoftwareUpdate(c)
        PROVE  NoLostWakeup'
    <2> USE DEF Goto, Return, TypeOK
    <2>1. CASE Enter(c)
      BY <2>1 DEF Enter
    <2>2. ASSUME NEW error \in EarlyErrors, PrepareFails(c, error)
          PROVE  NoLostWakeup'
      BY <2>2 DEF PrepareFails
    <2>3. ASSUME NEW size \in Sizes, Prepare(c, size)
          PROVE  NoLostWakeup'
      BY <2>3 DEF Prepare, MutualExclusion, Updating
    <2>4. CASE StartAccepted(c) \/ StartFails(c) \/ Abort(c) \/ Handle(c) \/ Release(c)
      BY <2>4 DEF StartAccepted, StartFails, Abort, Handle, Release
    <2>5. CASE CheckPredicate(c)
      BY <2>5 DEF CheckPredicate
    <2>6. CASE TimeoutExpires(c)
      BY <2>6 DEF TimeoutExpires
    <2>7. CASE ReturnTimeout(c)
      BY <2>7 DEF ReturnTimeout, MutualExclusion, Updating
    <2>8. QED
      BY <1>4, <2>1, <2>2, <2>3, <2>4, <2>5, <2>6, <2>7 DEF StartSoftwareUpdate
  <1>5. CASE UNCHANGED vars
    BY <1>5 DEF vars, serviceVars
  <1>6. QED
    BY <1>1, <1>2, <1>3, <1>4, <1>5 DEF Next, UpdateCallback

\* The library starts nothing by itself, and the only caller inside is the one that
\* aborted.
LEMMA StoppedStep ==
    ASSUME TypeOK, MutualExclusion, TimedOutMeansStopped, [Next]_vars
    PROVE  TimedOutMeansStopped'
  <1> USE DEF TimedOutMeansStopped, Running
  <1>1. CASE Engine
    <2>1. UNCHANGED survived /\ \A d \in DownloadIds : Running(d)' => Running(d)
      BY <1>1 DEF Engine, EngineStep, Progress, Complete, Fail, TypeOK, EngineTypeOK, Download
    <2>2. QED
      BY <1>1, <2>1 DEF Engine, serviceVars
  <1>2. CASE StoreReport
    BY <1>2 DEF StoreReport, StoreHead
  <1>3. CASE NotifyOne
    BY <1>3 DEF NotifyOne, Goto, TypeOK, engineVars
  <1>4. ASSUME NEW c \in Callers, StartSoftwareUpdate(c)
        PROVE  TimedOutMeansStopped'
    <2> USE DEF Goto, Return, TypeOK, engineVars
    <2>1. CASE Enter(c)
      BY <2>1 DEF Enter
    <2>2. ASSUME NEW error \in EarlyErrors, PrepareFails(c, error)
          PROVE  TimedOutMeansStopped'
      BY <2>2 DEF PrepareFails
    <2>3. ASSUME NEW size \in Sizes, Prepare(c, size)
          PROVE  TimedOutMeansStopped'
      BY <2>3 DEF Prepare
    <2>4. CASE StartAccepted(c)
      BY <2>4 DEF StartAccepted, MutualExclusion, Updating
    <2>5. CASE StartFails(c) \/ CheckPredicate(c) \/ TimeoutExpires(c)
      BY <2>5 DEF StartFails, CheckPredicate, TimeoutExpires
    <2>6. CASE Abort(c)
      BY <2>6, AbortTyped DEF Abort
    <2>7. CASE ReturnTimeout(c) \/ Handle(c) \/ Release(c)
      BY <2>7 DEF ReturnTimeout, Handle, Release
    <2>8. QED
      BY <1>4, <2>1, <2>2, <2>3, <2>4, <2>5, <2>6, <2>7 DEF StartSoftwareUpdate
  <1>5. CASE UNCHANGED vars
    BY <1>5 DEF vars, serviceVars, engineVars
  <1>6. QED
    BY <1>1, <1>2, <1>3, <1>4, <1>5 DEF Next, UpdateCallback

\* The reset empties the history; every report stored afterwards joins it.
LEMMA FreshStep ==
    ASSUME TypeOK, MutualExclusion, StatusIsFresh, [Next]_vars
    PROVE  StatusIsFresh'
  <1> USE DEF StatusIsFresh
  <1>1. CASE Engine
    BY <1>1 DEF Engine, serviceVars, historyVars
  <1>2. CASE StoreReport
    BY <1>2 DEF StoreReport, StoreHead
  <1>3. CASE NotifyOne
    BY <1>3 DEF NotifyOne, Goto, TypeOK, historyVars
  <1>4. ASSUME NEW c \in Callers, StartSoftwareUpdate(c)
        PROVE  StatusIsFresh'
    <2> USE DEF Goto, Return, TypeOK, historyVars
    <2>1. CASE Enter(c)
      BY <2>1 DEF Enter
    <2>2. ASSUME NEW error \in EarlyErrors, PrepareFails(c, error)
          PROVE  StatusIsFresh'
      BY <2>2 DEF PrepareFails
    <2>3. ASSUME NEW size \in Sizes, Prepare(c, size)
          PROVE  StatusIsFresh'
      BY <2>3 DEF Prepare, Info
    <2>4. CASE StartAccepted(c) \/ StartFails(c) \/ CheckPredicate(c) \/ TimeoutExpires(c)
      BY <2>4 DEF StartAccepted, StartFails, CheckPredicate, TimeoutExpires
    <2>5. CASE Abort(c) \/ Handle(c) \/ Release(c)
      BY <2>5 DEF Abort, Handle, Release
    <2>6. CASE ReturnTimeout(c)
      BY <2>6 DEF ReturnTimeout, MutualExclusion, Updating
    <2>7. QED
      BY <1>4, <2>1, <2>2, <2>3, <2>4, <2>5, <2>6 DEF StartSoftwareUpdate
  <1>5. CASE UNCHANGED vars
    BY <1>5 DEF vars, serviceVars, historyVars
  <1>6. QED
    BY <1>1, <1>2, <1>3, <1>4, <1>5 DEF Next, UpdateCallback

\* HandleResult answers with the status in updateInfo_, which was reported; until the
\* answer is out only the library adds to the history.
LEMMA AnswerStep ==
    ASSUME TypeOK, MutualExclusion, StatusIsFresh, AnswerWasReported, [Next]_vars
    PROVE  AnswerWasReported'
  <1> USE DEF AnswerWasReported
  <1>1. CASE Engine
    BY <1>1 DEF Engine, serviceVars, historyVars
  <1>2. CASE StoreReport
    BY <1>2 DEF StoreReport, StoreHead
  <1>3. CASE NotifyOne
    BY <1>3 DEF NotifyOne, Goto, TypeOK, historyVars
  <1>4. ASSUME NEW c \in Callers, StartSoftwareUpdate(c)
        PROVE  AnswerWasReported'
    <2> USE DEF Goto, Return, TypeOK, historyVars
    <2>1. CASE Enter(c)
      BY <2>1 DEF Enter
    <2>2. ASSUME NEW error \in EarlyErrors, PrepareFails(c, error)
          PROVE  AnswerWasReported'
      BY <2>2 DEF PrepareFails
    <2>3. ASSUME NEW size \in Sizes, Prepare(c, size)
          PROVE  AnswerWasReported'
      BY <2>3 DEF Prepare, MutualExclusion, Updating
    <2>4. CASE StartAccepted(c) \/ StartFails(c) \/ CheckPredicate(c) \/ TimeoutExpires(c)
      BY <2>4 DEF StartAccepted, StartFails, CheckPredicate, TimeoutExpires
    <2>5. CASE Handle(c)
      <3>1. HandleResult("RUNNING") = "kUnknownError"
        BY DEF HandleResult
      <3>2. updateInfo.status \in {"RUNNING"} \cup seen
        BY <2>5 DEF Handle, StatusIsFresh
      <3>3. result'[c] = HandleResult(updateInfo.status)
        BY <2>5 DEF Handle
      <3>4. \A other \in Callers : other # c => pc'[other] # "release"
        BY <2>5 DEF Handle, MutualExclusion, Updating
      <3>5. QED
        BY <2>5, <3>1, <3>2, <3>3, <3>4 DEF Handle
    <2>6. CASE Abort(c) \/ ReturnTimeout(c) \/ Release(c)
      BY <2>6 DEF Abort, ReturnTimeout, Release
    <2>7. QED
      BY <1>4, <2>1, <2>2, <2>3, <2>4, <2>5, <2>6 DEF StartSoftwareUpdate
  <1>5. CASE UNCHANGED vars
    BY <1>5 DEF vars, serviceVars, historyVars
  <1>6. QED
    BY <1>1, <1>2, <1>3, <1>4, <1>5 DEF Next, UpdateCallback

\* The fresh UpdateService satisfies the invariant.
LEMMA InvariantInit == Init => IInv
  <1>1. Init => TypeOK
    BY TypeInit
  <1>2. ASSUME Init
        PROVE  /\ MutualExclusion /\ FlagMeansUpdating /\ NoLostWakeup
               /\ TimedOutMeansStopped /\ StatusIsFresh /\ AnswerWasReported
    BY <1>2 DEF Init, MutualExclusion, FlagMeansUpdating, NoLostWakeup, TimedOutMeansStopped,
                StatusIsFresh, AnswerWasReported, Updating
  <1>3. QED
    BY <1>1, <1>2 DEF IInv

\* Every section of StartSoftwareUpdate and UpdateCallback keeps the invariant.
LEMMA InvariantStep == IInv /\ [Next]_vars => IInv'
  <1> SUFFICES ASSUME IInv, [Next]_vars PROVE IInv'
    OBVIOUS
  <1> USE DEF IInv
  <1>1. TypeOK'
    BY TypeStep
  <1>2. MutualExclusion' /\ FlagMeansUpdating'
    BY ExclusionStep
  <1>3. NoLostWakeup'
    BY WakeupStep
  <1>4. TimedOutMeansStopped'
    BY StoppedStep
  <1>5. StatusIsFresh'
    BY FreshStep
  <1>6. AnswerWasReported'
    BY AnswerStep
  <1>7. QED
    BY <1>1, <1>2, <1>3, <1>4, <1>5, <1>6

\* The conjunction of everything below is an invariant of the service.
THEOREM Invariance == Spec => []IInv
  BY InvariantInit, InvariantStep, PTL DEF Spec

-----------------------------------------------------------------------------
(* What a request knows of its own download: OutcomeInv.                    *)

\* Downloads are only added to, and what is over stays as it is.
DownloadsGrow ==
    /\ started <= started' /\ survived \subseteq survived'
    /\ BytesFit'
    /\ \A d \in 1..started :
          /\ downloads'[d].size = downloads[d].size
          /\ downloads[d].bytes <= downloads'[d].bytes
          /\ downloads[d].status # "RUNNING" => downloads'[d].status = downloads[d].status

\* The queue gets one more report, which is true and of a download that still ran.
NewReport ==
    \E info \in SWUpdateInfo :
        /\ reports' = Append(reports, info)
        /\ IsTrue(info)'
        /\ info.download \in DownloadIds /\ Running(info.download)

\* Only two calls of a caller reach the library.
LEMMA CallerFrame ==
    ASSUME NEW c \in Callers, StartSoftwareUpdate(c)
    PROVE  \/ UNCHANGED engineVars
           \/ StartAccepted(c)
           \/ Abort(c)
  BY DEF StartSoftwareUpdate, Enter, PrepareFails, Prepare, StartFails, CheckPredicate,
         TimeoutExpires, ReturnTimeout, Handle, Release

\* A step of the library sends one more report, true of the only download it changes.
LEMMA EngineGrows ==
    ASSUME TypeOK, BytesFit, EngineStep
    PROVE  DownloadsGrow /\ NewReport
  <1> USE EngineAssumption DEF TypeOK, EngineTypeOK, Download, BytesFit, Running, DownloadIds
  <1>1. ASSUME NEW d \in DownloadIds, NEW status \in Statuses, NEW bytes \in Nat,
               downloads[d].bytes <= bytes, bytes <= downloads[d].size, Running(d),
               downloads'[d].status = status, downloads'[d].bytes = bytes,
               downloads'[d].size = downloads[d].size,
               \A e \in DownloadIds \ {d} : downloads'[e] = downloads[e],
               reports' = Append(reports, Info(status, bytes, d)),
               started' = started, survived' = survived
        PROVE  DownloadsGrow /\ NewReport
    <2>1. DownloadsGrow
      <3>1. started \in Nat /\ started <= started' /\ survived \subseteq survived'
        BY <1>1
      <3>2. ASSUME NEW e \in DownloadIds
            PROVE  /\ downloads'[e].size = downloads[e].size
                   /\ downloads[e].bytes <= downloads'[e].bytes
                   /\ downloads'[e].bytes <= downloads'[e].size
                   /\ downloads[e].status # "RUNNING" =>
                         downloads'[e].status = downloads[e].status
        <4>1. CASE e = d
          BY <1>1, <4>1
        <4>2. CASE e # d
          <5>1. downloads'[e] = downloads[e]
            BY <1>1, <4>2
          <5>2. downloads[e].bytes \in Nat /\ downloads[e].bytes <= downloads[e].size
            BY <4>2
          <5>3. QED
            BY <5>1, <5>2
        <4>3. QED
          BY <4>1, <4>2
      <3>3. 1..started \subseteq DownloadIds
        BY <1>1
      <3>4. QED
        BY <3>1, <3>2, <3>3 DEF DownloadsGrow
    <2>2. Info(status, bytes, d) \in SWUpdateInfo
      <3>1. d \in 0..MaxDownloads
        OBVIOUS
      <3>2. QED
        BY <3>1, InfoTyped
    <2>3. IsTrue(Info(status, bytes, d))'
      BY <1>1 DEF IsTrue, Info
    <2>4. Info(status, bytes, d).download = d
      BY DEF Info
    <2>5. QED
      BY <1>1, <2>1, <2>2, <2>3, <2>4 DEF NewReport
  <1>2. ASSUME NEW d \in DownloadIds, Progress(d)
        PROVE  DownloadsGrow /\ NewReport
    <2> DEFINE sent == downloads[d].bytes + 1
    <2>1. /\ sent \in Nat /\ downloads[d].bytes <= sent /\ sent <= downloads[d].size
          /\ downloads[d].status = "RUNNING"
      BY <1>2 DEF Progress
    <2>2. /\ downloads'[d].status = "RUNNING" /\ downloads'[d].bytes = sent
          /\ downloads'[d].size = downloads[d].size
          /\ \A e \in DownloadIds \ {d} : downloads'[e] = downloads[e]
      BY <1>2, <2>1 DEF Progress
    <2>3. "RUNNING" \in Statuses
      BY DEF Statuses
    <2>4. QED
      BY <1>1, <1>2, <2>1, <2>2, <2>3 DEF Progress
  <1>3. ASSUME NEW d \in DownloadIds, Complete(d)
        PROVE  DownloadsGrow /\ NewReport
    <2>1. downloads[d].size \in Nat /\ downloads[d].bytes <= downloads[d].size
      BY <1>3
    <2>2. /\ downloads'[d].status = "READY_SUCCESS"
          /\ downloads'[d].bytes = downloads[d].size /\ downloads'[d].size = downloads[d].size
          /\ \A e \in DownloadIds \ {d} : downloads'[e] = downloads[e]
      BY <1>3 DEF Complete
    <2>3. "READY_SUCCESS" \in Statuses
      BY DEF Statuses
    <2>4. QED
      BY <1>1, <1>3, <2>1, <2>2, <2>3 DEF Complete
  <1>4. ASSUME NEW d \in DownloadIds, NEW status \in Failures, Fail(d, status)
        PROVE  DownloadsGrow /\ NewReport
    <2>1. /\ downloads[d].bytes \in Nat /\ downloads[d].bytes <= downloads[d].bytes
          /\ downloads[d].bytes <= downloads[d].size
      BY <1>4
    <2>2. /\ downloads'[d].status = status
          /\ downloads'[d].bytes = downloads[d].bytes /\ downloads'[d].size = downloads[d].size
          /\ \A e \in DownloadIds \ {d} : downloads'[e] = downloads[e]
      BY <1>4 DEF Fail
    <2>3. status \in Statuses
      BY DEF Statuses
    <2>4. QED
      BY <1>1, <1>4, <2>1, <2>2, <2>3 DEF Fail
  <1>5. QED
    BY <1>2, <1>3, <1>4 DEF EngineStep

\* An abort stops downloads and sends at most one true report, or does nothing at all.
LEMMA AbortGrows ==
    ASSUME TypeOK, BytesFit, AbortDownloads
    PROVE  DownloadsGrow /\ (reports' \in {reports, <<>>} \/ NewReport)
  <1> USE EngineAssumption DEF TypeOK, EngineTypeOK, Download, BytesFit, Running, DownloadIds
  <1>1. CASE StopNothing
    BY <1>1 DEF StopNothing, DownloadsGrow
  <1>2. CASE StopDownloads
    <2>1. DownloadsGrow
      BY <1>2 DEF StopDownloads, DownloadsGrow
    <2>2. ASSUME NEW d \in DownloadIds, Running(d), NEW bytes \in Nat,
                 reports' = Append(reports, Info("STOPPED_BY_MASTER", bytes, d))
          PROVE  NewReport
      <3>1. Info("STOPPED_BY_MASTER", bytes, d) \in SWUpdateInfo
        BY <2>2, InfoTyped DEF Statuses, FailureStatuses
      <3>2. IsTrue(Info("STOPPED_BY_MASTER", bytes, d))'
        BY <1>2, <2>2 DEF StopDownloads, IsTrue, Info
      <3>3. Info("STOPPED_BY_MASTER", bytes, d).download = d
        BY DEF Info
      <3>4. QED
        BY <2>2, <3>1, <3>2, <3>3 DEF NewReport
    <2>3. \A d \in DownloadIds : downloads[d].bytes \in Nat
      OBVIOUS
    <2>4. QED
      BY <1>2, <2>1, <2>2, <2>3 DEF StopDownloads
  <1>3. QED
    BY <1>1, <1>2 DEF AbortDownloads

\* So it is with every step of the service.
LEMMA StepGrows ==
    ASSUME TypeOK, BytesFit, [Next]_vars
    PROVE  /\ DownloadsGrow
           /\ reports' \in {reports, <<>>} \/ NewReport \/ StoreReport
  <1> USE EngineAssumption DEF TypeOK, EngineTypeOK
  <1>1. ASSUME UNCHANGED <<downloads, started, survived>>
        PROVE  DownloadsGrow
    <2>1. started \in Nat /\ 1..started \subseteq DownloadIds
      BY DEF DownloadIds
    <2>2. \A d \in DownloadIds : downloads[d].bytes \in Nat
      BY DEF Download
    <2>3. QED
      BY <1>1, <2>1, <2>2 DEF DownloadsGrow, BytesFit
  <1>2. CASE Engine
    BY <1>2, EngineGrows DEF Engine
  <1>3. ASSUME NEW c \in Callers, StartAccepted(c)
        PROVE  DownloadsGrow /\ reports' = reports
    <2>1. /\ started' = started + 1 /\ started' \in DownloadIds
          /\ downloads' = [downloads EXCEPT ![started'] =
                [status |-> "RUNNING", size |-> totalSize[c], bytes |-> 0]]
          /\ UNCHANGED <<reports, survived>>
      BY <1>3 DEF StartAccepted, AcceptDownload, DownloadIds
    <2>2. QED
      BY <2>1 DEF DownloadsGrow, BytesFit, DownloadIds, Download
  <1>4. ASSUME NEW c \in Callers, Abort(c)
        PROVE  DownloadsGrow /\ (reports' \in {reports, <<>>} \/ NewReport)
    BY <1>4, AbortGrows DEF Abort
  <1>5. ASSUME NEW c \in Callers, StartSoftwareUpdate(c)
        PROVE  DownloadsGrow /\ (reports' \in {reports, <<>>} \/ NewReport)
    BY <1>1, <1>3, <1>4, <1>5, CallerFrame DEF engineVars
  <1>6. CASE UpdateCallback
    BY <1>1, <1>6 DEF UpdateCallback, StoreReport, NotifyOne, engineVars
  <1>7. QED
    BY <1>1, <1>2, <1>5, <1>6 DEF Next, vars, engineVars

\* What was true of a download stays so, and so does a way to outlive the request.
LEMMA TruthStays ==
    ASSUME TypeOK, DownloadsGrow, TypeOK', NEW info \in SWUpdateInfo, IsTrue(info)
    PROVE  IsTrue(info)'
  <1>1. CASE info.download = 0
    BY <1>1 DEF IsTrue
  <1>2. CASE info.download # 0
    <2>1. info.download \in 1..started /\ info.download \in DownloadIds /\ info.download <= started'
      BY <1>2, EngineAssumption DEF IsTrue, SWUpdateInfo, TypeOK, EngineTypeOK, DownloadsGrow, DownloadIds
    <2>2. /\ info.bytes \in Nat /\ downloads[info.download].bytes \in Nat
          /\ downloads'[info.download].bytes \in Nat
      BY <2>1 DEF SWUpdateInfo, TypeOK, EngineTypeOK, Download
    <2>3. QED
      BY <1>2, <2>1, <2>2 DEF IsTrue, DownloadsGrow
  <1>3. QED
    BY <1>1, <1>2

\* A download that may outlive its request goes on to be one.
LEMMA OutliveStays ==
    ASSUME TypeOK, TypeOK', DownloadsGrow, strayed \subseteq strayed', NEW d \in 1..started
    PROVE  /\ MayOutlive(d) => MayOutlive(d)'
           /\ Running(d)' => Running(d)
  <1>1. d \in DownloadIds /\ started \in Nat
    BY EngineAssumption DEF TypeOK, EngineTypeOK, DownloadIds
  <1>2. /\ downloads[d] \in Download /\ downloads'[d] \in Download
    BY <1>1 DEF TypeOK, EngineTypeOK
  <1>3. /\ downloads[d].bytes \in Nat /\ downloads[d].size \in Nat /\ downloads'[d].bytes \in Nat
    BY <1>2 DEF Download
  <1>4. QED
    BY <1>1, <1>3 DEF DownloadsGrow, MayOutlive, Running

\* Strayed reports are not forgotten.
LEMMA StrayedStays ==
    ASSUME [Next]_vars
    PROVE  strayed \subseteq strayed'
  <1>1. CASE Engine \/ UNCHANGED vars
    BY <1>1 DEF Engine, vars, historyVars
  <1>2. CASE UpdateCallback
    BY <1>2 DEF UpdateCallback, StoreReport, StoreHead, NotifyOne, historyVars
  <1>3. ASSUME NEW c \in Callers, StartSoftwareUpdate(c)
        PROVE  strayed \subseteq strayed'
    BY <1>3 DEF StartSoftwareUpdate, Enter, PrepareFails, Prepare, StartAccepted, StartFails,
                CheckPredicate, TimeoutExpires, Abort, ReturnTimeout, Handle, Release, historyVars
  <1>4. QED
    BY <1>1, <1>2, <1>3 DEF Next

\* What joins updateInfo_: the oldest report, or something without a download.
LEMMA InfoChanges ==
    ASSUME [Next]_vars
    PROVE  updateInfo' = updateInfo \/ StoreReport \/ updateInfo'.download = 0
  <1>1. CASE Engine \/ UNCHANGED vars
    BY <1>1 DEF Engine, vars, serviceVars
  <1>2. CASE UpdateCallback
    BY <1>2 DEF UpdateCallback, NotifyOne
  <1>3. ASSUME NEW c \in Callers, StartSoftwareUpdate(c)
        PROVE  updateInfo' = updateInfo \/ updateInfo'.download = 0
    BY <1>3 DEF StartSoftwareUpdate, Enter, PrepareFails, Prepare, StartAccepted, StartFails,
                CheckPredicate, TimeoutExpires, Abort, ReturnTimeout, Handle, Release, Info
  <1>4. QED
    BY <1>1, <1>2, <1>3 DEF Next

LEMMA ReportsStep ==
    ASSUME TypeOK, TypeOK', BytesFit, ReportsAreTrue, [Next]_vars
    PROVE  ReportsAreTrue'
  <1>1. /\ DownloadsGrow
        /\ reports' \in {reports, <<>>} \/ NewReport \/ StoreReport
    BY StepGrows
  <1>2. \A info \in SWUpdateInfo : IsTrue(info) => IsTrue(info)'
    BY <1>1, TruthStays
  <1>3. /\ reports \in Seq(SWUpdateInfo) /\ updateInfo \in SWUpdateInfo
        /\ \A i \in 1..Len(reports) : reports[i] \in SWUpdateInfo
    BY DEF TypeOK, EngineTypeOK
  <1>4. /\ IsTrue(updateInfo) /\ \A i \in 1..Len(reports) : IsTrue(reports[i])
    BY DEF ReportsAreTrue
  <1>5. ASSUME NEW info \in SWUpdateInfo, updateInfo' = info, IsTrue(info)'
        PROVE  IsTrue(updateInfo)'
    BY <1>5 DEF IsTrue
  <1>6. ASSUME NEW i \in 1..Len(reports'), NEW info \in SWUpdateInfo, reports'[i] = info,
               IsTrue(info)'
        PROVE  IsTrue(reports[i])'
    BY <1>6 DEF IsTrue
  <1>7. IsTrue(updateInfo)'
    <2>1. CASE updateInfo' = updateInfo
      BY <1>2, <1>3, <1>4, <1>5, <2>1
    <2>2. CASE StoreReport
      <3>1. updateInfo' = reports[1] /\ 1 \in 1..Len(reports)
        BY <1>3, <2>2 DEF StoreReport, StoreHead
      <3>2. QED
        BY <1>2, <1>3, <1>4, <1>5, <3>1
    <2>3. CASE updateInfo'.download = 0
      BY <2>3 DEF IsTrue
    <2>4. QED
      BY <2>1, <2>2, <2>3, InfoChanges
  <1>8. ASSUME NEW i \in 1..Len(reports')
        PROVE  IsTrue(reports[i])'
    <2>1. ASSUME NEW j \in 1..Len(reports), reports'[i] = reports[j]
          PROVE  IsTrue(reports[i])'
      BY <1>2, <1>3, <1>4, <1>6, <2>1
    <2>2. CASE reports' = reports
      BY <2>1, <2>2
    <2>3. CASE reports' = <<>>
      BY <2>3
    <2>4. CASE StoreReport
      <3>1. reports # <<>> /\ reports' = Tail(reports)
        BY <2>4 DEF StoreReport, StoreHead
      <3>2. i + 1 \in 1..Len(reports) /\ reports'[i] = reports[i + 1]
        BY <1>3, <3>1
      <3>3. QED
        BY <2>1, <3>2
    <2>5. CASE NewReport
      <3>1. PICK info \in SWUpdateInfo : reports' = Append(reports, info) /\ IsTrue(info)'
        BY <2>5 DEF NewReport
      <3>2. \/ i \in 1..Len(reports) /\ reports'[i] = reports[i]
            \/ reports'[i] = info
        BY <1>3, <3>1
      <3>3. QED
        BY <1>6, <2>1, <3>1, <3>2
    <2>6. QED
      BY <1>1, <2>2, <2>3, <2>4, <2>5
  <1>9. QED
    BY <1>7, <1>8 DEF ReportsAreTrue

\* A request resets updateInfo_ and then listens; a report of another download that it is
\* told of makes its own a strayed one.
LEMMA OwnStep ==
    ASSUME TypeOK, TypeOK', MutualExclusion, BytesFit, InfoIsOwn, [Next]_vars
    PROVE  InfoIsOwn'
  <1> USE DEF InfoIsOwn, Listening
  <1>1. DownloadsGrow /\ strayed \subseteq strayed'
    BY StepGrows, StrayedStays
  <1>2. started \in Nat /\ started' \in Nat
    BY EngineAssumption DEF TypeOK, EngineTypeOK
  <1>3. ASSUME UNCHANGED <<pc, updateInfo, totalSize, mine, seen>>
        PROVE  InfoIsOwn'
    BY <1>1, <1>2, <1>3 DEF DownloadsGrow
  <1>4. CASE Engine
    BY <1>3, <1>4 DEF Engine, serviceVars, historyVars
  <1>5. CASE StoreReport
    <2>1. UNCHANGED <<downloads, started, pc, totalSize, mine>> /\ seen' # {}
      BY <1>5 DEF StoreReport, StoreHead
    <2>2. ASSUME NEW c \in Callers, Listening(c)
          PROVE  updateInfo'.download = mine[c] \/ mine[c] \in strayed'
      BY <1>5, <2>2 DEF StoreReport, StoreHead
    <2>3. QED
      BY <2>1, <2>2
  <1>6. CASE NotifyOne
    <2>1. UNCHANGED <<downloads, started, updateInfo, totalSize, mine, seen, strayed>>
      BY <1>6 DEF NotifyOne, engineVars, historyVars
    <2>2. \A c \in Callers : pc'[c] = pc[c] \/ (pc[c] = "sleeping" /\ pc'[c] = "wait")
      BY <1>6 DEF NotifyOne, Goto, TypeOK
    <2>3. QED
      BY <2>1, <2>2
  <1>7. ASSUME NEW c \in Callers, StartSoftwareUpdate(c)
        PROVE  InfoIsOwn'
    <2> USE DEF Goto, Return, TypeOK, engineVars, historyVars
    <2>1. CASE Enter(c)
      <3>1. /\ UNCHANGED <<downloads, started, updateInfo, totalSize, mine, seen, strayed>>
            /\ \A x \in Callers : pc'[x] = pc[x] \/ pc'[x] \in {"idle", "prepare"}
        BY <2>1 DEF Enter
      <3>2. QED
        BY <3>1
    <2>2. CASE pc[c] # "idle"
      <3>1. \A other \in Callers \ {c} : pc'[other] = pc[other] /\ pc'[other] = "idle"
        <4>1. \A other \in Callers \ {c} : pc[other] = "idle"
          BY <2>2 DEF MutualExclusion, Updating
        <4>2. \E step \in Steps : pc' = [pc EXCEPT ![c] = step]
          BY <1>7 DEF StartSoftwareUpdate, Enter, PrepareFails, Prepare, StartAccepted, StartFails,
                      CheckPredicate, TimeoutExpires, Abort, ReturnTimeout, Handle, Release, Steps
        <4>3. QED
          BY <4>1, <4>2
      <3>2. ASSUME pc'[c] \in {"idle", "prepare"}
            PROVE  InfoIsOwn'
        BY <3>1, <3>2
      <3>3. ASSUME NEW error \in EarlyErrors, PrepareFails(c, error)
            PROVE  InfoIsOwn'
        BY <3>2, <3>3 DEF PrepareFails
      <3>4. ASSUME NEW size \in Sizes, Prepare(c, size)
            PROVE  InfoIsOwn'
        <4>1. pc'[c] = "start" /\ updateInfo' = Info("RUNNING", 0, 0)
          BY <3>4 DEF Prepare
        <4>2. QED
          BY <3>1, <4>1
      <3>5. CASE StartAccepted(c)
        <4>1. /\ pc'[c] = "wait" /\ mine'[c] = started' /\ started' \in DownloadIds
              /\ started' = started + 1
              /\ downloads'[started'].size = totalSize[c]
              /\ UNCHANGED <<updateInfo, totalSize>>
          BY <1>2, <3>5 DEF StartAccepted, AcceptDownload, DownloadIds, EngineTypeOK
        <4>2. updateInfo = Info("RUNNING", 0, 0) \/ started' \in strayed'
          BY <3>5, <4>1 DEF StartAccepted
        <4>3. started' \in 1..started'
          BY <1>2, <4>1
        <4>4. QED
          BY <3>1, <4>1, <4>2, <4>3
      <3>6. CASE StartFails(c) \/ ReturnTimeout(c) \/ Release(c)
        BY <3>2, <3>6 DEF StartFails, ReturnTimeout, Release
      <3>7. CASE CheckPredicate(c) \/ TimeoutExpires(c) \/ Handle(c)
        <4>1. /\ Listening(c)
              /\ UNCHANGED <<downloads, started, updateInfo, totalSize, mine, seen, strayed>>
              /\ pc'[c] \in {"wait", "sleeping", "abort", "handle", "release"}
          BY <3>7 DEF CheckPredicate, TimeoutExpires, Handle
        <4>2. QED
          BY <3>1, <4>1
      <3>8. CASE Abort(c)
        <4>1. /\ Listening(c) /\ pc'[c] = "timedout" /\ UNCHANGED mine
          BY <3>8 DEF Abort
        <4>2. mine[c] \in 1..started'
          BY <1>1, <1>2, <4>1 DEF DownloadsGrow
        <4>3. QED
          BY <3>1, <4>1, <4>2
      <3>9. QED
        BY <1>7, <2>1, <3>3, <3>4, <3>5, <3>6, <3>7, <3>8 DEF StartSoftwareUpdate
    <2>3. QED
      BY <1>7, <2>1, <2>2
         DEF StartSoftwareUpdate, PrepareFails, Prepare, StartAccepted, StartFails,
             CheckPredicate, TimeoutExpires, Abort, ReturnTimeout, Handle, Release
  <1>8. CASE UNCHANGED vars
    BY <1>3, <1>8 DEF vars, serviceVars, historyVars
  <1>9. QED
    BY <1>4, <1>5, <1>6, <1>7, <1>8 DEF Next, UpdateCallback

\* What the predicate of the wait says of the request's own download.
LEMMA FinishedMeans ==
    ASSUME TypeOK, ReportsAreTrue, InfoIsOwn, NEW c \in Callers, Listening(c), Finished(c)
    PROVE  downloads[mine[c]].status # "RUNNING" \/ MayOutlive(mine[c])
  <1>1. /\ mine[c] \in DownloadIds /\ mine[c] # 0
        /\ downloads[mine[c]].size = totalSize[c]
    BY EngineAssumption DEF InfoIsOwn, TypeOK, EngineTypeOK, DownloadIds
  <1>2. /\ downloads[mine[c]].bytes \in Nat /\ downloads[mine[c]].size \in Nat
        /\ updateInfo.bytes \in Nat
    BY <1>1 DEF TypeOK, EngineTypeOK, Download, SWUpdateInfo
  <1>3. CASE updateInfo = Info("RUNNING", 0, 0)
    BY <1>1, <1>2, <1>3 DEF Finished, Info, MayOutlive
  <1>4. CASE updateInfo.download = mine[c]
    <2>1. IF updateInfo.status = "RUNNING"
          THEN updateInfo.bytes <= downloads[mine[c]].bytes
          ELSE downloads[mine[c]].status = updateInfo.status
      BY <1>1, <1>4 DEF ReportsAreTrue, IsTrue
    <2>2. QED
      BY <1>1, <1>2, <2>1 DEF Finished, MayOutlive
  <1>5. CASE mine[c] \in strayed
    BY <1>5 DEF MayOutlive
  <1>6. QED
    BY <1>3, <1>4, <1>5 DEF InfoIsOwn


\* Nobody gets behind the wait while its download runs, but in the ways MayOutlive names.
LEMMA BehindStep ==
    ASSUME TypeOK, TypeOK', MutualExclusion, BytesFit, ReportsAreTrue, InfoIsOwn, BehindTheWait,
           [Next]_vars
    PROVE  BehindTheWait'
  <1> SUFFICES ASSUME NEW c \in Callers, pc'[c] \in {"handle", "timedout", "release"}
               PROVE  \/ downloads'[mine'[c]].status # "RUNNING"
                      \/ MayOutlive(mine[c])'
    BY DEF BehindTheWait
  <1>1. \A d \in 1..started :
            downloads[d].status # "RUNNING" \/ MayOutlive(d) =>
                downloads'[d].status # "RUNNING" \/ MayOutlive(d)'
    BY StepGrows, StrayedStays, OutliveStays DEF DownloadsGrow
  <1>2. ASSUME mine'[c] = mine[c], mine[c] \in 1..started,
               downloads[mine[c]].status # "RUNNING" \/ MayOutlive(mine[c])
        PROVE  downloads'[mine'[c]].status # "RUNNING" \/ MayOutlive(mine[c])'
    BY <1>1, <1>2 DEF MayOutlive
  <1>3. ASSUME pc[c] = pc'[c], mine'[c] = mine[c]
        PROVE  downloads'[mine'[c]].status # "RUNNING" \/ MayOutlive(mine[c])'
    BY <1>2, <1>3 DEF BehindTheWait, InfoIsOwn, Listening
  <1>4. CASE Engine \/ StoreReport \/ UNCHANGED vars
    BY <1>3, <1>4 DEF Engine, StoreReport, vars, serviceVars, historyVars
  <1>5. CASE NotifyOne
    BY <1>3, <1>5 DEF NotifyOne, Goto, TypeOK, historyVars
  <1>6. ASSUME NEW x \in Callers, StartSoftwareUpdate(x), x # c
        PROVE  pc[c] = pc'[c] /\ mine'[c] = mine[c]
    BY <1>6 DEF StartSoftwareUpdate, Enter, PrepareFails, Prepare, StartAccepted, StartFails,
                CheckPredicate, TimeoutExpires, Abort, ReturnTimeout, Handle, Release,
                Goto, Return, TypeOK, historyVars
  <1>7. CASE StartSoftwareUpdate(c)
    <2> USE DEF Goto, Return, TypeOK, historyVars
    <2>1. CASE CheckPredicate(c) \/ TimeoutExpires(c)
      <3>1. Listening(c) /\ Finished(c) /\ mine'[c] = mine[c]
        BY <2>1 DEF CheckPredicate, TimeoutExpires, Listening
      <3>2. QED
        BY <1>2, <3>1, FinishedMeans DEF InfoIsOwn
    <2>2. CASE Abort(c)
      <3>1. /\ mine[c] \in 1..started /\ mine'[c] = mine[c]
            /\ \A d \in DownloadIds : Running(d)' => d \in survived'
        BY <2>2, AbortTyped DEF Abort, InfoIsOwn, Listening
      <3>2. mine[c] \in DownloadIds /\ mine[c] <= started'
        BY <3>1, StepGrows, EngineAssumption DEF DownloadsGrow, EngineTypeOK, DownloadIds
      <3>3. QED
        BY <3>1, <3>2 DEF MayOutlive, Running
    <2>3. CASE Handle(c)
      <3>1. pc[c] = "handle" /\ mine'[c] = mine[c]
        BY <2>3 DEF Handle
      <3>2. QED
        BY <1>2, <3>1 DEF BehindTheWait, InfoIsOwn, Listening
    <2>4. QED
      BY <1>7, <2>1, <2>2, <2>3
         DEF StartSoftwareUpdate, Enter, PrepareFails, Prepare, StartAccepted, StartFails,
             ReturnTimeout, Release
  <1>8. QED
    BY <1>3, <1>4, <1>5, <1>6, <1>7 DEF Next, UpdateCallback

\* A waiting caller stays with its download until it is behind the wait.
LEMMA WaitStep ==
    ASSUME TypeOK, NEW c \in Callers, Waiting(c), [Next]_vars
    PROVE  mine'[c] = mine[c] /\ (Waiting(c)' \/ pc'[c] \in {"handle", "timedout"})
  <1> USE DEF Waiting, Goto, Return, TypeOK, historyVars
  <1>1. CASE Engine \/ StoreReport \/ NotifyOne \/ UNCHANGED vars
    BY <1>1 DEF Engine, StoreReport, NotifyOne, vars, serviceVars
  <1>2. ASSUME NEW x \in Callers, StartSoftwareUpdate(x)
        PROVE  mine'[c] = mine[c] /\ (Waiting(c)' \/ pc'[c] \in {"handle", "timedout"})
    BY <1>2 DEF StartSoftwareUpdate, Enter, PrepareFails, Prepare, StartAccepted, StartFails,
                CheckPredicate, TimeoutExpires, Abort, ReturnTimeout, Handle, Release
  <1>3. QED
    BY <1>1, <1>2 DEF Next, UpdateCallback

LEMMA EndsStep ==
    ASSUME TypeOK, TypeOK', BytesFit, BehindTheWait', DownloadEndsWithRequest, [Next]_vars
    PROVE  DownloadEndsWithRequest'
  <1> SUFFICES ASSUME NEW d \in DownloadIds, Running(d)', ~MayOutlive(d)'
               PROVE  \E c \in Callers : Waiting(c)' /\ mine'[c] = d
    BY DEF DownloadEndsWithRequest
  <1>1. d \in Nat \ {0} /\ started \in Nat
    BY EngineAssumption DEF TypeOK, EngineTypeOK, DownloadIds
  <1>2. CASE d <= started
    <2>1. Running(d) /\ ~MayOutlive(d)
      BY <1>1, <1>2, StepGrows, StrayedStays, OutliveStays
    <2>2. PICK c \in Callers : Waiting(c) /\ mine[c] = d
      BY <2>1 DEF DownloadEndsWithRequest
    <2>3. mine'[c] = d /\ (Waiting(c)' \/ pc'[c] \in {"handle", "timedout"})
      BY <2>2, WaitStep
    <2>4. pc'[c] \in {"handle", "timedout"} => FALSE
      BY <2>3 DEF BehindTheWait, Running, MayOutlive
    <2>5. QED
      BY <2>3, <2>4
  <1>3. CASE ~(d <= started)
    <2>1. PICK c \in Callers : StartAccepted(c)
      <3>1. started' # started
        BY <1>1, <1>3 DEF Running
      <3>2. ~Engine /\ ~UpdateCallback
        BY <3>1 DEF Engine, EngineStep, Progress, Complete, Fail, UpdateCallback, StoreReport,
                    NotifyOne, engineVars
      <3>3. \A c \in Callers : ~Abort(c)
        BY <3>1 DEF Abort, AbortDownloads, StopDownloads, StopNothing
      <3>4. QED
        BY <3>1, <3>2, <3>3, CallerFrame DEF Next, vars, engineVars
    <2>2. started' = started + 1 /\ mine'[c] = started + 1 /\ pc'[c] = "wait"
      BY <2>1 DEF StartAccepted, AcceptDownload, Goto, TypeOK
    <2>3. mine'[c] = d
      BY <1>1, <1>3, <2>2 DEF Running
    <2>4. QED
      BY <2>2, <2>3 DEF Waiting
  <1>4. QED
    BY <1>2, <1>3

\* A success is answered to the caller whose download the report was about.
LEMMA SuccessStep ==
    ASSUME TypeOK, TypeOK', BytesFit, ReportsAreTrue, InfoIsOwn, SuccessIsOwn, [Next]_vars
    PROVE  SuccessIsOwn'
  <1> SUFFICES ASSUME NEW c \in Callers, pc'[c] = "release", result'[c] = "kSuccess",
                      mine'[c] \notin strayed'
               PROVE  downloads'[mine'[c]].status = "READY_SUCCESS"
    BY DEF SuccessIsOwn
  <1>1. \A d \in 1..started : downloads[d].status = "READY_SUCCESS" =>
                                  downloads'[d].status = "READY_SUCCESS"
    BY StepGrows DEF DownloadsGrow
  <1>2. strayed \subseteq strayed'
    BY StrayedStays
  <1>3. ASSUME pc[c] = "release", result[c] = result'[c], mine'[c] = mine[c]
        PROVE  downloads'[mine'[c]].status = "READY_SUCCESS"
    BY <1>1, <1>2, <1>3 DEF SuccessIsOwn, InfoIsOwn
  <1>4. CASE Engine \/ StoreReport \/ UNCHANGED vars
    BY <1>3, <1>4 DEF Engine, StoreReport, vars, serviceVars, historyVars
  <1>5. CASE NotifyOne
    BY <1>3, <1>5 DEF NotifyOne, Goto, TypeOK, historyVars
  <1>6. ASSUME NEW x \in Callers, StartSoftwareUpdate(x), ~Handle(c)
        PROVE  pc[c] = "release" /\ result[c] = result'[c] /\ mine'[c] = mine[c]
    BY <1>6 DEF StartSoftwareUpdate, Enter, PrepareFails, Prepare, StartAccepted, StartFails,
                CheckPredicate, TimeoutExpires, Abort, ReturnTimeout, Handle, Release,
                Goto, Return, TypeOK, historyVars
  <1>7. CASE Handle(c)
    <2>1. /\ pc[c] = "handle" /\ mine'[c] = mine[c] /\ HandleResult(updateInfo.status) = "kSuccess"
          /\ downloads' = downloads
      BY <1>7 DEF Handle, TypeOK, engineVars, historyVars
    <2>2. updateInfo.status = "READY_SUCCESS"
      BY <2>1 DEF HandleResult
    <2>3. /\ mine[c] \in 1..started /\ mine[c] # 0
          /\ updateInfo = Info("RUNNING", 0, 0) \/ updateInfo.download = mine[c]
      BY <1>2, <2>1 DEF InfoIsOwn, Listening
    <2>4. updateInfo.download = mine[c]
      BY <2>2, <2>3 DEF Info
    <2>5. downloads[mine[c]].status = "READY_SUCCESS"
      BY <2>2, <2>3, <2>4 DEF ReportsAreTrue, IsTrue
    <2>6. QED
      BY <2>1, <2>5
  <1>8. QED
    BY <1>3, <1>4, <1>5, <1>6, <1>7 DEF Next, UpdateCallback

\* A download that still runs has had no final report, and a final report ends the queue.
LEMMA LastStep ==
    ASSUME TypeOK, BytesFit, ReportsAreTrue, FinalIsLast, [Next]_vars
    PROVE  FinalIsLast'
  <1> USE DEF FinalIsLast
  <1>1. reports \in Seq(SWUpdateInfo) /\ Len(reports) \in Nat
    BY DEF TypeOK, EngineTypeOK
  <1>2. CASE reports' = <<>>
    BY <1>2
  <1>3. CASE StoreReport
    <2>1. /\ updateInfo' = reports[1] /\ 1 \in 1..Len(reports)
          /\ reports' # <<>> => reports' # reports
          /\ \A i \in 1..Len(reports') : i + 1 \in 1..Len(reports) /\ reports'[i] = reports[i + 1]
      <3>1. reports # <<>> /\ reports' = Tail(reports) /\ updateInfo' = Head(reports)
        BY <1>3 DEF StoreReport, StoreHead
      <3>2. QED
        BY <1>1, <3>1
    <2>2. Len(reports') \in Nat
      BY <1>1, <1>3 DEF StoreReport, StoreHead
    <2>3. ASSUME NEW i \in 1..Len(reports')
          PROVE  /\ reports'[i].download # 0
                 /\ reports'[i].download = updateInfo'.download => updateInfo'.status = "RUNNING"
      BY <1>1, <2>1, <2>2, <2>3
    <2>4. ASSUME NEW i \in 1..Len(reports'), NEW j \in 1..Len(reports'), i < j,
                 reports'[i].download = reports'[j].download
          PROVE  reports'[i].status = "RUNNING"
      BY <1>1, <2>1, <2>2, <2>4
    <2>5. QED
      BY <2>3, <2>4
  <1>4. CASE ~StoreReport /\ reports' = reports
    BY <1>4, InfoChanges
  <1>5. CASE NewReport /\ ~StoreReport
    <2>1. PICK info \in SWUpdateInfo :
              reports' = Append(reports, info) /\ info.download \in DownloadIds /\ Running(info.download)
      BY <1>5 DEF NewReport
    <2>2. /\ Len(reports') = Len(reports) + 1 /\ reports'[Len(reports) + 1] = info
          /\ \A i \in 1..Len(reports) : reports'[i] = reports[i]
      BY <1>1, <2>1
    <2>3. info.download # 0 /\ downloads[info.download].status = "RUNNING"
      BY <2>1 DEF Running, DownloadIds
    <2>4. ASSUME NEW i \in 1..Len(reports), reports[i].download = info.download
          PROVE  reports[i].status = "RUNNING"
      BY <2>3, <2>4 DEF ReportsAreTrue, IsTrue
    <2>5. updateInfo.download = info.download => updateInfo.status = "RUNNING"
      BY <2>3 DEF ReportsAreTrue, IsTrue
    <2>6. updateInfo' = updateInfo \/ updateInfo'.download = 0
      BY <1>5, InfoChanges
    <2>7. QED
      BY <1>1, <2>2, <2>3, <2>4, <2>5, <2>6
  <1>6. QED
    BY <1>2, <1>3, <1>4, <1>5, StepGrows

\* A download nothing more will be heard of stays one.
LEMMA SilentStays ==
    ASSUME TypeOK, BytesFit, [Next]_vars, NEW d \in 1..started, Silent(d)
    PROVE  Silent(d)'
  <1>1. reports \in Seq(SWUpdateInfo) /\ Len(reports) \in Nat
    BY DEF TypeOK, EngineTypeOK
  <1>2. downloads'[d].status # "RUNNING"
    BY StepGrows DEF DownloadsGrow, Silent
  <1>3. CASE reports' \in {reports, <<>>}
    BY <1>2, <1>3 DEF Silent
  <1>4. CASE StoreReport
    <2>1. \A i \in 1..Len(reports') : i + 1 \in 1..Len(reports) /\ reports'[i] = reports[i + 1]
      BY <1>1, <1>4 DEF StoreReport, StoreHead
    <2>2. QED
      BY <1>2, <2>1 DEF Silent
  <1>5. CASE NewReport
    <2>1. PICK info \in SWUpdateInfo : reports' = Append(reports, info) /\ Running(info.download)
      BY <1>5 DEF NewReport
    <2>2. info.download # d
      BY <2>1 DEF Running, Silent
    <2>3. \A i \in 1..Len(reports') : \/ i \in 1..Len(reports) /\ reports'[i] = reports[i]
                                      \/ reports'[i] = info
      BY <1>1, <2>1
    <2>4. QED
      BY <1>2, <2>2, <2>3 DEF Silent
  <1>6. QED
    BY <1>3, <1>4, <1>5, StepGrows

\* An answer other than "unknown error" is that of the last report of the request's download.
LEMMA SilentStep ==
    ASSUME TypeOK, TypeOK', BytesFit, ReportsAreTrue, InfoIsOwn, FinalIsLast, AnsweredIsSilent,
           [Next]_vars
    PROVE  AnsweredIsSilent'
  <1> SUFFICES ASSUME NEW c \in Callers, pc'[c] = "release", result'[c] # "kUnknownError",
                      mine'[c] \notin strayed'
               PROVE  Silent(mine[c])'
    BY DEF AnsweredIsSilent
  <1>1. ASSUME NEW d \in 1..started, Silent(d), mine'[c] = d
        PROVE  Silent(mine[c])'
    <2>1. Silent(d)'
      BY <1>1, SilentStays
    <2>2. QED
      BY <1>1, <2>1 DEF Silent
  <1>2. strayed \subseteq strayed'
    BY StrayedStays
  <1>3. ASSUME pc[c] = "release", result[c] = result'[c], mine'[c] = mine[c]
        PROVE  Silent(mine[c])'
    BY <1>1, <1>2, <1>3 DEF AnsweredIsSilent, InfoIsOwn
  <1>4. CASE Engine \/ StoreReport \/ UNCHANGED vars
    BY <1>3, <1>4 DEF Engine, StoreReport, vars, serviceVars, historyVars
  <1>5. CASE NotifyOne
    BY <1>3, <1>5 DEF NotifyOne, Goto, TypeOK, historyVars
  <1>6. ASSUME NEW x \in Callers, StartSoftwareUpdate(x), ~Handle(c)
        PROVE  pc[c] = "release" /\ result[c] = result'[c] /\ mine'[c] = mine[c]
    BY <1>6 DEF StartSoftwareUpdate, Enter, PrepareFails, Prepare, StartAccepted, StartFails,
                CheckPredicate, TimeoutExpires, Abort, ReturnTimeout, Handle, Release,
                Goto, Return, TypeOK, historyVars
  <1>7. CASE Handle(c)
    <2>1. /\ pc[c] = "handle" /\ mine'[c] = mine[c]
          /\ HandleResult(updateInfo.status) # "kUnknownError"
      BY <1>7 DEF Handle, TypeOK, engineVars, historyVars
    <2>2. updateInfo.status # "RUNNING"
      BY <2>1 DEF HandleResult
    <2>3. /\ mine[c] \in 1..started /\ mine[c] # 0
          /\ updateInfo = Info("RUNNING", 0, 0) \/ updateInfo.download = mine[c]
      BY <1>2, <2>1 DEF InfoIsOwn, Listening
    <2>4. updateInfo.download = mine[c]
      BY <2>2, <2>3 DEF Info
    <2>5. Silent(mine[c])
      BY <2>2, <2>3, <2>4 DEF ReportsAreTrue, IsTrue, FinalIsLast, Silent
    <2>6. QED
      BY <1>1, <2>1, <2>3, <2>5
  <1>8. QED
    BY <1>3, <1>4, <1>5, <1>6, <1>7 DEF Next, UpdateCallback

\* Nothing was started yet.
LEMMA OutcomeInit == Init => OutcomeInv
  <1> SUFFICES ASSUME Init PROVE OutcomeInv
    OBVIOUS
  <1> USE EngineAssumption DEF Init, EngineInit
  <1>1. BytesFit
    BY DEF BytesFit
  <1>2. ReportsAreTrue
    BY DEF ReportsAreTrue, IsTrue, Info
  <1>3. InfoIsOwn /\ BehindTheWait /\ SuccessIsOwn
    BY DEF InfoIsOwn, BehindTheWait, SuccessIsOwn, Listening
  <1>4. DownloadEndsWithRequest
    BY DEF DownloadEndsWithRequest, Running
  <1>5. FinalIsLast /\ AnsweredIsSilent
    BY DEF FinalIsLast, AnsweredIsSilent
  <1>6. QED
    BY <1>1, <1>2, <1>3, <1>4, <1>5 DEF OutcomeInv

LEMMA OutcomeStep == IInv /\ OutcomeInv /\ [Next]_vars => OutcomeInv'
  <1> SUFFICES ASSUME IInv, OutcomeInv, [Next]_vars PROVE OutcomeInv'
    OBVIOUS
  <1> USE DEF OutcomeInv
  <1>1. TypeOK /\ MutualExclusion /\ TypeOK'
    BY InvariantStep DEF IInv
  <1>2. BytesFit'
    BY <1>1, StepGrows DEF DownloadsGrow
  <1>3. ReportsAreTrue'
    BY <1>1, ReportsStep
  <1>4. InfoIsOwn'
    BY <1>1, OwnStep
  <1>5. BehindTheWait'
    BY <1>1, BehindStep
  <1>6. DownloadEndsWithRequest'
    BY <1>1, <1>5, EndsStep
  <1>7. SuccessIsOwn'
    BY <1>1, SuccessStep
  <1>8. FinalIsLast'
    BY <1>1, LastStep
  <1>9. AnsweredIsSilent'
    BY <1>1, SilentStep
  <1>10. QED
    BY <1>2, <1>3, <1>4, <1>5, <1>6, <1>7, <1>8, <1>9

\* Every report is true of its download, and what a listening request was told is of its
\* own download or strayed, whatever the library does.
THEOREM OutcomeInvariance == Spec => []OutcomeInv
  BY InvariantInit, InvariantStep, OutcomeInit, OutcomeStep, PTL DEF Spec

-----------------------------------------------------------------------------
(* The results: for any callers, images and behaviour of the library.       *)

\* At most one caller is past the gate of StartSoftwareUpdate.
THEOREM OneCallerInside == Spec => []MutualExclusion
  <1>1. IInv => MutualExclusion
    BY DEF IInv
  <1>2. QED
    BY <1>1, Invariance, PTL

\* update_in_progress_ is never left set after the last caller has gone.
THEOREM FlagIsExact == Spec => []FlagMeansUpdating
  <1>1. IInv => FlagMeansUpdating
    BY DEF IInv
  <1>2. QED
    BY <1>1, Invariance, PTL

\* A report that ends the wait is never missed by the sleeping caller.
THEOREM WakeupsArrive == Spec => []NoLostWakeup
  <1>1. IInv => NoLostWakeup
    BY DEF IInv
  <1>2. QED
    BY <1>1, Invariance, PTL

\* "timed out and aborted" is answered only when the library is quiet.
THEOREM TimeoutStops == Spec => []TimedOutMeansStopped
  <1>1. IInv => TimedOutMeansStopped
    BY DEF IInv
  <1>2. QED
    BY <1>1, Invariance, PTL

\* No answer is left over from an earlier request.
THEOREM AnswersAreFresh == Spec => []AnswerWasReported
  <1>1. IInv => AnswerWasReported
    BY DEF IInv
  <1>2. QED
    BY <1>1, Invariance, PTL

\* No download outlives its request but by a RUNNING report of all bytes (or an empty image),
\* a report of another download, or an abort that failed.
THEOREM NoOrphanDownload == Spec => []DownloadEndsWithRequest
  <1>1. OutcomeInv => DownloadEndsWithRequest
    BY DEF OutcomeInv
  <1>2. QED
    BY <1>1, OutcomeInvariance, PTL

\* Two downloads run at a time only if one of them outlived its request in such a way.
THEOREM OneDownload == Spec => []OneDownloadAtATime
  <1>1. IInv /\ OutcomeInv => OneDownloadAtATime
    <2> SUFFICES ASSUME IInv, OutcomeInv, NEW d1 \in DownloadIds, NEW d2 \in DownloadIds,
                        Running(d1), Running(d2), ~MayOutlive(d1), ~MayOutlive(d2)
                 PROVE  d1 = d2
      BY DEF OneDownloadAtATime
    <2>1. PICK c1 \in Callers : Waiting(c1) /\ mine[c1] = d1
      BY DEF OutcomeInv, DownloadEndsWithRequest
    <2>2. PICK c2 \in Callers : Waiting(c2) /\ mine[c2] = d2
      BY DEF OutcomeInv, DownloadEndsWithRequest
    <2>3. c1 = c2
      BY <2>1, <2>2 DEF IInv, MutualExclusion, Updating, Waiting
    <2>4. QED
      BY <2>1, <2>2, <2>3
  <1>2. QED
    BY <1>1, Invariance, OutcomeInvariance, PTL

\* A success that is answered is the success of the caller's own download, unless the caller
\* listened to a report of another one.
THEOREM OwnSuccess == Spec => []SuccessIsOwn
  <1>1. OutcomeInv => SuccessIsOwn
    BY DEF OutcomeInv
  <1>2. QED
    BY <1>1, OutcomeInvariance, PTL
=============================================================================
