------------------------ MODULE UpdateContractProofs ------------------------
(***************************************************************************)
(* What is left of the exceptions of UpdateServiceProofs if the library    *)
(* keeps to the contract: none.  A download is then waited for by its own  *)
(* request, every report is about it, and every step of the service is a   *)
(* step of OneUpdate, or leaves what OneUpdate sees alone.                  *)
(***************************************************************************)
EXTENDS UpdateServiceProofs

\* Facts the steps below share.
LEMMA StatusFacts ==
    /\ "RUNNING" \notin FailureStatuses
    /\ "READY_SUCCESS" # "RUNNING"
    /\ \A status \in Failures : status # "RUNNING"
  BY EngineAssumption DEF FailureStatuses

\* Progress: the report that joins the queue is a partial one of the waiting caller's
\* own download.
LEMMA ProgressStep ==
    ASSUME IInv, Contract, ContractInv, NEW d \in DownloadIds, Progress(d),
           UNCHANGED <<serviceVars, historyVars>>
    PROVE  ContractInv'
  <1> USE DEF ContractInv
  <1>1. /\ d = started /\ downloads[d].status = "RUNNING"
        /\ downloads[d].bytes \in Nat /\ downloads[d].size \in Nat
    BY DEF Progress, RunningIsWaitedFor, Running, IInv, TypeOK, EngineTypeOK, Download
  <1>2. downloads[d].bytes + 1 < downloads[d].size
    BY <1>1 DEF Progress, Contract
  <1>3. /\ downloads' = [downloads EXCEPT ![d].bytes = downloads[d].bytes + 1]
        /\ reports' = Append(reports, Info("RUNNING", downloads[d].bytes + 1, d))
        /\ started' = started
    BY DEF Progress
  <1>4. \A e \in DownloadIds : /\ downloads'[e].status = downloads[e].status
                               /\ downloads'[e].size = downloads[e].size
    BY <1>3 DEF IInv, TypeOK, EngineTypeOK, Download
  <1>5. RunningIsWaitedFor'
    BY <1>3, <1>4 DEF RunningIsWaitedFor, Running, Waiting, serviceVars, historyVars
  <1>6. OwnDownload'
    BY <1>3, <1>4 DEF OwnDownload, Waiting, serviceVars, historyVars
  <1>7. ReportsAreOwn'
    <2>1. \E c \in Callers : Waiting(c)
      BY <1>1 DEF RunningIsWaitedFor, Running, Progress
    <2>2. ASSUME NEW c \in Callers, Waiting(c)
          PROVE  /\ updateInfo.status = "RUNNING" /\ updateInfo.bytes < totalSize[c]
                 /\ \A i \in 1..Len(reports) :
                        reports[i].status = "RUNNING" /\ reports[i].bytes < totalSize[c]
                 /\ downloads[d].bytes + 1 < totalSize[c]
      BY <1>1, <1>2, <2>2 DEF ReportsAreOwn, OwnDownload
    <2>3. /\ Len(reports') = Len(reports) + 1
          /\ \A i \in 1..Len(reports) : reports'[i] = reports[i]
          /\ reports'[Len(reports) + 1].status = "RUNNING"
          /\ reports'[Len(reports) + 1].bytes = downloads[d].bytes + 1
          /\ Len(reports) \in Nat
      BY <1>3 DEF Info, IInv, TypeOK, EngineTypeOK
    <2>4. ASSUME NEW c \in Callers, Waiting(c)
          PROVE  \A i \in 1..Len(reports') :
                     reports'[i].status = "RUNNING" /\ reports'[i].bytes < totalSize[c]
      BY <2>2, <2>3, <2>4
    <2>5. QED
      BY <2>1, <2>2, <2>4 DEF ReportsAreOwn, Waiting, serviceVars
  <1>8. QED
    BY <1>5, <1>6, <1>7

\* Complete and Fail: the last report of the download joins the queue.
LEMMA FinalStep ==
    ASSUME IInv, ContractInv, NEW d \in DownloadIds, Running(d),
           NEW status \in Statuses, status # "RUNNING", NEW bytes \in Nat,
           started' = started,
           downloads' \in [DownloadIds -> Download],
           \A e \in DownloadIds : downloads'[e].size = downloads[e].size,
           \A e \in DownloadIds :
               downloads'[e].status = IF e = d THEN status ELSE downloads[e].status,
           reports' = Append(reports, Info(status, bytes, d)),
           UNCHANGED <<serviceVars, historyVars>>
    PROVE  ContractInv'
  <1> USE DEF ContractInv
  <1>1. d = started /\ downloads[d].status = "RUNNING"
    BY DEF RunningIsWaitedFor, Running
  <1>2. PICK w \in Callers : Waiting(w)
    BY DEF RunningIsWaitedFor
  <1>3. \A c \in Callers : pc[c] # "idle" => c = w
    BY <1>2 DEF IInv, MutualExclusion, Updating, Waiting
  <1>4. RunningIsWaitedFor'
    BY DEF RunningIsWaitedFor, Running, Waiting, serviceVars, historyVars
  <1>5. OwnDownload'
    BY <1>2, <1>3 DEF OwnDownload, Waiting, serviceVars, historyVars
  <1>6. ReportsAreOwn'
    <2>1. /\ updateInfo.status = "RUNNING" /\ updateInfo.bytes < totalSize[w]
          /\ \A i \in 1..Len(reports) :
                 reports[i].status = "RUNNING" /\ reports[i].bytes < totalSize[w]
      BY <1>1, <1>2 DEF ReportsAreOwn
    <2>2. /\ Len(reports') = Len(reports) + 1
          /\ \A i \in 1..Len(reports) : reports'[i] = reports[i]
          /\ reports'[Len(reports) + 1].status = status
          /\ Len(reports) \in Nat
      BY DEF Info, IInv, TypeOK, EngineTypeOK
    <2>3. \A i \in 1..Len(reports') :
              IF reports'[i].status = "RUNNING"
              THEN reports'[i].bytes < totalSize[w]
              ELSE i = Len(reports') /\ downloads'[started].status = reports'[i].status
      BY <1>1, <2>1, <2>2
    <2>4. QED
      BY <1>2, <1>3, <2>1, <2>3 DEF ReportsAreOwn, Waiting, serviceVars
  <1>7. QED
    BY <1>4, <1>5, <1>6

\* The library's own steps.
LEMMA EngineContract ==
    ASSUME IInv, Contract, ContractInv, Engine
    PROVE  ContractInv'
  <1> USE EngineAssumption
  <1>1. PICK d \in DownloadIds :
            Progress(d) \/ Complete(d) \/ \E status \in Failures : Fail(d, status)
    BY DEF Engine, EngineStep
  <1>2. UNCHANGED <<serviceVars, historyVars>>
    BY DEF Engine
  <1>3. downloads \in [DownloadIds -> Download] /\ downloads' \in [DownloadIds -> Download]
    BY EngineTyped DEF Engine, IInv, TypeOK, EngineTypeOK
  <1>4. CASE Progress(d)
    BY <1>2, <1>4, ProgressStep
  <1>5. CASE Complete(d)
    <2>1. /\ Running(d) /\ started' = started
          /\ reports' = Append(reports, Info("READY_SUCCESS", downloads[d].size, d))
          /\ downloads[d].size \in Nat
      BY <1>3, <1>5 DEF Complete, Download
    <2>2. \A e \in DownloadIds :
              /\ downloads'[e].size = downloads[e].size
              /\ downloads'[e].status = IF e = d THEN "READY_SUCCESS" ELSE downloads[e].status
      BY <1>3, <1>5 DEF Complete, Download
    <2>3. "READY_SUCCESS" \in Statuses /\ "READY_SUCCESS" # "RUNNING"
      BY DEF Statuses
    <2>4. QED
      BY <1>2, <1>3, <2>1, <2>2, <2>3, FinalStep
  <1>6. ASSUME NEW status \in Failures, Fail(d, status)
        PROVE  ContractInv'
    <2>1. /\ Running(d) /\ started' = started
          /\ reports' = Append(reports, Info(status, downloads[d].bytes, d))
          /\ downloads[d].bytes \in Nat
      BY <1>3, <1>6 DEF Fail, Download
    <2>2. \A e \in DownloadIds :
              /\ downloads'[e].size = downloads[e].size
              /\ downloads'[e].status = IF e = d THEN status ELSE downloads[e].status
      BY <1>3, <1>6 DEF Fail, Download
    <2>3. status \in Statuses /\ status # "RUNNING"
      BY StatusFacts DEF Statuses
    <2>4. QED
      BY <1>2, <1>3, <2>1, <2>2, <2>3, FinalStep
  <1>7. QED
    BY <1>1, <1>4, <1>5, <1>6

\* UpdateCallback stores the oldest report; a final one is the last there is.
LEMMA StoreContract ==
    ASSUME IInv, ContractInv, StoreReport
    PROVE  ContractInv'
  <1> USE DEF ContractInv
  <1>1. PICK w \in Callers : Waiting(w)
    BY DEF StoreReport, StoreHead, ReportsAreOwn
  <1>2. \A c \in Callers : pc[c] # "idle" => c = w
    BY <1>1 DEF IInv, MutualExclusion, Updating, Waiting
  <1>3. RunningIsWaitedFor'
    BY DEF StoreReport, StoreHead, RunningIsWaitedFor, Running, Waiting
  <1>4. OwnDownload'
    BY <1>1, <1>2 DEF StoreReport, StoreHead, OwnDownload, Waiting
  <1>5. ReportsAreOwn'
    <2>1. /\ reports' = Tail(reports) /\ updateInfo' = Head(reports)
          /\ reports # <<>> /\ reports \in Seq(SWUpdateInfo)
      BY DEF StoreReport, StoreHead, IInv, TypeOK, EngineTypeOK
    <2>2. /\ Len(reports) \in Nat \ {0}
          /\ Len(reports') = Len(reports) - 1
          /\ Head(reports) = reports[1]
          /\ \A i \in 1..Len(reports') : reports'[i] = reports[i + 1]
          /\ Len(reports) = 1 => reports' = <<>>
      BY <2>1
    <2>3. /\ updateInfo.status = "RUNNING"
          /\ \A i \in 1..Len(reports) :
                IF reports[i].status = "RUNNING"
                THEN reports[i].bytes < totalSize[w]
                ELSE i = Len(reports) /\ downloads[started].status = reports[i].status
      BY <1>1, <2>1 DEF ReportsAreOwn
    <2>4. \A i \in 1..Len(reports') :
              IF reports'[i].status = "RUNNING"
              THEN reports'[i].bytes < totalSize[w]
              ELSE i = Len(reports') /\ downloads[started].status = reports'[i].status
      BY <2>2, <2>3
    <2>5. IF updateInfo'.status = "RUNNING"
          THEN updateInfo'.bytes < totalSize[w]
          ELSE reports' = <<>> /\ downloads[started].status = updateInfo'.status
      <3>1. updateInfo' = reports[1] /\ 1 \in 1..Len(reports)
        BY <2>1, <2>2
      <3>2. IF reports[1].status = "RUNNING"
            THEN reports[1].bytes < totalSize[w]
            ELSE 1 = Len(reports) /\ downloads[started].status = reports[1].status
        BY <2>3, <3>1
      <3>3. QED
        BY <2>2, <3>1, <3>2
    <2>6. QED
      BY <1>1, <1>2, <2>4, <2>5 DEF StoreReport, StoreHead, ReportsAreOwn, Waiting
  <1>6. QED
    BY <1>3, <1>4, <1>5

\* A notification, and every step of wait_for, moves a waiting caller within the wait or
\* to HandleResult.
LEMMA WaitContract ==
    ASSUME IInv, ContractInv, NEW c \in Callers, Waiting(c),
           UNCHANGED <<engineVars, updateInfo, totalSize, result, historyVars>>,
           \/ \E step \in {"wait", "sleeping", "abort"} : Goto(c, step)
           \/ Goto(c, "handle") /\ updateInfo.status # "RUNNING"
    PROVE  ContractInv'
  <1> USE DEF ContractInv
  <1>1. \A other \in Callers : other # c => pc[other] = "idle" /\ pc'[other] = "idle"
    BY DEF IInv, MutualExclusion, Updating, Waiting, TypeOK, Goto
  <1>2. IF updateInfo.status = "RUNNING" THEN TRUE
        ELSE reports = <<>> /\ downloads[started].status = updateInfo.status
    BY DEF ReportsAreOwn
  <1>3. /\ pc'[c] \in {"wait", "sleeping", "abort", "handle"}
        /\ pc'[c] = "handle" => updateInfo.status # "RUNNING"
    BY DEF IInv, TypeOK, Goto
  <1>4. RunningIsWaitedFor'
    BY <1>1, <1>2, <1>3 DEF RunningIsWaitedFor, Running, Waiting, engineVars, historyVars
  <1>5. OwnDownload'
    BY <1>1, <1>2, <1>3 DEF OwnDownload, Waiting, engineVars, historyVars
  <1>6. ReportsAreOwn'
    BY <1>1, <1>2, <1>3 DEF ReportsAreOwn, Waiting, engineVars
  <1>7. QED
    BY <1>4, <1>5, <1>6

\* A step of StartSoftwareUpdate.
LEMMA CallerContract ==
    ASSUME IInv, Contract, ContractInv, NEW c \in Callers, StartSoftwareUpdate(c)
    PROVE  ContractInv'
  <1> USE EngineAssumption DEF ContractInv
  <1>1. TypeOK
    BY DEF IInv
  <1>2. \A c1, c2 \in Callers : pc[c1] # "idle" /\ pc[c2] # "idle" => c1 = c2
    BY DEF IInv, MutualExclusion, Updating
  <1>3. ASSUME UNCHANGED <<engineVars, updateInfo, totalSize, historyVars>>, ~Waiting(c),
               \A other \in Callers : other # c =>
                   pc'[other] = pc[other] /\ result'[other] = result[other],
               pc'[c] \in {"idle", "prepare"}
        PROVE  ContractInv'
    BY <1>3 DEF RunningIsWaitedFor, OwnDownload, ReportsAreOwn, Running, Waiting, engineVars,
                historyVars
  <1>4. CASE Enter(c)
    BY <1>1, <1>3, <1>4 DEF Enter, Return, Goto, Waiting, TypeOK, historyVars
  <1>5. ASSUME NEW error \in EarlyErrors, PrepareFails(c, error)
        PROVE  ContractInv'
    BY <1>1, <1>3, <1>5 DEF PrepareFails, Return, Goto, Waiting, TypeOK
  <1>6. CASE StartFails(c) \/ Release(c)
    BY <1>1, <1>3, <1>6 DEF StartFails, Release, Return, Goto, Waiting, TypeOK
  <1>7. ASSUME NEW size \in Sizes, Prepare(c, size)
        PROVE  ContractInv'
    <2>1. \A other \in Callers : other # c => pc[other] = "idle" /\ pc'[other] = "idle"
      BY <1>1, <1>2, <1>7 DEF Prepare, Goto, TypeOK
    <2>2. /\ pc[c] = "prepare" /\ pc'[c] = "start" /\ totalSize'[c] = size /\ size > 0
          /\ updateInfo'.status = "RUNNING" /\ updateInfo'.bytes = 0
          /\ UNCHANGED <<downloads, started, reports>>
      BY <1>1, <1>7 DEF Prepare, Goto, TypeOK, Info, Contract, engineVars
    <2>3. QED
      BY <2>1, <2>2 DEF RunningIsWaitedFor, OwnDownload, ReportsAreOwn, Running, Waiting
  <1>8. CASE StartAccepted(c)
    <2>1. \A other \in Callers : other # c => pc[other] = "idle" /\ pc'[other] = "idle"
      BY <1>1, <1>2, <1>8 DEF StartAccepted, Goto, TypeOK
    <2>2. /\ pc[c] = "start" /\ pc'[c] = "wait" /\ mine'[c] = started'
          /\ started' = started + 1 /\ started' \in DownloadIds
          /\ UNCHANGED <<updateInfo, totalSize, result, reports>>
      BY <1>1, <1>8 DEF StartAccepted, AcceptDownload, Goto, TypeOK, EngineTypeOK, DownloadIds
    <2>3. /\ downloads'[started'].size = totalSize[c]
          /\ downloads'[started'].status = "RUNNING"
          /\ \A d \in DownloadIds : d # started' => downloads'[d] = downloads[d]
      BY <1>1, <1>8, <2>2 DEF StartAccepted, AcceptDownload, TypeOK, EngineTypeOK
    <2>4. /\ \A other \in Callers : ~Waiting(other)
          /\ reports = <<>> /\ \A d \in DownloadIds : ~Running(d)
      BY <2>1, <2>2 DEF ReportsAreOwn, RunningIsWaitedFor, Waiting
    <2>5. \A d \in DownloadIds : Running(d)' => d = started'
      <3>1. \A d \in DownloadIds : d \in Nat /\ started \in Nat
        BY <1>1 DEF TypeOK, EngineTypeOK, DownloadIds
      <3>2. QED
        BY <2>2, <2>3, <2>4, <3>1 DEF Running
    <2>6. RunningIsWaitedFor'
      BY <2>2, <2>5 DEF RunningIsWaitedFor, Waiting
    <2>7. OwnDownload'
      BY <2>1, <2>2, <2>3 DEF OwnDownload, Waiting
    <2>8. ReportsAreOwn'
      <3>1. totalSize[c] > 0 /\ updateInfo.status = "RUNNING" /\ updateInfo.bytes = 0
        BY <2>2 DEF OwnDownload
      <3>2. QED
        BY <2>1, <2>2, <2>4, <3>1 DEF ReportsAreOwn, Waiting
    <2>9. QED
      BY <2>6, <2>7, <2>8
  <1>9. CASE CheckPredicate(c) \/ TimeoutExpires(c)
    <2>1. Waiting(c) /\ UNCHANGED <<engineVars, updateInfo, totalSize, result, historyVars>>
      BY <1>9 DEF CheckPredicate, TimeoutExpires, Waiting
    <2>2. Finished(c) <=> updateInfo.status # "RUNNING"
      <3>1. updateInfo.bytes \in Nat /\ totalSize[c] \in Nat
        BY <1>1 DEF TypeOK, SWUpdateInfo
      <3>2. QED
        BY <2>1, <3>1 DEF Finished, ReportsAreOwn
    <2>3. \/ \E step \in {"wait", "sleeping", "abort"} : Goto(c, step)
          \/ Goto(c, "handle") /\ updateInfo.status # "RUNNING"
      BY <1>9, <2>2 DEF CheckPredicate, TimeoutExpires, Goto
    <2>4. QED
      BY <2>1, <2>3, WaitContract
  <1>10. CASE Abort(c)
    <2>1. \A other \in Callers : other # c => pc[other] = "idle" /\ pc'[other] = "idle"
      BY <1>1, <1>2, <1>10 DEF Abort, Goto, TypeOK
    <2>2. /\ pc'[c] = "timedout" /\ reports' = <<>>
          /\ StopDownloads
      BY <1>1, <1>10 DEF Abort, Goto, TypeOK, AbortDownloads, StopDownloads, StopNothing, Contract
    <2>3. \A d \in DownloadIds : ~Running(d)'
      BY <1>1, <2>2 DEF StopDownloads, Running, TypeOK, EngineTypeOK, Download
    <2>4. QED
      BY <2>1, <2>2, <2>3 DEF RunningIsWaitedFor, OwnDownload, ReportsAreOwn, Waiting
  <1>11. CASE ReturnTimeout(c)
    <2>1. \A other \in Callers : other # c => pc[other] = "idle" /\ pc'[other] = "idle"
      BY <1>1, <1>2, <1>11 DEF ReturnTimeout, Return, Goto, TypeOK
    <2>2. /\ pc[c] = "timedout" /\ pc'[c] = "idle"
          /\ UNCHANGED <<downloads, started, reports>>
      BY <1>1, <1>11 DEF ReturnTimeout, Return, Goto, TypeOK, engineVars
    <2>3. QED
      BY <2>1, <2>2 DEF RunningIsWaitedFor, OwnDownload, ReportsAreOwn, Running, Waiting
  <1>12. CASE Handle(c)
    <2>1. \A other \in Callers : other # c => pc[other] = "idle" /\ pc'[other] = "idle"
      BY <1>1, <1>2, <1>12 DEF Handle, Goto, TypeOK
    <2>2. /\ pc[c] = "handle" /\ pc'[c] = "release"
          /\ result'[c] = HandleResult(updateInfo.status)
          /\ UNCHANGED <<downloads, started, reports, totalSize, updateInfo, mine>>
      BY <1>1, <1>12 DEF Handle, Goto, TypeOK, engineVars, historyVars
    <2>3. QED
      BY <2>1, <2>2 DEF RunningIsWaitedFor, OwnDownload, ReportsAreOwn, Running, Waiting
  <1>13. QED
    BY <1>4, <1>5, <1>6, <1>7, <1>8, <1>9, <1>10, <1>11, <1>12 DEF StartSoftwareUpdate

\* notify_one wakes the waiting caller, if it sleeps.
LEMMA NotifyContract ==
    ASSUME IInv, ContractInv, NotifyOne
    PROVE  ContractInv'
  <1> USE DEF ContractInv
  <1>1. UNCHANGED <<engineVars, updateInfo, totalSize, result, historyVars>>
    BY DEF NotifyOne
  <1>2. ASSUME NEW c \in Callers, pc[c] = "sleeping", Goto(c, "wait")
        PROVE  ContractInv'
    BY <1>1, <1>2, WaitContract DEF Waiting
  <1>3. CASE UNCHANGED pc
    BY <1>1, <1>3 DEF RunningIsWaitedFor, OwnDownload, ReportsAreOwn, Running, Waiting,
                      engineVars, historyVars
  <1>4. QED
    BY <1>2, <1>3 DEF NotifyOne

\* Initially no download runs and no report is on its way (StartSoftwareUpdate not called).
LEMMA ContractInit == Init => ContractInv
  <1> SUFFICES ASSUME Init PROVE ContractInv
    OBVIOUS
  <1>1. \A d \in DownloadIds : ~Running(d)
    BY DEF Init, EngineInit, Running
  <1>2. \A c \in Callers : pc[c] = "idle"
    BY DEF Init
  <1>3. reports = <<>>
    BY DEF Init, EngineInit
  <1>4. QED
    BY <1>1, <1>2, <1>3 DEF ContractInv, RunningIsWaitedFor, OwnDownload, ReportsAreOwn, Waiting

\* No step of the service or of the engine breaks the contract invariant.
LEMMA ContractStep == IInv /\ Contract /\ ContractInv /\ [Next]_vars => ContractInv'
  <1> SUFFICES ASSUME IInv, Contract, ContractInv, [Next]_vars PROVE ContractInv'
    OBVIOUS
  <1>1. CASE Engine
    BY <1>1, EngineContract
  <1>2. CASE StoreReport
    BY <1>2, StoreContract
  <1>3. CASE NotifyOne
    BY <1>3, NotifyContract
  <1>4. ASSUME NEW c \in Callers, StartSoftwareUpdate(c)
        PROVE  ContractInv'
    BY <1>4, CallerContract
  <1>5. CASE UNCHANGED vars
    BY <1>5 DEF ContractInv, RunningIsWaitedFor, OwnDownload, ReportsAreOwn, Running, Waiting,
                vars, serviceVars, engineVars, historyVars
  <1>6. QED
    BY <1>1, <1>2, <1>3, <1>4, <1>5 DEF Next, UpdateCallback

\* No report of another download is ever told to a request, and no abort fails.
LEMMA NoExceptionStep ==
    ASSUME Contract
    PROVE  IInv /\ ContractInv /\ ContractInv' /\ NoException /\ [Next]_vars => NoException'
  <1> SUFFICES ASSUME IInv, ContractInv, NoException, [Next]_vars PROVE NoException'
    OBVIOUS
  <1> USE EngineAssumption DEF NoException
  <1>1. TypeOK /\ MutualExclusion /\ RunningIsWaitedFor /\ ReportsAreOwn /\ OwnDownload
    BY DEF IInv, ContractInv
  <1>2. /\ reports \in Seq(SWUpdateInfo) /\ started \in Nat
        /\ downloads \in [DownloadIds -> Download]
        /\ \A d \in DownloadIds : downloads[d].bytes \in Nat /\ downloads[d].size \in Nat
    BY <1>1 DEF TypeOK, EngineTypeOK, Download
  <1>3. ASSUME UNCHANGED <<engineVars, strayed, seen>>,
               \A c \in Callers : pc'[c] = "start" => pc[c] = "start"
        PROVE  NoException'
    BY <1>3 DEF engineVars, Running
  <1>4. CASE Engine
    <2>1. UNCHANGED <<strayed, seen, pc, started, survived>>
      BY <1>4 DEF Engine, EngineStep, Progress, Complete, Fail, serviceVars, historyVars
    <2>2. PICK d \in DownloadIds :
              Progress(d) \/ Complete(d) \/ \E status \in Failures : Fail(d, status)
      BY <1>4 DEF Engine, EngineStep
    <2>3. d = started
      BY <1>1, <2>2 DEF Progress, Complete, Fail, RunningIsWaitedFor
    <2>4. \A e \in DownloadIds : Running(e)' => downloads'[e].bytes < downloads'[e].size
      <3>1. \A e \in DownloadIds \ {d} : downloads'[e] = downloads[e]
        BY <1>2, <2>2 DEF Progress, Complete, Fail
      <3>2. CASE Progress(d)
        <4>1. /\ downloads'[d].bytes = downloads[d].bytes + 1
              /\ downloads'[d].size = downloads[d].size
              /\ downloads[d].bytes < downloads[d].size
              /\ downloads[d].bytes + 1 # downloads[d].size
          BY <1>2, <3>2 DEF Progress, Contract
        <4>2. downloads'[d].bytes < downloads'[d].size
          BY <1>2, <4>1
        <4>3. QED
          BY <2>1, <3>1, <4>2 DEF Running
      <3>3. CASE Complete(d) \/ \E status \in Failures : Fail(d, status)
        <4>1. downloads'[d].status # "RUNNING"
          <5>1. CASE Complete(d)
            BY <1>2, <5>1, StatusFacts DEF Complete, Download
          <5>2. ASSUME NEW status \in Failures, Fail(d, status)
                PROVE  downloads'[d].status # "RUNNING"
            BY <1>2, <5>2, StatusFacts DEF Fail, Download
          <5>3. QED
            BY <3>3, <5>1, <5>2
        <4>2. QED
          BY <2>1, <3>1, <4>1 DEF Running
      <3>4. QED
        BY <2>2, <3>2, <3>3
    <2>5. \E status, bytes : reports' = Append(reports, Info(status, bytes, d))
      BY <2>2 DEF Progress, Complete, Fail
    <2>6. \A i \in 1..Len(reports') : reports'[i].download = started
      BY <1>2, <2>3, <2>5 DEF Info
    <2>7. QED
      BY <2>1, <2>4, <2>6
  <1>5. CASE StoreReport
    <2>1. \A c \in Callers : Listening(c) => mine[c] = started
      BY <1>1 DEF Listening, OwnDownload, Waiting
    <2>2. reports # <<>> /\ Head(reports) = reports[1] /\ 1 \in 1..Len(reports)
      BY <1>2, <1>5 DEF StoreReport
    <2>3. strayed' = {} /\ UNCHANGED <<downloads, started, survived, pc>>
      BY <1>5, <2>1, <2>2 DEF StoreReport, StoreHead
    <2>4. \A i \in 1..Len(reports') : reports'[i].download = started
      BY <1>2, <1>5, <2>2 DEF StoreReport, StoreHead
    <2>5. \A c \in Callers : pc[c] # "start"
      <3>1. PICK w \in Callers : Waiting(w)
        BY <1>1, <2>2 DEF ReportsAreOwn
      <3>2. QED
        BY <1>1, <3>1 DEF MutualExclusion, Updating, Waiting
    <2>6. QED
      BY <2>3, <2>4, <2>5 DEF Running
  <1>6. CASE NotifyOne
    BY <1>1, <1>3, <1>6 DEF NotifyOne, Goto, TypeOK, historyVars
  <1>7. ASSUME NEW c \in Callers, StartSoftwareUpdate(c)
        PROVE  NoException'
    <2> USE DEF Goto, Return, TypeOK, historyVars
    <2>1. ASSUME NEW size \in Sizes, Prepare(c, size)
          PROVE  NoException'
      BY <1>1, <2>1 DEF Prepare, engineVars, Running
    <2>2. CASE StartAccepted(c)
      <3>1. \A x \in Callers : ~Waiting(x)
        BY <1>1, <2>2 DEF StartAccepted, MutualExclusion, Updating, Waiting
      <3>2. reports = <<>> /\ \A d \in DownloadIds : ~Running(d)
        BY <1>1, <3>1 DEF ReportsAreOwn, RunningIsWaitedFor
      <3>3. /\ seen = {} /\ totalSize[c] > 0
        BY <1>1, <2>2 DEF StartAccepted, OwnDownload
      <3>4. /\ started' = started + 1 /\ reports' = reports /\ survived' = survived
            /\ strayed' = strayed /\ seen' = seen
            /\ \A x \in Callers : pc'[x] = "start" => pc[x] = "start"
        BY <1>1, <2>2, <3>3 DEF StartAccepted, AcceptDownload
      <3>5. \A d \in DownloadIds : Running(d)' => downloads'[d].bytes < downloads'[d].size
        BY <1>2, <2>2, <3>2, <3>3, <3>4
           DEF StartAccepted, AcceptDownload, Running, DownloadIds
      <3>6. QED
        BY <3>2, <3>4, <3>5
    <2>3. CASE Abort(c)
      <3>1. StopDownloads /\ reports' = <<>> /\ UNCHANGED <<survived, strayed, seen>>
        BY <2>3 DEF Abort, AbortDownloads, StopDownloads, StopNothing, Contract
      <3>2. \A d \in DownloadIds : ~Running(d)'
        BY <1>2, <3>1 DEF StopDownloads, Running, Download
      <3>3. \A x \in Callers : pc'[x] = "start" => pc[x] = "start"
        BY <1>1, <2>3 DEF Abort
      <3>4. QED
        BY <3>1, <3>2, <3>3
    <2>4. QED
      BY <1>1, <1>3, <1>7, <2>1, <2>2, <2>3
         DEF StartSoftwareUpdate, Enter, PrepareFails, StartFails, CheckPredicate,
             TimeoutExpires, ReturnTimeout, Handle, Release
  <1>8. CASE UNCHANGED vars
    BY <1>3, <1>8 DEF vars, serviceVars, historyVars
  <1>9. QED
    BY <1>4, <1>5, <1>6, <1>7, <1>8 DEF Next, UpdateCallback

\* Under the contract the queue holds nothing but the reports of the caller's download.
THEOREM ContractInvariance ==
    ASSUME Contract
    PROVE  Spec => []ContractInv
  <1>1. IInv /\ ContractInv /\ [Next]_vars => ContractInv'
    BY ContractStep
  <1>2. QED
    BY <1>1, ContractInit, Invariance, PTL DEF Spec

-----------------------------------------------------------------------------

\* The contract leaves nothing of what MayOutlive and the strayed reports except: under it
\* the properties of OutcomeInv hold of every download.
THEOREM ContractLeavesNoException ==
    ASSUME Contract
    PROVE  Spec => []NoException
  <1>1. Init => NoException
    BY EngineAssumption DEF Init, EngineInit, NoException, Running
  <1>2. IInv /\ ContractInv /\ ContractInv' /\ NoException /\ [Next]_vars => NoException'
    BY NoExceptionStep
  <1>3. QED
    BY <1>1, <1>2, Invariance, ContractInvariance, PTL DEF Spec

-----------------------------------------------------------------------------
(* UpdateService implements OneUpdate.                                      *)

\* The two state functions of the refinement mapping.
phases == [c \in Callers |-> Phase(pc[c])]
lastStatus == IF started = 0 THEN "none" ELSE downloads[started].status

\* What Phase makes of each step of StartSoftwareUpdate.
LEMMA PhaseValues ==
    /\ Phase("idle") = "out"
    /\ Phase("prepare") = "before" /\ Phase("start") = "before"
    /\ Phase("wait") = "downloading" /\ Phase("sleeping") = "downloading"
    /\ Phase("handle") = "downloading" /\ Phase("abort") = "downloading"
    /\ Phase("timedout") = "downloading"
    /\ Phase("release") = "leaving"
    /\ \A step \in Steps : Phase(step) = "out" => step = "idle"
  BY DEF Phase, Steps

\* A step of a caller is a move of the caller in OneUpdate.
LEMMA MoveMaps ==
    ASSUME TypeOK, NEW c \in Callers, NEW step \in Steps, Goto(c, step)
    PROVE  phases' = [phases EXCEPT ![c] = Phase(step)]
  BY DEF phases, Goto, TypeOK

\* A step within a phase is no move.
LEMMA SamePhase ==
    ASSUME TypeOK, NEW c \in Callers, NEW step \in Steps, Goto(c, step),
           Phase(step) = Phase(pc[c])
    PROVE  phases' = phases
  BY DEF phases, Goto, TypeOK

\* The service starts where OneUpdate starts.
LEMMA InitMaps == Init => Abstract!Init
  BY PhaseValues DEF Init, EngineInit, Abstract!Init

\* The library's steps end the download of the waiting caller, or are invisible.
LEMMA EngineMaps ==
    ASSUME IInv, ContractInv, Engine
    PROVE  Abstract!EndDownload \/ UNCHANGED Abstract!vars
  <1>1. UNCHANGED <<pc, result, started>>
    BY DEF Engine, EngineStep, Progress, Complete, Fail, serviceVars
  <1>2. PICK d \in DownloadIds :
            Progress(d) \/ Complete(d) \/ \E status \in Failures : Fail(d, status)
    BY DEF Engine, EngineStep
  <1>3. /\ d = started /\ downloads[d].status = "RUNNING" /\ started # 0
        /\ downloads \in [DownloadIds -> Download]
    BY <1>2 DEF Progress, Complete, Fail, Running, ContractInv, RunningIsWaitedFor, DownloadIds,
                IInv, TypeOK, EngineTypeOK
  <1>4. \E c \in Callers : Phase(pc[c]) = "downloading"
    BY <1>2, PhaseValues
       DEF Progress, Complete, Fail, ContractInv, RunningIsWaitedFor, Waiting
  <1>5. CASE Progress(d)
    <2>1. downloads'[d].status = downloads[d].status
      BY <1>3, <1>5 DEF Progress, Download
    <2>2. QED
      BY <1>1, <1>3, <2>1 DEF Abstract!vars
  <1>6. ASSUME NEW status \in Failures \cup {"READY_SUCCESS"}, downloads'[d].status = status
        PROVE  Abstract!EndDownload
    BY <1>1, <1>3, <1>4, <1>6 DEF Abstract!EndDownload
  <1>7. CASE Complete(d)
    <2>1. downloads'[d].status = "READY_SUCCESS"
      BY <1>3, <1>7 DEF Complete, Download
    <2>2. QED
      BY <1>6, <2>1
  <1>8. ASSUME NEW status \in Failures, Fail(d, status)
        PROVE  Abstract!EndDownload
    <2>1. downloads'[d].status = status
      BY <1>3, <1>8 DEF Fail, Download
    <2>2. QED
      BY <1>6, <2>1
  <1>9. QED
    BY <1>2, <1>5, <1>7, <1>8

\* An abort ends the download that still runs.
LEMMA AbortMaps ==
    ASSUME IInv, ContractInv, NEW c \in Callers, Abort(c)
    PROVE  Abstract!EndDownload \/ UNCHANGED Abstract!vars
  <1> USE EngineAssumption
  <1>1. /\ pc[c] = "abort" /\ Goto(c, "timedout") /\ UNCHANGED <<started, result>>
        /\ mine[c] = started /\ started \in DownloadIds /\ started # 0
        /\ downloads \in [DownloadIds -> Download]
    BY DEF Abort, AbortDownloads, StopDownloads, StopNothing, ContractInv, OwnDownload, Waiting,
           DownloadIds, IInv, TypeOK, EngineTypeOK
  <1>2. phases' = phases
    BY <1>1, SamePhase, PhaseValues DEF IInv, Steps
  <1>3. \E x \in Callers : Phase(pc[x]) = "downloading"
    BY <1>1, PhaseValues
  <1>4. CASE downloads[started].status = "RUNNING" /\ StopDownloads
    <2>1. downloads'[started].status = "STOPPED_BY_MASTER"
      BY <1>1, <1>4 DEF StopDownloads, Running, Download, DownloadIds
    <2>2. QED
      BY <1>1, <1>2, <1>3, <1>4, <2>1 DEF Abstract!EndDownload, phases
  <1>5. CASE downloads[started].status # "RUNNING" \/ StopNothing
    <2>1. downloads'[started].status = downloads[started].status
      BY <1>1, <1>5 DEF Abort, AbortDownloads, StopDownloads, StopNothing, Running
    <2>2. QED
      BY <1>1, <1>2, <2>1 DEF Abstract!vars, phases
  <1>6. QED
    BY <1>4, <1>5 DEF Abort, AbortDownloads

\* The gate: taken when everybody is out, refused when somebody is inside.
LEMMA EnterMaps ==
    ASSUME IInv, NEW c \in Callers, Enter(c)
    PROVE  Abstract!Begin(c) \/ Abstract!Reject(c)
  <1>1. TypeOK /\ pc[c] = "idle" /\ UNCHANGED <<downloads, started>>
    BY DEF Enter, IInv, engineVars
  <1>2. CASE update_in_progress
    <2>1. \E other \in Callers : phases[other] # "out"
      BY <1>2, PhaseValues DEF IInv, FlagMeansUpdating, Updating, TypeOK, phases
    <2>2. phases' = phases /\ phases[c] = "out" /\ result' = [result EXCEPT ![c] = "kBusy"]
      BY <1>1, <1>2, SamePhase, PhaseValues DEF Enter, Return, Steps, phases
    <2>3. QED
      BY <1>1, <2>1, <2>2 DEF Abstract!Reject, Abstract!Answered, phases
  <1>3. CASE ~update_in_progress
    <2>1. \A other \in Callers : phases[other] = "out"
      BY <1>3, PhaseValues DEF IInv, FlagMeansUpdating, Updating, phases
    <2>2. phases' = [phases EXCEPT ![c] = "before"] /\ result' = result
      BY <1>1, <1>3, MoveMaps, PhaseValues DEF Enter, Steps
    <2>3. QED
      BY <1>1, <2>1, <2>2 DEF Abstract!Begin, Abstract!Move, phases
  <1>4. QED
    BY <1>2, <1>3 DEF IInv, TypeOK

\* Every step of a caller.
LEMMA CallerMaps ==
    ASSUME IInv, ContractInv, NEW c \in Callers, StartSoftwareUpdate(c)
    PROVE  Abstract!Next \/ UNCHANGED Abstract!vars
  <1> USE EngineAssumption
  <1>1. TypeOK
    BY DEF IInv
  <1>2. CASE Enter(c)
    BY <1>2, EnterMaps DEF Abstract!Next
  <1>3. ASSUME NEW error \in EarlyErrors \cup {"kStartFailed"}, Return(c, error),
               Phase(pc[c]) = "before", UNCHANGED engineVars
        PROVE  Abstract!GiveUp(c)
    <2>1. phases' = [phases EXCEPT ![c] = "out"]
      BY <1>1, <1>3, MoveMaps, PhaseValues DEF Return, Steps
    <2>2. QED
      BY <1>3, <2>1
         DEF Abstract!GiveUp, Abstract!Move, Abstract!Answered, Return, phases, engineVars
  <1>4. ASSUME NEW error \in EarlyErrors, PrepareFails(c, error)
        PROVE  Abstract!Next
    BY <1>3, <1>4, PhaseValues DEF PrepareFails, Abstract!Next
  <1>5. CASE StartFails(c)
    BY <1>3, <1>5, PhaseValues DEF StartFails, Abstract!Next
  <1>6. ASSUME NEW step \in Steps, Goto(c, step), Phase(step) = Phase(pc[c]),
               UNCHANGED <<engineVars, result>>
        PROVE  UNCHANGED Abstract!vars
    BY <1>1, <1>6, SamePhase DEF Abstract!vars, phases, engineVars
  <1>7. ASSUME NEW size \in Sizes, Prepare(c, size)
        PROVE  UNCHANGED Abstract!vars
    BY <1>6, <1>7, PhaseValues DEF Prepare, Steps
  <1>8. CASE CheckPredicate(c) \/ TimeoutExpires(c)
    BY <1>6, <1>8, PhaseValues DEF CheckPredicate, TimeoutExpires, Steps
  <1>9. CASE StartAccepted(c)
    <2>1. phases' = [phases EXCEPT ![c] = "downloading"] /\ phases[c] = "before"
      BY <1>1, <1>9, MoveMaps, PhaseValues DEF StartAccepted, Steps, phases
    <2>2. /\ started' = started + 1 /\ started' # 0 /\ started' \in DownloadIds
          /\ downloads'[started'].status = "RUNNING"
      BY <1>1, <1>9 DEF StartAccepted, AcceptDownload, TypeOK, EngineTypeOK, DownloadIds
    <2>3. lastStatus # "RUNNING"
      <3>1. \A x \in Callers : ~Waiting(x)
        BY <1>9 DEF StartAccepted, Waiting, IInv, MutualExclusion, Updating
      <3>2. \A d \in DownloadIds : ~Running(d)
        BY <3>1 DEF ContractInv, RunningIsWaitedFor
      <3>3. started # 0 => started \in DownloadIds /\ started <= started
        BY <1>1 DEF TypeOK, EngineTypeOK, DownloadIds
      <3>4. QED
        BY <3>2, <3>3 DEF Running, lastStatus
    <2>4. Abstract!StartDownload(c)
      BY <1>9, <2>1, <2>2, <2>3
         DEF StartAccepted, Abstract!StartDownload, Abstract!Move, phases, lastStatus
    <2>5. QED
      BY <2>4 DEF Abstract!Next
  <1>10. CASE Abort(c)
    BY <1>10, AbortMaps DEF Abstract!Next
  <1>11. CASE ReturnTimeout(c)
    <2>1. phases' = [phases EXCEPT ![c] = "out"] /\ phases[c] = "downloading"
      BY <1>1, <1>11, MoveMaps, PhaseValues DEF ReturnTimeout, Return, Steps, phases
    <2>2. lastStatus # "RUNNING"
      <3>1. \A d \in DownloadIds : ~Running(d)
        BY <1>11 DEF ReturnTimeout, IInv, MutualExclusion, Updating, ContractInv,
                     RunningIsWaitedFor, Waiting
      <3>2. started # 0 => started \in DownloadIds /\ started <= started
        BY <1>1 DEF TypeOK, EngineTypeOK, DownloadIds
      <3>3. QED
        BY <3>1, <3>2 DEF Running, lastStatus
    <2>3. result' = [result EXCEPT ![c] = "kTimeout"] /\ UNCHANGED <<downloads, started>>
      BY <1>11 DEF ReturnTimeout, Return, engineVars
    <2>4. Abstract!Answer(c)
      BY <2>1, <2>2, <2>3
         DEF Abstract!Answer, Abstract!Move, Abstract!Answered, phases, lastStatus
    <2>5. QED
      BY <2>4 DEF Abstract!Next
  <1>12. CASE Handle(c)
    <2>1. phases' = [phases EXCEPT ![c] = "leaving"] /\ phases[c] = "downloading"
      BY <1>1, <1>12, MoveMaps, PhaseValues DEF Handle, Steps, phases
    <2>2. lastStatus = updateInfo.status /\ lastStatus # "RUNNING"
      BY <1>12 DEF Handle, ContractInv, OwnDownload, lastStatus, DownloadIds
    <2>3. /\ result' = [result EXCEPT ![c] = HandleResult(updateInfo.status)]
          /\ UNCHANGED <<downloads, started>>
      BY <1>12 DEF Handle, engineVars
    <2>4. Abstract!Answer(c)
      BY <2>1, <2>2, <2>3
         DEF Abstract!Answer, Abstract!Move, Abstract!Answered, phases, lastStatus
    <2>5. QED
      BY <2>4 DEF Abstract!Next
  <1>13. CASE Release(c)
    <2>1. phases' = [phases EXCEPT ![c] = "out"] /\ phases[c] = "leaving"
      BY <1>1, <1>13, MoveMaps, PhaseValues DEF Release, Return, Steps, phases
    <2>2. result' = result /\ UNCHANGED <<downloads, started>>
      BY <1>1, <1>13 DEF Release, Return, engineVars, TypeOK
    <2>3. Abstract!Leave(c)
      BY <2>1, <2>2 DEF Abstract!Leave, Abstract!Move, phases
    <2>4. QED
      BY <2>3 DEF Abstract!Next
  <1>14. QED
    BY <1>2, <1>4, <1>5, <1>7, <1>8, <1>9, <1>10, <1>11, <1>12, <1>13 DEF StartSoftwareUpdate

\* Every step of StartSoftwareUpdate, of UpdateCallback and of the engine is a step of
\* OneUpdate or leaves what it sees alone.
LEMMA StepMaps == IInv /\ ContractInv /\ [Next]_vars => [Abstract!Next]_(Abstract!vars)
  <1> SUFFICES ASSUME IInv, ContractInv, [Next]_vars
               PROVE  [Abstract!Next]_(Abstract!vars)
    OBVIOUS
  <1>1. CASE Engine
    BY <1>1, EngineMaps DEF Abstract!Next
  <1>2. CASE StoreReport
    BY <1>2 DEF StoreReport, StoreHead, Abstract!vars
  <1>3. CASE NotifyOne
    <2>1. UNCHANGED <<downloads, started, result>>
      BY <1>3 DEF NotifyOne, engineVars
    <2>2. ASSUME NEW c \in Callers, pc[c] = "sleeping", Goto(c, "wait")
          PROVE  phases' = phases
      BY <2>2, SamePhase, PhaseValues DEF IInv, Steps
    <2>3. phases' = phases
      BY <1>3, <2>2 DEF NotifyOne, phases
    <2>4. QED
      BY <2>1, <2>3 DEF Abstract!vars, phases
  <1>4. ASSUME NEW c \in Callers, StartSoftwareUpdate(c)
        PROVE  [Abstract!Next]_(Abstract!vars)
    BY <1>4, CallerMaps
  <1>5. CASE UNCHANGED vars
    BY <1>5 DEF vars, serviceVars, engineVars, Abstract!vars
  <1>6. QED
    BY <1>1, <1>2, <1>3, <1>4, <1>5 DEF Next, UpdateCallback

\* The safety part of ImplementsOneUpdate: StartSoftwareUpdate never does what OneUpdate
\* forbids (that it answers at all is liveness, and checked by TLC).
THEOREM ServiceRefinesOneUpdate ==
    ASSUME Contract
    PROVE  Spec => Abstract!Init /\ [][Abstract!Next]_(Abstract!vars)
  <1>1. Init => Abstract!Init
    BY InitMaps
  <1>2. IInv /\ ContractInv /\ [Next]_vars => [Abstract!Next]_(Abstract!vars)
    BY StepMaps
  <1>3. QED
    BY <1>1, <1>2, Invariance, ContractInvariance, PTL DEF Spec
=============================================================================
