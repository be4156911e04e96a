---------------------------- MODULE UpdateService ----------------------------
(***************************************************************************)
(* UpdateService (update_service.cpp): several threads may call            *)
(* StartSoftwareUpdate, the library's thread runs UpdateCallback.  Every   *)
(* section under mutex_ is one action, and so is every call into the       *)
(* library.  The condition variable is modelled with its set of sleeping   *)
(* callers: a report stored after the predicate was read and before the    *)
(* caller sleeps is possible only if the lock allows it.                   *)
(*                                                                         *)
(*   idle -> prepare -> start -> wait <-> sleeping                         *)
(*                                wait -> handle -> release -> idle        *)
(*                            sleeping -> abort -> timedout -> idle        *)
(*                                                                         *)
(* A definition whose comment says "Variant" is not part of the             *)
(* specification: it is the operator that follows it with a mistake in it,  *)
(* kept to show which property notices the mistake.                         *)
(***************************************************************************)
EXTENDS UpdateEngine

CONSTANTS Callers,      \* the threads that may call StartSoftwareUpdate
          EarlyErrors   \* what a call may answer before a download exists

ASSUME ServiceAssumption ==
    EarlyErrors \subseteq {"kFileOpenError", "kFileSizeError", "kServiceUnavailable"}

VARIABLES update_in_progress,  \* the flag update_in_progress_
          updateInfo,          \* updateInfo_: the last report, or the reset before the start
          pc,                  \* where each caller is in StartSoftwareUpdate
          totalSize,           \* its local variable totalSize
          result,              \* the value it returns, or returned last
          callback,            \* "idle", or "notify": stored, not yet notified
          mine,                \* history: the download the caller started (0: none)
          seen,                \* history: the statuses stored since the last reset
          strayed              \* history: the downloads whose caller was told of another one

serviceVars == <<update_in_progress, updateInfo, pc, totalSize, result, callback>>
historyVars == <<mine, seen, strayed>>
vars == <<engineVars, serviceVars, historyVars>>

Steps == {"idle", "prepare", "start", "wait", "sleeping", "handle", "release",
          "abort", "timedout"}

UpdateResults == {"kSuccess", "kBusy", "kStartFailed", "kTimeout", "kStoppedByMaster",
                  "kStoppedBySlave", "kBlockRepeatError", "kImageInvalid", "kUnknownError"}
                 \cup EarlyErrors

\* The switch of HandleResult: every status has its result, RUNNING has none.
HandleResult(status) ==
    CASE status = "READY_SUCCESS"                  -> "kSuccess"
      [] status = "STOPPED_BY_MASTER"              -> "kStoppedByMaster"
      [] status = "STOPPED_BY_SLAVE"               -> "kStoppedBySlave"
      [] status = "STOPPED_BY_ERROR_TIMEOUT"       -> "kTimeout"
      [] status = "STOPPED_BY_ERROR_BLOCK_REPEAT"  -> "kBlockRepeatError"
      [] status = "STOPPED_BY_ERROR_IMAGE_INVALID" -> "kImageInvalid"
      [] OTHER                                     -> "kUnknownError"

\* Variant: one byte too early.
FinishedOneByteEarly(c) ==
    \/ updateInfo.status # "RUNNING"
    \/ updateInfo.bytes + 1 >= totalSize[c]

\* The predicate of cv_.wait_for.
Finished(c) ==
    \/ updateInfo.status # "RUNNING"
    \/ updateInfo.bytes >= totalSize[c]

Goto(c, step) == pc' = [pc EXCEPT ![c] = step]

Return(c, value) ==
    /\ Goto(c, "idle")
    /\ result' = [result EXCEPT ![c] = value]

-----------------------------------------------------------------------------

Init ==
    /\ EngineInit
    /\ update_in_progress = FALSE
    /\ updateInfo = Info("STOPPED_BY_MASTER", 0, 0)
    /\ pc = [c \in Callers |-> "idle"]
    /\ totalSize = [c \in Callers |-> 0]
    /\ result = [c \in Callers |-> "kUnknownError"]
    /\ callback = "idle"
    /\ mine = [c \in Callers |-> 0]
    /\ seen = {}
    /\ strayed = {}

\* Variant: nobody looks at the flag.
EnterUnchecked(c) ==
    /\ pc[c] = "idle"
    /\ update_in_progress' = TRUE
    /\ Goto(c, "prepare")
    /\ UNCHANGED <<engineVars, updateInfo, totalSize, result, callback, historyVars>>

\* The gate: a caller either takes the flag or is told that the service is busy.
Enter(c) ==
    /\ pc[c] = "idle"
    /\ \/ /\ update_in_progress
          /\ Return(c, "kBusy")
          /\ UNCHANGED update_in_progress
       \/ /\ ~update_in_progress
          /\ update_in_progress' = TRUE
          /\ Goto(c, "prepare")
          /\ UNCHANGED result
    /\ UNCHANGED <<engineVars, updateInfo, totalSize, callback, historyVars>>

\* The image cannot be opened or measured, or the library has no update service.
PrepareFails(c, error) ==
    /\ pc[c] = "prepare"
    /\ update_in_progress' = FALSE
    /\ Return(c, error)
    /\ UNCHANGED <<engineVars, updateInfo, totalSize, callback, historyVars>>

\* Variant: updateInfo_ still holds the last report of the request before.
PrepareWithoutReset(c, size) ==
    /\ pc[c] = "prepare"
    /\ totalSize' = [totalSize EXCEPT ![c] = size]
    /\ Goto(c, "start")
    /\ mine' = [mine EXCEPT ![c] = 0]
    /\ seen' = {}
    /\ UNCHANGED <<engineVars, update_in_progress, updateInfo, result, callback, strayed>>

\* The image is measured and updateInfo_ reset for the download about to start.
Prepare(c, size) ==
    /\ pc[c] = "prepare"
    /\ totalSize' = [totalSize EXCEPT ![c] = size]
    /\ updateInfo' = Info("RUNNING", 0, 0)
    /\ Goto(c, "start")
    /\ mine' = [mine EXCEPT ![c] = 0]
    /\ seen' = {}
    /\ UNCHANGED <<engineVars, update_in_progress, result, callback, strayed>>

\* SoftwareUpdate returned ERROR_CODE_OK.  A report stored since the reset was not about
\* the download that starts only now.
StartAccepted(c) ==
    /\ pc[c] = "start"
    /\ AcceptDownload(totalSize[c])
    /\ Goto(c, "wait")
    /\ mine' = [mine EXCEPT ![c] = started + 1]
    /\ strayed' = IF seen = {} THEN strayed ELSE strayed \cup {started + 1}
    /\ UNCHANGED <<update_in_progress, updateInfo, totalSize, result, callback, seen>>

\* Variant: this way out forgets the flag.
StartFailsKeepingFlag(c) ==
    /\ pc[c] = "start"
    /\ Return(c, "kStartFailed")
    /\ UNCHANGED <<engineVars, update_in_progress, updateInfo, totalSize, callback, historyVars>>

\* SoftwareUpdate returned an error.
StartFails(c) ==
    /\ pc[c] = "start"
    /\ update_in_progress' = FALSE
    /\ Return(c, "kStartFailed")
    /\ UNCHANGED <<engineVars, updateInfo, totalSize, callback, historyVars>>

\* wait_for holds the lock: it reads the predicate and leaves, or goes to sleep.
CheckPredicate(c) ==
    /\ pc[c] = "wait"
    /\ Goto(c, IF Finished(c) THEN "handle" ELSE "sleeping")
    /\ UNCHANGED <<engineVars, update_in_progress, updateInfo, totalSize, result, callback,
                   historyVars>>

\* Variant: the wait starts again.
TimeoutWaitsAgain(c) ==
    /\ pc[c] = "sleeping"
    /\ Goto(c, IF Finished(c) THEN "handle" ELSE "wait")
    /\ UNCHANGED <<engineVars, update_in_progress, updateInfo, totalSize, result, callback,
                   historyVars>>

\* Variant: the timeout is answered without an abort.
TimeoutWithoutAbort(c) ==
    /\ pc[c] = "sleeping"
    /\ Goto(c, IF Finished(c) THEN "handle" ELSE "timedout")
    /\ UNCHANGED <<engineVars, update_in_progress, updateInfo, totalSize, result, callback,
                   historyVars>>

\* The five minutes are over: wait_for reads the predicate a last time.
TimeoutExpires(c) ==
    /\ pc[c] = "sleeping"
    /\ Goto(c, IF Finished(c) THEN "handle" ELSE "abort")
    /\ UNCHANGED <<engineVars, update_in_progress, updateInfo, totalSize, result, callback,
                   historyVars>>

\* Variant: the download goes on.
AbortNothing(c) ==
    /\ pc[c] = "abort"
    /\ Goto(c, "timedout")
    /\ UNCHANGED <<engineVars, update_in_progress, updateInfo, totalSize, result, callback,
                   historyVars>>

\* AbortSoftwareUpdate, outside the lock.
Abort(c) ==
    /\ pc[c] = "abort"
    /\ AbortDownloads
    /\ Goto(c, "timedout")
    /\ UNCHANGED <<update_in_progress, updateInfo, totalSize, result, callback, historyVars>>

\* The second section of the timeout path: the status stored meanwhile is overwritten.
ReturnTimeout(c) ==
    /\ pc[c] = "timedout"
    /\ updateInfo' = Info("STOPPED_BY_ERROR_TIMEOUT", updateInfo.bytes, 0)
    /\ update_in_progress' = FALSE
    /\ Return(c, "kTimeout")
    /\ UNCHANGED <<engineVars, totalSize, callback, historyVars>>

\* HandleResult takes the lock anew, after wait_for released it.
Handle(c) ==
    /\ pc[c] = "handle"
    /\ result' = [result EXCEPT ![c] = HandleResult(updateInfo.status)]
    /\ Goto(c, "release")
    /\ UNCHANGED <<engineVars, update_in_progress, updateInfo, totalSize, callback, historyVars>>

Release(c) ==
    /\ pc[c] = "release"
    /\ update_in_progress' = FALSE
    /\ Return(c, result[c])
    /\ UNCHANGED <<engineVars, updateInfo, totalSize, callback, historyVars>>

-----------------------------------------------------------------------------

\* The callers that take what updateInfo_ says for the state of their download.
Listening(c) == pc[c] \in {"wait", "sleeping", "abort", "handle"}

\* The report replaces the previous one, whatever download it is about.
StoreHead ==
    /\ updateInfo' = Head(reports)
    /\ reports' = Tail(reports)
    /\ seen' = seen \cup {Head(reports).status}
    /\ strayed' = strayed \cup
           {mine[c] : c \in {x \in Callers : Listening(x) /\ mine[x] # Head(reports).download}}

\* Variant: nobody is notified.
StoreReportSilently ==
    /\ callback = "idle"
    /\ reports # <<>>
    /\ StoreHead
    /\ UNCHANGED <<downloads, started, survived, update_in_progress, pc, totalSize, result,
                   callback, mine>>

\* UpdateCallback, under the lock.
StoreReport ==
    /\ callback = "idle"
    /\ reports # <<>>
    /\ StoreHead
    /\ callback' = "notify"
    /\ UNCHANGED <<downloads, started, survived, update_in_progress, pc, totalSize, result, mine>>

\* notify_one, after the lock was released: one sleeping caller checks again.
NotifyOne ==
    /\ callback = "notify"
    /\ callback' = "idle"
    /\ \/ \E c \in Callers : pc[c] = "sleeping" /\ Goto(c, "wait")
       \/ /\ \A c \in Callers : pc[c] # "sleeping"
          /\ UNCHANGED pc
    /\ UNCHANGED <<engineVars, update_in_progress, updateInfo, totalSize, result, historyVars>>

UpdateCallback == StoreReport \/ NotifyOne

\* The library sends reports on its own.
Engine == EngineStep /\ UNCHANGED <<serviceVars, historyVars>>

StartSoftwareUpdate(c) ==
    \/ Enter(c)
    \/ \E error \in EarlyErrors : PrepareFails(c, error)
    \/ \E size \in Sizes : Prepare(c, size)
    \/ StartAccepted(c)
    \/ StartFails(c)
    \/ CheckPredicate(c)
    \/ TimeoutExpires(c)
    \/ Abort(c)
    \/ ReturnTimeout(c)
    \/ Handle(c)
    \/ Release(c)

Next == Engine \/ UpdateCallback \/ \E c \in Callers : StartSoftwareUpdate(c)

\* A caller inside the function keeps running and its deadline passes; nothing obliges
\* a caller to enter, nor the library to send a single report.
CallerRuns(c) == pc[c] # "idle" /\ StartSoftwareUpdate(c)

Fairness == \A c \in Callers : WF_vars(CallerRuns(c)) /\ SF_vars(TimeoutExpires(c))

Spec == Init /\ [][Next]_vars /\ Fairness
-----------------------------------------------------------------------------

\* Every variable keeps its type (typing of the fields of UpdateService and of the
\* locals of StartSoftwareUpdate).
TypeOK ==
    /\ EngineTypeOK
    /\ update_in_progress \in BOOLEAN
    /\ updateInfo \in SWUpdateInfo
    /\ pc \in [Callers -> Steps]
    /\ totalSize \in [Callers -> Nat]
    /\ result \in [Callers -> UpdateResults]
    /\ callback \in {"idle", "notify"}
    /\ mine \in [Callers -> 0..MaxDownloads]
    /\ seen \subseteq Statuses
    /\ strayed \subseteq 0..MaxDownloads

Updating(c) == pc[c] # "idle"

\* The flag update_in_progress_, taken at the gate and given back on each of the seven
\* ways out, admits one caller at a time.
MutualExclusion ==
    \A c1, c2 \in Callers : Updating(c1) /\ Updating(c2) => c1 = c2

\* The flag is set exactly while a caller is inside: no way out forgets it (the service
\* would be busy for ever) and none clears it for somebody else.
FlagMeansUpdating ==
    update_in_progress <=> \E c \in Callers : Updating(c)

\* No wakeup is lost: a caller that sleeps although its predicate already holds is about
\* to be notified (UpdateCallback stores under the lock and notifies afterwards).
NoLostWakeup ==
    \A c \in Callers : pc[c] = "sleeping" /\ Finished(c) => callback = "notify"

\* When a request is answered "timed out and aborted", the library runs no download any
\* more: the abort came first and nobody could start another one meanwhile.  The one
\* exception is an abort that failed, which the code does not notice.
TimedOutMeansStopped ==
    \A c \in Callers : pc[c] = "timedout" =>
        \A d \in DownloadIds : Running(d) => d \in survived

\* An answer other than kUnknownError was reported by the library after this request
\* had reset updateInfo_: it is never what an earlier request left there.
AnswerWasReported ==
    \A c \in Callers :
        pc[c] = "release" /\ result[c] # "kUnknownError" =>
            \E status \in seen : result[c] = HandleResult(status)

\* While a request waits, updateInfo_ holds the reset or a report stored since.
StatusIsFresh ==
    \A c \in Callers :
        pc[c] \in {"start", "wait", "sleeping", "handle"} =>
            updateInfo.status \in {"RUNNING"} \cup seen

\* The inductive invariant behind the safety properties above: exclusion makes every
\* other conjunct a statement about the one caller inside.
IInv ==
    /\ TypeOK
    /\ MutualExclusion
    /\ FlagMeansUpdating
    /\ NoLostWakeup
    /\ TimedOutMeansStopped
    /\ StatusIsFresh
    /\ AnswerWasReported

-----------------------------------------------------------------------------
(* What a request knows of its own download.                                *)

Waiting(c) == pc[c] \in {"wait", "sleeping", "abort"}

\* The three ways a download can outlive its request: all its bytes were sent while it is
\* still RUNNING (which ends the wait, and so does an empty image at once), a report of
\* another download ended the wait, or the abort failed.
MayOutlive(d) ==
    \/ downloads[d].bytes >= downloads[d].size
    \/ d \in strayed
    \/ d \in survived

\* A download that runs is being waited for: no request is answered before its download is
\* over, in whatever order reports, timeout and abort come, but in the three ways above.
DownloadEndsWithRequest ==
    \A d \in DownloadIds :
        Running(d) => MayOutlive(d) \/ \E c \in Callers : Waiting(c) /\ mine[c] = d

\* "The download could be performed only for one sensor at a time!"  A second one starts
\* only beside a download that outlived its request.
OneDownloadAtATime ==
    \A d1, d2 \in DownloadIds :
        Running(d1) /\ Running(d2) /\ d1 # d2 => MayOutlive(d1) \/ MayOutlive(d2)

\* kSuccess means that the download of this very request completed, unless a report of
\* another download was stored while the request listened.
SuccessIsOwn ==
    \A c \in Callers :
        pc[c] = "release" /\ result[c] = "kSuccess" =>
            mine[c] \in strayed \/ downloads[mine[c]].status = "READY_SUCCESS"

\* A report with a download says what is, or was, true of it.
IsTrue(info) ==
    info.download # 0 =>
        /\ info.download <= started
        /\ IF info.status = "RUNNING"
           THEN info.bytes <= downloads[info.download].bytes
           ELSE downloads[info.download].status = info.status

BytesFit == \A d \in DownloadIds : downloads[d].bytes <= downloads[d].size

ReportsAreTrue == IsTrue(updateInfo) /\ \A i \in 1..Len(reports) : IsTrue(reports[i])

\* While a request listens, updateInfo_ is the reset, about its own download, or strayed.
InfoIsOwn ==
    \A c \in Callers :
        /\ pc[c] = "start" /\ seen = {} => updateInfo = Info("RUNNING", 0, 0)
        /\ Listening(c) \/ pc[c] \in {"timedout", "release"} => mine[c] \in 1..started
        /\ Listening(c) => /\ downloads[mine[c]].size = totalSize[c]
                           /\ \/ updateInfo = Info("RUNNING", 0, 0)
                              \/ updateInfo.download = mine[c]
                              \/ mine[c] \in strayed

\* Behind the wait the download is over, or may outlive the request.
BehindTheWait ==
    \A c \in Callers :
        pc[c] \in {"handle", "timedout", "release"} =>
            downloads[mine[c]].status # "RUNNING" \/ MayOutlive(mine[c])

\* A report that says a download is over is the last about it.
FinalIsLast ==
    /\ \A i \in 1..Len(reports) : reports[i].download # 0
    /\ \A i, j \in 1..Len(reports) :
          i < j /\ reports[i].download = reports[j].download => reports[i].status = "RUNNING"
    /\ \A i \in 1..Len(reports) :
          reports[i].download = updateInfo.download => updateInfo.status = "RUNNING"

\* The download is over and nothing more will be heard of it.
Silent(d) ==
    /\ downloads[d].status # "RUNNING"
    /\ \A i \in 1..Len(reports) : reports[i].download # d

\* A request answered with the outcome of its own download leaves no report behind.
AnsweredIsSilent ==
    \A c \in Callers :
        pc[c] = "release" /\ result[c] # "kUnknownError" /\ mine[c] \notin strayed =>
            Silent(mine[c])

\* The inductive invariant behind the three properties above, beside IInv.
OutcomeInv ==
    /\ BytesFit
    /\ ReportsAreTrue
    /\ InfoIsOwn
    /\ BehindTheWait
    /\ DownloadEndsWithRequest
    /\ SuccessIsOwn
    /\ FinalIsLast
    /\ AnsweredIsSilent

-----------------------------------------------------------------------------
(* What holds only if the library keeps to a contract: see the runs.        *)

\* The contract: no report says RUNNING with all the bytes, an abort stops and silences
\* the library, and no image is empty.
Contract == ~FullProgress /\ ~LateReports /\ ~AbortFails /\ 0 \notin Sizes

\* Only the download of a waiting caller runs, and it is the one started last.
RunningIsWaitedFor ==
    \A d \in DownloadIds :
        Running(d) => d = started /\ \E c \in Callers : Waiting(c) /\ mine[c] = d

\* What the caller inside knows at each step.
OwnDownload ==
    \A c \in Callers :
        /\ pc[c] = "start" => /\ totalSize[c] > 0
                              /\ updateInfo.status = "RUNNING" /\ updateInfo.bytes = 0
        /\ Waiting(c) \/ pc[c] \in {"handle", "release"} =>
              mine[c] = started /\ started \in DownloadIds
        /\ Waiting(c) => downloads[started].size = totalSize[c]
        /\ pc[c] = "handle" => /\ updateInfo.status # "RUNNING"
                               /\ downloads[started].status = updateInfo.status
        /\ pc[c] = "release" => /\ downloads[started].status # "RUNNING"
                                /\ result[c] = HandleResult(downloads[started].status)

\* While a caller waits every report is about its download, progress before the end;
\* otherwise there is none.
ReportsAreOwn ==
    /\ (\A c \in Callers : ~Waiting(c)) => reports = <<>>
    /\ \A c \in Callers : Waiting(c) =>
        /\ \A i \in 1..Len(reports) :
              IF reports[i].status = "RUNNING"
              THEN reports[i].bytes < totalSize[c]
              ELSE i = Len(reports) /\ downloads[started].status = reports[i].status
        /\ IF updateInfo.status = "RUNNING"
           THEN updateInfo.bytes < totalSize[c]
           ELSE reports = <<>> /\ downloads[started].status = updateInfo.status

\* The invariant that is inductive once the library keeps to the contract.
ContractInv == RunningIsWaitedFor /\ OwnDownload /\ ReportsAreOwn

\* Nothing is left of the exceptions that the properties of OutcomeInv make.
NoException ==
    /\ strayed = {} /\ survived = {}
    /\ \A c \in Callers : pc[c] = "start" => seen = {}
    /\ \A i \in 1..Len(reports) : reports[i].download = started
    /\ \A d \in DownloadIds : Running(d) => downloads[d].bytes < downloads[d].size

-----------------------------------------------------------------------------
(* The service implements OneUpdate.                                        *)

Phase(step) ==
    CASE step = "idle"                -> "out"
      [] step \in {"prepare", "start"} -> "before"
      [] step = "release"             -> "leaving"
      [] OTHER                        -> "downloading"

Abstract == INSTANCE OneUpdate WITH
    phase  <- [c \in Callers |-> Phase(pc[c])],
    last   <- IF started = 0 THEN "none" ELSE downloads[started].status,
    answer <- result

\* Given the contract, StartSoftwareUpdate does what OneUpdate promises.
ImplementsOneUpdate == Abstract!Spec
=============================================================================
