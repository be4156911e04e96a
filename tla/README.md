# A formal model of the smartmicro radar driver

TLA+ modules for the ROS 2 driver of smartmicro radar sensors
(`umrr_ros2_driver`) and its RViz panels (`smart_rviz_plugin`), TLC
configurations that model-check them on small instances, and proofs that TLAPS
checks for every value of the constants. All paths below are relative to the
root of the repository.

Contents: [1 The system](#1-the-system) ·
[2 The modules](#2-the-modules) ·
[3 What the runs check](#3-what-the-runs-check) ·
[4 What is proved](#4-what-is-proved) ·
[5 Disagreements between the code and its texts](#5-disagreements-between-the-code-and-its-texts) ·
[6 What is not covered](#6-what-is-not-covered) ·
[7 Plan](#7-plan)

## 1 The system

The driver is one ROS node around a closed-source library, Smart Access, which
talks to the sensors over Ethernet or CAN. The panels are clients of the node's
topics and services.

| Component | State it keeps | Operations | What makes it correct |
|---|---|---|---|
| Firmware update (`update_service.cpp`) | busy flag, last report (`updateInfo_`), a condition variable | `StartSoftwareUpdate` (a caller waits up to 5 minutes), `UpdateCallback` (library thread), `HandleResult` | one update at a time; the flag is released on every way out; no lost wakeup; every request answered, by its own download (the cases in which it may not be are few and named) |
| Configuration (`update_config_files_from_params`, `initialize_services`) | parameters, `m_sensors`, `m_adapters` and their numbers; three JSON files that outlive the process | the constructor | the library is configured with this launch's parameters; a launch fails for a stated reason only; a file that cannot be written costs no other file |
| Data path (`setup_publishers`, 71 list callbacks, `on_shutdown_callback`) | publishers per sensor, callbacks registered with the library, `m_shutdown_requested`, the global `m_services` | set-up of each sensor, a callback per list received, shutdown | every callback has its publishers; data appear under the sensor they came from; cloud and header stay together, but for those the signal meets; silence after the shutdown |
| Instruction services (`set_radar_mode`, `get_radar_mode`, `get_radar_status`, `ip_address`, `radar_command`) | the member `client_id`, a batch per request | a handler per service, a response handler per service (library thread) | all or nothing; the right sensor; values arrive as written; every response is shown |
| `firmware_download` handler, executor and process | where the one thread that spins the node is, the requests that wait, how far the shutdown is | take a request, run its handler (a download included), shut down at a signal, destroy the node | every request is answered; the process ends, whatever runs; no report of a download that was answered calls a destroyed service; the process waits for a download, or aborts it, before it ends |
| Panel: recorder (`smart_recorder.cpp`) | flags, recorded rows, enabled controls, modal dialogs | start, stop, save, discard, select a topic, a timer that delivers clouds | a recording is whole and leaves only by the user's choice |
| Panel: firmware download (`smart_download.cpp`) | the start button, a thread that spins the panel's node, a detached thread per request, events posted to Qt's thread | a click, a response, closing the panel | one request at a time; the button comes back; closing ends; the panel outlives its threads (it does not: section 5) |
| Panel: sensor services (`smart_services.cpp`) | tables, input fields and a combo box of types per tab, a client per service | pick a model, pick a row, a synchronous call per click | the node reads the type the row shows; the call comes back |
| Panel: fault reports (`smart_faults.cpp`) | the list of topics, the selected one, a subscription, the last message | a timer that rebuilds the list, one that delivers messages, a selection | dropdown, subscription and tables agree while topics come and go |
| Panel: status (`smart_status.cpp`) | a subscription per topic, the selected one, labels and column | a selection, a timer that delivers headers | values stand beside the labels of their kind |
| Simulator, CAN sender, messages, vendored headers, launch and parameter files | – | – | – |

How they interact. The constructor writes the files, initialises the library
(which reads them), creates the services, and registers a callback for each
list of each sensor. From then on three kinds of threads run: the executor's
(one service handler at a time), the library's (data callbacks, instruction
responses, update reports), and that of the signal handler (the shutdown). The
shared state is `m_shutdown_requested` (atomic), `m_services` (a global
pointer), the publishers (written during set-up only), and, behind a mutex, the
state of the firmware update. The panels share Qt's thread in the process of
RViz, where a slot that waits holds up all of them, and the node's one executor,
where a download does.

What is hard here, and hard to test: the interleavings of these threads; a timeout that races a late report; reports that do not say which download they
belong to; a process killed while it rewrites a file, and writes that fail
unnoticed; a modal dialog that keeps
delivering clouds; a panel that is closed while a thread of its own works for
it; a node that goes away between a request and its answer; three hand-written
chains of models (publishers, registrations, fault reports) that must agree; and
integer conversions at their bounds. `PROJECT.json` lists each such hazard at its
line with the properties
that cover it.

## 2 The modules

| Module | Models | Checked by |
|---|---|---|
| `UpdateEngine` | the library's update engine, external | `UpdateService*` |
| `UpdateService` | `update_service.cpp`, composed with the engine | `MCUpdateService` |
| `OneUpdate` | the abstract specification: what the service promises | refinement in `UpdateServiceContract` |
| `UpdateServiceProofs`, `UpdateContractProofs` | theorems | TLAPS |
| `RadarConfig` | configuration and start of the node | itself |
| `RadarConfigProofs` | theorems | TLAPS |
| `SensorModels` | the chains of sensor models | `DataPath` |
| `DataPath` | set-up, data callbacks, shutdown | `MCDataPath` |
| `DataPathProofs` | theorems | TLAPS |
| `Instructions`, `InstructionTypes` | the five instruction services; the meaning of type codes | `MCInstructions` |
| `InstructionServices` | abstract: a request served in one step | refinement in `Instructions` |
| `InstructionsProofs` | theorems | TLAPS |
| `RadarServices` | abstract: what clients may expect of the node | refinement in `RadarNode`; composed in `RVizPanels` |
| `RadarNode` | the node as a process: executor, handlers, an instance of `UpdateService`, signal, shutdown | itself |
| `RadarNodeProofs` | theorems | TLAPS |
| `UserInterface` | Qt's thread and rclcpp's context, external | `RVizPanels*` |
| `DownloadPanel`, `ServicePanel`, `FaultPanel`, `StatusPanel` | a panel each | `RVizPanels*` |
| `RVizPanels` | composition of the panels and the node | `MCRVizPanels` |
| `RVizPanelsProofs` | theorems | TLAPS |
| `Recorder` | the recorder panel | `MCRecorder` |
| `Recording` | abstract: a recording without buttons and dialogs | refinement in `Recorder` |
| `RecorderProofs` | theorems | TLAPS |

Names are those of the source where TLA+ allows it. Operators whose comment
begins with "Variant" are deliberate mistakes beside the definition they vary;
the specification does not use them, they show which property notices which
mistake.

### UpdateEngine, UpdateService and OneUpdate

`pc[c]` is where a caller of `StartSoftwareUpdate` is. Each critical section of
the code is one action, since nothing else touches the fields it holds the lock
for; what happens between two sections is a step of its own:

| Step of the caller | Code | Action |
|---|---|---|
| `idle` | test and set of the busy flag | `Enter` (or the answer `kBusy`) |
| `prepare` | open the image, its size, the service; reset `updateInfo_` | `Prepare`, `PrepareFails` |
| `start` | `SoftwareUpdate` | `StartAccepted`, `StartFails` |
| `wait`, `sleeping` | `cv_.wait_for` with its predicate | `CheckPredicate`, `TimeoutExpires` |
| `abort`, `timedout` | `AbortSoftwareUpdate`, the answer `kTimeout` | `Abort`, `ReturnTimeout` |
| `handle`, `release` | `HandleResult`, the flag | `Handle`, `Release` |

`UpdateCallback` is two steps on the library's thread: the store under the lock
(`StoreReport`) and the notification after it (`NotifyOne`). Between a
predicate that is false and the sleep there is no step, because `wait_for`
gives up the lock and sleeps in one. At the timeout the predicate is evaluated
once more, as `wait_for` does; since `TimeoutExpires` may come at any time, it
also covers a spurious wakeup that finds the predicate true (one that finds it
false changes nothing).

The library is closed source. `UpdateEngine` says no more of it than the driver
sees: it accepts a download or not, reports every change in order, and is asked
to abort. Three constants keep open what cannot be read from this repository:
`FullProgress` (may a report say RUNNING with every byte sent? line 103 expects
one), `LateReports` (may a report of an aborted download still be delivered?) and
`AbortFails` (may `AbortSoftwareUpdate` fail? line 109 does not look at its
result). Images may be empty. The invariants of the run `UpdateService`, of the
run `RadarNode`, and every theorem but those of `UpdateContractProofs`, hold with
all of this open.

What a request has to do with its own download (`DownloadEndsWithRequest`,
`SuccessIsOwn`) therefore names the ways in which the two come apart. Two history
variables record them: `survived` (the downloads that ran when an abort failed)
and `strayed` (the downloads whose request had a report of another one stored
while it listened). `MayOutlive(d)` is: all bytes of `d` were sent while it was
RUNNING (for an empty image: at once), or `d` is in one of the two. Everything
else is excluded: no order of reports, timeout, abort and next request lets a
download outlive its request, or makes a success of another one's.

If the library keeps to the `Contract` (none of the three, and no empty image),
nothing of these exceptions is left (`NoException`), and only then the service is
`OneUpdate`: that refinement is the one property stated under the contract.

`OneUpdate` is the promise: a caller is let in or told `kBusy`, at most one
download runs, none runs once its caller was answered, and the answer is the
outcome of the caller's own download. The refinement maps `pc` to four phases
(`Phase`) and the status of the last download to `last`.

### RadarConfig

One action per stage of the constructor, in its order. Writing a file is two
actions because `std::ofstream{path, std::ios::trunc} << json` truncates when
it opens and gets the text there when it closes. Each file may fail at each step
(`Rewrite`): it is missing or unreadable, which the parser reports (`ReadFails`);
it cannot be opened for writing, and stays as an earlier launch left it
(`OpenFails`); what is written does not get there, or not all of it, and what is
left is no JSON (`WriteFails`). The last two nobody notices, and the constructor
goes on. `Stop` may come before any action; `Launch` starts the process again
with any parameters, and with or without `SMART_ACCESS_CFG_FILE_PATH` in its
environment (`preset`), which `setenv` does not override: such a library reads
other files, which the model does not have. `unread`, `unwritten` and `damaged`
are history: what this launch could not read, failed to write, and what any
launch left truncated.

A file holds the list of ids written to it, or `Empty`: other keys of an entry are
copied together with its id and nothing else reads them. Whether the library
comes up is nondeterministic; one that finds a file truncated may come up with
nothing.

### SensorModels and DataPath

`SensorModels` holds the families of models the source handles in the same way;
every callback of a family has the same control (flag, cloud, header) and
differs in the fields it copies. `DataPath` goes through `setup_publishers`
sensor by sensor: check, publishers, one registration per step. A library
thread is idle or inside a callback with topics yet to publish to. What the
library does when a second callback is registered for the same source is
nondeterministic: it takes the place of the first, or is refused. A
signal may come at any moment (`Signal`): the context becomes invalid first, and
from then on `publish` does nothing, `create_publisher` throws, and main may
destroy the node; the handler of the node is called after that, and rests before
it resets `m_services`. `interrupted` is history: the lists whose callback was
under way at the signal, which are those that lose their header. Undefined
behaviour (a null publisher, a callback of the library or of the signal handler
bound to a destroyed node) sets `fault` and stops the callbacks.

The parameters of each sensor are any combination of id, link, model and
publish type, so sensors that share an id, models on the wrong link, and
publish types nobody knows are all initial states.

### Instructions

A handler is the sequence check – allocate – add each instruction – send –
answer, with every early return, one step per call of the library. The executor
runs one handler at a time (the node is spun by a single-threaded executor);
responses arrive at any step and in any order. Text is abstracted to a number
with the form it is written in; the widths of the integer types are constants,
2 to 5 bits in the runs, because every comparison and every modulus in the
conversions is stated relative to them. A float has `FloatMantissas` integers it
holds exactly (2^24 in the code, 2^3 in the runs) and `FloatUlps`, the distances
between those beyond: `Stof` rounds to the nearest one, of two the one with the
even mantissa, and refuses what is larger than all of them. The numbers of the
model are whole; a fraction, and the words and hexadecimal numbers that
`std::stof` also reads, are left out.

`InstructionServices` is what a client sees: a request is executed, all of its
instructions handed to the sensor it names in the order asked, or refused for a
reason it names (what is wrong with the request, the first entry that makes no
instruction, or the library); later the responses are shown once, as this
request asked for them. The refinement leaves the state as it is: the steps of a
handler before its answer change nothing a client or a sensor can see.

### RadarServices and RadarNode

`RadarNode` follows three threads. `main` is that of the executor: it waits,
takes one of the waiting requests, runs its handler, and leaves when the context
is no longer valid; then main destroys the node. The handler of
`firmware_download` is the whole of `StartSoftwareUpdate`, step by step, from an
instance of `UpdateService` with the executor as its only caller; the other
handlers are one step (their calls of the library are in `Instructions`), which
is where they dereference `m_services`. `signal` is the thread of the signal
handler: rclcpp invalidates the context, then calls `on_shutdown_callback`,
which sets a flag, rests for 100 ms and resets `m_services`. The library's
reports come on a third. Undefined behaviour sets `fault` and ends the
behaviour. Who may use what main has destroyed: the signal handler, whose callback
is bound to a plain `this`; the data callbacks and the handlers of responses
(`LibraryCallback`), likewise bound and never taken back, so at any time; and the
reports of a download, whose callback is bound to the `UpdateService`. The code
protects the node from none of the first two kinds, so there is nothing to state
but that they exist. The third it does: a handler returns, and main can only leave
between two handlers, when its download is over. `ReportsComeInTime` says of whom
a report may still come all the same. `overran` is history: the reset of
`m_services` came while the executor was in its wait or in a handler that uses
it.

`RadarServices` is what a client may expect: requests wait, one is served at a
time, each is answered once, everything is lost when the node goes. The
refinement reads `waiting`, `serving` and `responses` off the stage of each
client's request.

### The panels

`UserInterface` is the thread the panels share: `events` (the loop turns),
`dialog` (a modal box runs a loop of its own: timers and posted events are
served, clicks are not), `call` (a slot waits and nothing is served) or `ended`.
Each panel EXTENDS it, and the panels that call services EXTEND `RadarServices`,
so that a call is a step of the node's client.

| Panel | Variables | Actions |
|---|---|---|
| `DownloadPanel` | `slot` is where `download_firmware` is, `thread` is `ros_thread_`, `worker[k]` the detached thread of request `k`, `events` what it posted | `DownloadClicked` to `SendDownload`, `ReceiveResponse`, `PostResponse`, `LogResponse`, `ShowResponse`, `ClosePanel`, `DestroyPanel` |
| `ServicePanel` | `call` is where the slot is, `asked` what it waits for, `table`, `fields` and `valueType` what a tab shows | `ChooseModel`, `PickRow`, `ChooseType`, `TypeName`, `CallClicked` to `CallReturns` |
| `FaultPanel` | `listed` and `current` are the dropdown, `selected_topic_`, `subscriptions` | `RefreshTopics`, `SelectFaults`, `SelectNoFaults`, `ShowFaults` |
| `StatusPanel` | `choice`, `queued`, `labels`, `column` | `SelectHeader`, `ShowHeader` |

The three tabs of the service panel have slots alike, so a behaviour follows one
tab, any of them. The row of a table is abstracted to the model whose file it is
from, with its type; names, values and the aliases of type names ("float",
"uint32") are left out. `wait_for_service` finds the service while the node is
up, and may give up at any time. `cancel()` before the executor spins is
forgotten, as in rclcpp, where `spin()` sets the flag that `cancel()` clears:
that thread is called `deaf`. `get_topic_names_and_types` counts subscriptions,
so a selected topic stays in the list without its publisher.

`RVizPanels` composes them. A session has some of the panels open; a panel that
is not open takes no step. The node may go and be launched again.

### Recorder

One action per slot of the panel. A modal dialog has its own event loop:
`check_data` keeps delivering clouds, the controls are dead, which is what
`Click` says. `heard` is a history variable: what the recorded topic published
since Record was pressed.

`Recording` knows one list of points, and neither buttons nor dialogs: Record,
the clouds published, Stop, and the end by Save or Discard. The refinement reads
the list off the two of the panel (`Rows`), the topic off `recording_topic_` and
the end of a recording off `pending_save_`.

## 3 What the runs check

Passing runs (TLC explores every reachable state within the bounds):

| Run | Question | States | Bounds |
|---|---|---|---|
| `UpdateService` | are flag, wakeups, timeout and answers right, and do requests and downloads correspond but in the cases named, whatever the library does? | 3 338 642 | 2 callers, 2 downloads, images of 0 or 1 block |
| `UpdateServiceContract` | does the service implement `OneUpdate` if the library keeps the contract, its promise that every request is answered included? | 327 800 | 2 callers, 2 downloads, images of 1 or 2 blocks |
| `Recorder` | is the panel a `Recording`: whole, and dropped only by choice or by a write that fails? | 17 414 | 4 clouds of up to 2 points, 3 topics |
| `RadarConfig` | does a running node have its own configuration, whichever file fails and when? | 17 917 | 2 sensor and 2 adapter slots, 3 launches |
| `DataPath` | do set-up, callbacks, signal and shutdown fit together, and the three chains of models agree? | 5 240 927 | 2 sensors of five models that have each kind of callback, or 1 of every model, link and publish type; 2 threads, 2 lists |
| `Instructions` | does each request look as if it were served in one step: whole, to its own sensor, with its numbers, and the responses to the terminal? | 180 613 | 2 requests: 11 of any service, 57 conversions (each of the 4 types with 12 or 15 values around its bounds) |
| `RadarNode` | is every request answered, and truly, does the process end, and what may outlive it? | 884 463 | 2 clients with any request, images of 0 or 1 block, any library, a signal at any time |
| `RVizPanels` | is what is shown what is selected, and do clicks end? | 69 067 | 4 sessions of two panels, 2 downloads, 2 calls, 2 models, 2 topics of each kind, 1 relaunch |

Why these bounds are enough to make the interesting cases happen. Two callers
and two downloads: one inside and one at the door, a report of the first
download that meets the second request; no state relates three. Two slots and
three launches: a full array, a gap, a longer list followed by a shorter one,
a damaged file met by a later launch. Two sensors and two threads: a callback of
the first sensor while the second is set up, two callbacks of one sensor at the
same time, a signal between a cloud and its header. Two requests: a response
to the first while the second is served, and responses in another order than the
batches; a handler keeps nothing of an earlier request but `client_id`.
Four clouds: one before, one during, one after a recording and one during the
dialog. The families of models behave alike within a family, so `DataPath` takes
one of each kind for two sensors, and all of them for one. Two clients of the
node: a download and the request queued behind it, which the signal meets in any
order; a third would wait like the second. The sessions are the pairs of panels
that have something in common: Qt's thread and the node's executor (download and
services), the menu and the tables with a call (services alone), a call and the
timers it holds up (services and faults), two panels with topics (faults and
status). Two downloads: one after the other, and the press of a button between
an event that was posted and its delivery. Two topics: the one selected and the
one that takes its place.

The properties are stated with a comment each in the modules. The type
invariants are proved (section 4) and are in no run. The properties that take
several steps or actors to violate: `NoLostWakeup`,
`TimedOutMeansStopped`, `DownloadEndsWithRequest`, `SuccessIsOwn`,
`ImplementsOneUpdate`, `LibraryMatchesParameters`, `FilesStayUsable`, `HeadersFollowClouds`, `SilentAfterReset`,
`EveryListIsHeard`, `AllOrNothing`, `EveryResponseIsShown`,
`ImplementsInstructionServices`, `RecordingIsWhole`, `RowsLeaveByChoice`,
`ImplementsRecording`, `SuccessIsTold`, `HandlersFindServices`, `ReportsComeInTime`,
`NoDownloadLeft`, `ImplementsRadarServices`, `ButtonMeansPending`,
`TypesAgreeWithNode`, `FaultsAreOfSelection`, `QtComesBack`, `ButtonComesBack`.

Deadlock is checked in the runs of the firmware update and of the recorder. It
is not checked where the modelled part may stop for good: a node whose
launches are used up, one that has shut down or whose constructor threw,
clients that ask no more, and an RViz that has ended or whose thread is stuck.

Fairness. `UpdateService`: weak fairness of each caller's next
step (a thread that is not blocked runs), and strong fairness of the timeout
(the clock reaches five minutes even if reports keep waking the caller up:
`wait_for` computes its deadline once). The engine has none, so the library may
fall silent at any time, and nobody has to ask.
`RadarNode`: weak fairness of the main thread and of the signal handler, which
the operating system schedules, and the same strong fairness of the timeout; none
of the library, of clients, or of the signal. `RVizPanels`: weak fairness of
Qt's thread inside a slot (its waits end, except that for a response, which has
no timeout in the code and none here), of `ros_thread_`, the workers and the
node's executor; strong fairness of timers and posted events, which are enabled
only between the slots, and which Qt serves in turn with clicks. Users need not
do anything, not even close a box, and nobody has to launch the node again: the
properties say what remains then (`Lost`, `Frozen`, `Stuck`).

`SilentAfterReset` is checked under `RestOutlasts`: callbacks return within the
100 ms the shutdown rests. That is an assumption about time the code makes and
does not enforce; the constant marks it. `ImplementsOneUpdate` is checked, and
proved, under `Contract`. Nothing else that is checked assumes anything of the
library, of the disk or of the environment: where a property cannot hold, it says
so itself.

## 4 What is proved

For every value of the constants (any number of callers, downloads and image
sizes, of sensors, threads, requests, topics, models, launches):

- `UpdateServiceProofs`: `TypeCorrect`, and `Invariance` of `IInv`, from which
  `OneCallerInside`, `FlagIsExact`, `WakeupsArrive`, `TimeoutStops` and
  `AnswersAreFresh` follow. None of the safety properties is inductive alone:
  that a step of one caller does not disturb another needs exclusion, exclusion
  needs the exact flag, and the freshness of an answer needs that of the status
  stored (`StatusIsFresh`). One lemma per action shows that it preserves
  `IInv`. No assumption about the library.
  `OutcomeInvariance` is a second invariant on top of it, and gives
  `NoOrphanDownload`, `OneDownload` and `OwnSuccess`, again with no assumption
  about the library: reports are true of the download they are about
  (`ReportsAreTrue`), a status that says a download is over is the last of it
  (`FinalIsLast`), and what a request reads while it listens is its own or makes
  its download one that strayed (`InfoIsOwn`); so behind the wait the download is
  over, or may outlive the request (`BehindTheWait`).
- `UpdateContractProofs`: under `Contract`, `ContractInvariance`: a running
  download is waited for, it is the waiting request's own and the last one started,
  and every report on its way is about it. `ContractLeavesNoException`: then
  `strayed` and `survived` stay empty, so that the properties above hold without
  their exceptions. The last theorem of the module is `ServiceRefinesOneUpdate`:
  the initial states map to those of `OneUpdate` and every step maps to a step or a
  stutter. (Its liveness conjunct is checked by TLC only.)
- `RecorderProofs`: `RecorderInvariance` of the recorder's `IInv`, from which
  `RecordingsAreWhole`, `ReadyPanelIsEmpty` and `ControlsAgree` follow, and `NoRowIsLost`, the
  action property `RowsLeaveByChoice`, whether or not writes fail. `RecordingIsWhole` is inductive only together with the state of the
  controls: the recorded topic is the selected one because the dropdown is dead
  from Record to the end of the dialog. `PanelIsARecording` is the refinement of
  `Recording`, whole (it has no liveness) and with no assumption: a cloud that
  comes in is appended to the recording or ignored exactly as there, whichever of
  the two lists it goes to (`CloudReceivedRefines`), and the buttons that end a
  recording forget all of it (`ForgetRefines`). If writing may fail, so may
  `Recording`'s; nothing else about the refinement changes.
- `RadarConfigProofs`: `ConfigInvariance`, for any number of slots and launches,
  and from it `LibraryAgrees`, `FilesUsable` and `FailuresHaveReasons`. That the
  library has this launch's sensors needs, at each stage of the constructor, what
  the stages before read (`CountsRead`) and wrote, or failed to (`Written`), and
  that a file is never truncated but by a stop between its two halves or by a write
  that fails. Nothing is assumed of the files: the exceptions are in the statements.
- `DataPathProofs`: `DataPathInvariance`, for any number of sensors, threads and
  lists, any configurations and any behaviour of the library's registrations, and
  from it `PublishersAreThere`, `FaultsHaveCauses`, `PublishedRightly`,
  `CloudsHaveHeaders`, `NothingAfterReset` and `ListsAreHeard`. A callback finds
  its publishers because its sensor is one the set-up has passed (`SetUp`), whose
  publishers stay (`HasPublishers`). A busy thread has published the topics of
  its list up to the one it is at, and no other thread has that list
  (`ThreadsInv`), which is why a cloud has its header, published or next,
  unless the signal met the callback on its way (`HeadersInv`). `HeardInv` follows each list of a sensor passed: registered,
  refused, or taken over by a later sensor of the same name.
- `InstructionsProofs`: `InstructionsInvariance`, for any requests and widths, and
  from it `SuccessMeansSent`, `RightSensor`, `ResponsesAreShown` and
  `NumbersReachSensor`. A batch being filled has the instructions of its own
  request, none with an error (`BatchInv`), so a batch sent is whole and goes where
  its request says (`SentInv`). That answers and batches correspond is a count:
  the n-th answer of success is that of the n-th batch (`AnswersInv`). What is
  shown for a batch depends on its own request only (`ResponsesInv`). That a
  rounded number is within half the distance of two floats is arithmetic
  (`Rounded`), for any mantissa.
  `InstructionsAreAtomic` is the refinement of `InstructionServices`, whole: the
  answer is the one step the client sees. It needs of the invariant that the
  batch holds the good entries before the one a handler gives up at, so that the
  client is told of the first bad entry (`AddRequestRefines`), and that
  `client_id` is still that of the request when the batch is sent
  (`SendBatchRefines`).
- `RadarNodeProofs`: `NodeInvariance`, for any number of clients and whatever the
  library reports, and from it `ServicesAreThere` and `NobodyIsRejected`. The
  firmware update inside the node is `UpdateService` with the executor as its only
  caller: every step of the process is one of its steps or leaves it alone
  (`UpdateStep`), so its invariants are invariants of the process, by an instance of
  `UpdateServiceProofs`. What remains is control: a handler runs only while the
  executor is in it (`ExecutorInv`); after the reset nobody can get to a handler
  any more, or the history says that somebody was there (`ShutdownInv`).
  `NodeOutcomeInvariance` of `OutcomeIInv` relates this to the downloads, and from
  it follow `SensorsAreWhole` (main leaves from between two handlers, where a
  download may run only if it may outlive its request), `SuccessesAreTrue` (who is
  told `kSuccess` is told of the download started for this very request, which ended
  with one) and `ReportsAreInTime`. The last two need facts about answers that were
  given long ago: what they name is over and stays so, no later request has the same
  download, because downloads are numbered as they start (`ToldInv`), a download
  nobody was told of is over or that of the request under way (`UntoldInv`), and
  reports still to come are of the kinds the property names (`LateInv`).
  `NodeRefinesRadarServices`: every step of the process is a step of
  `RadarServices` or a stutter (fairness is left to TLC). None of these results
  assumes anything of the library.
- `RVizPanelsProofs`: `PanelsInvariance` of `PanelsInv`, for any number of
  topics, models, requests and launches and any session, from which
  `PanelsTypeCorrect`, `ButtonIsExact`, `TypesAgree`, `FaultsAgree` and
  `LabelsAgree` follow. The invariant has a part per panel and
  no part needs another: a panel keeps its own, and what the others do leaves it
  alone. Each part strengthens what it is for. `ButtonMeansPending` needs that a
  slot starts with nothing pending and that at most one response is posted;
  `TypesAgreeWithNode` that the fields are those of a row, or edited, at every
  moment between the pick and the answer; `FaultsAreOfSelection` that there is
  one subscription, to the selected topic, since it is what keeps the topic in
  the list; `LabelsMatchData` that the labels are set with the selection.
  `SessionUsesRadarServices`: every step of a session, the user's, the threads',
  the node's and the signal's, is a step of `RadarServices` or leaves it alone.
  With `NodeRefinesRadarServices` the two halves of the system meet in one
  specification: what the panels rely on is what the process of the node does.
  `OneResponsePerClick`: the node holds and answers only what a click sent, each
  request once, and a thread of the download panel shows the response to its own
  request (`ResponsesAreOfClicks`; TLC has checked it on the sessions of the run,
  and it stands in no configuration). It rests on the clicks being numbered and
  on the lost requests of a node that went away not coming back.

The assumptions used are those named in the modules (`EngineAssumption`,
`ServiceAssumption`, `NodeAssumption`, `RecorderAssumption`, `ConfigAssumption`,
`DataPathAssumption`, `InstructionsAssumption`, `MaxDownloadsAssumption`,
`ServicePanelAssumption`, `FaultTopicsAssumption`, `HeaderTopicsAssumption`,
`RVizPanelsAssumption`): sizes are natural numbers, configured ids are not the 0
of an empty slot, a request of a service that takes no lists has one entry, and
the texts of the empty entries are not names of topics or models. TLC evaluates
them in the runs.

Out of the prover's reach, and so left to TLC: liveness under fairness (the
liveness conjuncts of `OneUpdate` and `RadarServices`, `RequestsAreAnswered`,
`ShutdownCompletes`, `QtComesBack`, `ButtonComesBack`, `ListFollowsGraph`) and
`ENABLED`. `ImplementsOneUpdate` and `ImplementsRadarServices` are proved up to
that conjunct; `ImplementsRecording` and `ImplementsInstructionServices` have
none. The modules have no recursion over data.

## 5 Disagreements between the code and its texts

Each of these is a run that TLC ends with a counterexample, and an entry under
"findings" in `PROJECT.json`.

| Run | The text | The code |
|---|---|---|
| `RVizPanelsClosed` | "a thread-safe, non-blocking architecture" (`CHANGELOG.md:130`) | the thread detached for a download keeps a pointer to the panel; the destructor does not wait for it, and it uses the panel when the answer comes (`smart_download.cpp:109`) |
| `RadarConfigAllSlots` | "As many as 10 sensors" | ten sensors are counted as none, the node does not start |
| `DataPathExample` | "Successfully created CAN publishers" | none was created: null dereference with the first list |
| `InstructionsUnlisted` | "Sensor ID entered is not listed in the param file" | id 0, that of the unused slots, passes |

Others met while modelling, which the modules reproduce and no run singles out
(the line numbers are those of `smartmicro_radar_node.cpp` and
`update_service.cpp`):

- The same line of the change log promises "preventing RViz UI freezes during
  sensor updates". A call of the service panel waits on Qt's thread, without a
  timeout, for a node whose one thread is in the download: RViz is frozen until
  the download ends, up to five minutes, and for ever if the node goes away
  meanwhile (`smart_services.cpp:516`; `Frozen`, in `QtComesBack`). The text
  "Service timed out!" (line 527) is therefore never shown.
- "Firmware download rejected: another update is already in progress."
  (`smartmicro_radar_node.cpp:1363`) is never said: the executor has one thread
  (`NeverBusy`).
- A sensor id that is not a number ends RViz: `std::stoi` throws out of a slot
  (`smart_services.cpp:512`, `604`).
- A download panel closed before its thread spins blocks Qt's thread for ever:
  `cancel()` comes too early (`smart_download.cpp:17`; `Stuck`, in `QtComesBack`).
- `on_shutdown_callback` is bound to a plain pointer
  (`smartmicro_radar_node.cpp:324`) and runs while main may destroy the node;
    so are the data callbacks and the handlers of responses (lines 488, 1529 and
  others), which nothing takes back from the library. `FaultHasCause` and
  `HandlersFindServices` name the moments in which that matters.
- "Save or discard the completed recording" (`smart_recorder.cpp:630`): if the
  disk is full the rows are dropped although they were not written
  (`smart_recorder.cpp:801`), because nobody looks at the state of the stream.
    `RowsLeaveByChoice` names the exception.
- A `uint32` value is cast without a check (`smartmicro_radar_node.cpp:1468`):
  4294967296 is set as 0 and -1 as 4294967295, where "Value is out of range for
  the specified type" would be the answer. `NumbersArrive` names the exception.
- The error text of `get_radar_mode` (line 1833) names "0(u32), 1(u16), 2(u8) or
  3(float)"; the switch takes 0 as float, 1 as u32, 2 as u16 and 3 as u8
  (`ParamTypes`).
- `ip_address` answers "IP change executed successfully." (line 1593) when the
  batch was taken by the library; the sensor's response comes later and reaches
  no client.
- `std::ofstream` is not checked (lines 6182, 6200, 6225): a launch that cannot
  write a file starts with what an earlier one left there, or with nothing.
  `LibraryMatchesParameters` names the exception.
- `setenv` is called with `override = false` (line 319): with the variable set, the
  parameters do not reach the library.
- The signal invalidates the context before it calls anybody, so a callback that
  is between a cloud and its header loses the header silently (line 2218).
  `HeadersFollowClouds` names the exception.
- `std::stof` rounds (line 1457): 16777217 is set as 16777216 and reported as
  success. `NumbersArrive` names the exception.
- If the library may report RUNNING with every byte sent
  (`update_service.cpp:103` expects it), such a report ends the wait while the
  download goes on, and the next request starts a second one; an empty image
  (lines 52 to 61 admit one) does so at once. If `AbortSoftwareUpdate` fails (line
  109 does not look at its result), "timed out and aborted" is told of a download
  that runs on. If a report of a download may come after its abort (line 130), it
  answers the next request. These are the exceptions of `DownloadEndsWithRequest`,
  `SuccessIsOwn`, `NoDownloadLeft` and `SuccessIsTold`; under `Contract` there are
  none (`ContractLeavesNoException`).

## 6 What is not covered

- Two nodes that share the files: nothing in the code keeps them apart (no lock,
  no file per node), so there is nothing to state that could hold; the model of the
  configuration has one process at a time.
- Exceptions of the library, which declares none. If `SoftwareUpdate` threw
  (`update_service.cpp:81`), the busy flag would stay set.
- An image that changes while it is read.
- A process that is killed (SIGKILL, a crash) while it waits for a download: it
  leaves the sensor as it is. `ros2 launch` kills a process that does not end some
  seconds after the signal, long before the five minutes; `NoDownloadLeft` is about
  a process that is left to end by itself.
- What the library does with a truncated file, beyond coming up or not, and what
  the files hold that the environment may name.
- The handlers of the instruction services inside `RadarNode` are one step each;
  their own interleavings with responses are in `Instructions`.
- Three or more panels at a time: their product is out of reach, and the proofs,
  which are for any session, cover the safety properties.
- Panels other than the one for downloads are not closed in the model: they have
  no thread of their own.
- The fields of messages, point clouds, the drawing of tables, wording.
- `browse_file`, layouts and the cells of tables in the panels.
- The simulator, the CAN sender, the messages, the vendored headers, launch and
  parameter files: data or stand-alone tools.

## 7 Plan

Done: the firmware update with its abstract specification and proofs; the
recorder, the configuration, the data path and the instruction services, each
with its proofs; the node as a process with the abstract specification its
clients rely on; and the four remaining panels, composed with the node; all of
them with proofs.

Every safety invariant and action property that a run checks is now also a
theorem, and each of the four abstract specifications is refined by proof as well
as by TLC. What could follow: an abstract specification of the data path (a list
received is published or the node is shutting down), and one of the
configuration as a whole (the files as a function of the launches).
