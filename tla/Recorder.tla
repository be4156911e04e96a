------------------------------- MODULE Recorder -------------------------------
(***************************************************************************)
(* The RViz panel SmartRadarRecorder (smart_recorder.cpp): the user selects *)
(* a topic, records its point clouds, stops, and saves or discards what was *)
(* recorded.  Everything runs on the thread of the user interface.  A       *)
(* modal dialog runs an event loop of its own: the timer behind check_data  *)
(* keeps delivering point clouds while it is open, the controls are dead.   *)
(*                                                                         *)
(* A definition whose comment says "Variant" is not part of the             *)
(* specification: it is the operator that follows it with a mistake in it,  *)
(* kept to show which property notices the mistake.                         *)
(***************************************************************************)
EXTENDS Naturals, Sequences

CONSTANTS Topics,        \* the topics the dropdown lists
          RadarTopics,   \* those whose name contains "/smart_radar/"
          TargetTopics,  \* those that carry targets; the others carry objects
          NoTopic,       \* the entry "Select a Topic", and the empty string
          MaxClouds,     \* bound of the model: point clouds received
          MaxPoints,     \* bound of the model: points of a cloud
          WritesFail     \* may writing the file fail after it was opened?

ASSUME RecorderAssumption ==
    /\ RadarTopics \subseteq Topics
    /\ TargetTopics \subseteq Topics
    /\ NoTopic \notin Topics
    /\ MaxClouds \in Nat
    /\ MaxPoints \in Nat
    /\ WritesFail \in BOOLEAN

VARIABLES dropdown,              \* the entry topic_dropdown_ shows
          selected_topic_,
          recording_topic_,
          recording_active_,
          pending_save_,
          target_recorded_data,
          object_recorded_data,
          enabled,               \* the controls that accept a click
          dialog,                \* "none", or the modal dialog that is open
          clouds,                \* how many point clouds were received so far
          heard,                 \* history: the points published since Record was pressed
          saved,                 \* the points in the file written last
          torn                   \* history: did writing that file fail before its end?

flagVars == <<recording_topic_, recording_active_, pending_save_, enabled>>
dataVars == <<target_recorded_data, object_recorded_data>>
vars == <<dropdown, selected_topic_, flagVars, dataVars, dialog, clouds, heard, saved, torn>>

Controls == {"start", "stop", "save", "dropdown"}

\* TargetData or ObjectData: what identifies a recorded point.
Row == [topic : Topics, stamp : 1..MaxClouds]

\* The rows of a cloud of n points.
Points(topic, n, stamp) == [i \in 1..n |-> [topic |-> topic, stamp |-> stamp]]

\* What save_data writes: the targets, then the objects.
Rows == target_recorded_data \o object_recorded_data

-----------------------------------------------------------------------------

Init ==
    /\ dropdown = NoTopic
    /\ selected_topic_ = NoTopic
    /\ recording_topic_ = NoTopic
    /\ recording_active_ = FALSE
    /\ pending_save_ = FALSE
    /\ target_recorded_data = <<>>
    /\ object_recorded_data = <<>>
    /\ enabled = {"start", "dropdown"}
    /\ dialog = "none"
    /\ clouds = 0
    /\ heard = <<>>
    /\ saved = <<>>
    /\ torn = FALSE

Click(control) == dialog = "none" /\ control \in enabled

\* The user selects another entry: update_table.
SelectTopic(topic) ==
    /\ Click("dropdown")
    /\ topic # dropdown
    /\ dropdown' = topic
    /\ selected_topic_' = topic
    /\ UNCHANGED <<flagVars, dataVars, dialog, clouds, heard, saved, torn>>

\* Variant: another topic can be selected during the recording.
StartRecordingWithDropdown ==
    /\ Click("start")
    /\ ~pending_save_
    /\ selected_topic_' = dropdown
    /\ dropdown \in RadarTopics
    /\ recording_topic_' = dropdown
    /\ recording_active_' = TRUE
    /\ enabled' = {"stop", "dropdown"}
    /\ heard' = <<>>
    /\ UNCHANGED <<dropdown, pending_save_, dataVars, dialog, clouds, saved, torn>>

\* The button Record.
StartRecording ==
    /\ Click("start")
    /\ ~pending_save_
    /\ selected_topic_' = dropdown
    /\ IF dropdown \in RadarTopics
       THEN /\ recording_topic_' = dropdown
            /\ recording_active_' = TRUE
            /\ enabled' = (enabled \cup {"stop"}) \ {"start", "save", "dropdown"}
            /\ heard' = <<>>
       ELSE UNCHANGED <<recording_topic_, recording_active_, enabled, heard>>
    /\ UNCHANGED <<dropdown, pending_save_, dataVars, dialog, clouds, saved, torn>>

ClearRecordedData ==
    /\ target_recorded_data' = <<>>
    /\ object_recorded_data' = <<>>

ReturnToReadyState ==
    /\ pending_save_' = FALSE
    /\ recording_topic_' = NoTopic
    /\ enabled' = (enabled \cup {"start", "dropdown"}) \ {"stop", "save"}

\* Variant: the completed recording cannot be saved with the button.
StopRecordingWithoutSave ==
    /\ Click("stop")
    /\ recording_active_
    /\ recording_active_' = FALSE
    /\ IF Rows = <<>>
       THEN ReturnToReadyState /\ UNCHANGED dialog
       ELSE /\ pending_save_' = TRUE
            /\ dialog' = "prompt"
            /\ UNCHANGED <<recording_topic_, enabled>>
    /\ UNCHANGED <<dropdown, selected_topic_, dataVars, clouds, heard, saved, torn>>

\* The button Stop Recording while recording: an empty recording is forgotten, another
\* one becomes pending and stop_recording calls itself, which opens the prompt.
StopRecording ==
    /\ Click("stop")
    /\ ~pending_save_ /\ recording_active_
    /\ recording_active_' = FALSE
    /\ IF Rows = <<>>
       THEN ReturnToReadyState /\ UNCHANGED dialog
       ELSE /\ pending_save_' = TRUE
            /\ enabled' = enabled \cup {"save"}
            /\ dialog' = "prompt"
            /\ UNCHANGED recording_topic_
    /\ UNCHANGED <<dropdown, selected_topic_, dataVars, clouds, heard, saved, torn>>

\* The same button, now "Save or Discard...".
AskAgain ==
    /\ Click("stop")
    /\ pending_save_
    /\ dialog' = "prompt"
    /\ UNCHANGED <<dropdown, selected_topic_, flagVars, dataVars, clouds, heard, saved, torn>>

\* save_data, from the prompt or from its own button, up to the file dialog.
SaveData ==
    /\ \/ dialog = "prompt"
       \/ Click("save")
    /\ dialog' = IF Rows # <<>> THEN "file" ELSE "none"
    /\ UNCHANGED <<dropdown, selected_topic_, flagVars, dataVars, clouds, heard, saved, torn>>

\* Variant: the rows stay behind.
DiscardNothing ==
    /\ dialog = "prompt"
    /\ dialog' = "none"
    /\ ReturnToReadyState
    /\ UNCHANGED <<dropdown, selected_topic_, recording_active_, dataVars, clouds, heard, saved, torn>>

\* The user answers the prompt with Discard.
Discard ==
    /\ dialog = "prompt"
    /\ dialog' = "none"
    /\ ClearRecordedData
    /\ ReturnToReadyState
    /\ UNCHANGED <<dropdown, selected_topic_, recording_active_, clouds, heard, saved, torn>>

CancelPrompt ==
    /\ dialog = "prompt"
    /\ dialog' = "none"
    /\ UNCHANGED <<dropdown, selected_topic_, flagVars, dataVars, clouds, heard, saved, torn>>

\* Variant: the recording is given up although nothing was written.
FileNotOpenedButCleared ==
    /\ dialog = "file"
    /\ dialog' = "none"
    /\ ClearRecordedData
    /\ ReturnToReadyState
    /\ UNCHANGED <<dropdown, selected_topic_, recording_active_, clouds, heard, saved, torn>>

\* The file dialog was cancelled, or the file cannot be opened: nothing changes.
FileNotOpened ==
    /\ dialog = "file"
    /\ dialog' = "none"
    /\ UNCHANGED <<dropdown, selected_topic_, flagVars, dataVars, clouds, heard, saved, torn>>

\* The file was opened: the rows are written and dropped.  Nobody looks at the state of
\* the stream, so a full disk goes unnoticed.
WriteFile ==
    /\ dialog = "file"
    /\ dialog' = "none"
    /\ \/ saved' = Rows /\ torn' = FALSE
       \/ /\ WritesFail /\ torn' = TRUE
          /\ \E n \in 0..Len(Rows) - 1 : saved' = SubSeq(Rows, 1, n)
    /\ ClearRecordedData
    /\ ReturnToReadyState
    /\ UNCHANGED <<dropdown, selected_topic_, recording_active_, clouds, heard>>

\* check_data delivers a point cloud to its callback (port_ or can_, target_ or object_).
CloudReceived(topic, n) ==
    /\ clouds < MaxClouds
    /\ clouds' = clouds + 1
    /\ IF topic = selected_topic_ /\ recording_active_ /\ topic = recording_topic_
       THEN IF topic \in TargetTopics
            THEN /\ target_recorded_data' =
                        target_recorded_data \o Points(topic, n, clouds + 1)
                 /\ UNCHANGED object_recorded_data
            ELSE /\ object_recorded_data' =
                        object_recorded_data \o Points(topic, n, clouds + 1)
                 /\ UNCHANGED target_recorded_data
       ELSE UNCHANGED dataVars
    /\ heard' = IF recording_active_ /\ topic = recording_topic_
                THEN heard \o Points(topic, n, clouds + 1)
                ELSE heard
    /\ UNCHANGED <<dropdown, selected_topic_, flagVars, dialog, saved, torn>>

Next ==
    \/ \E topic \in Topics \cup {NoTopic} : SelectTopic(topic)
    \/ StartRecording
    \/ StopRecording
    \/ AskAgain
    \/ SaveData
    \/ Discard
    \/ CancelPrompt
    \/ FileNotOpened
    \/ WriteFile
    \/ \E topic \in Topics, n \in 0..MaxPoints : CloudReceived(topic, n)

Spec == Init /\ [][Next]_vars
-----------------------------------------------------------------------------

\* Every member of the panel keeps its type.
TypeOK ==
    /\ dropdown \in Topics \cup {NoTopic}
    /\ selected_topic_ \in Topics \cup {NoTopic}
    /\ recording_topic_ \in Topics \cup {NoTopic}
    /\ recording_active_ \in BOOLEAN
    /\ pending_save_ \in BOOLEAN
    /\ target_recorded_data \in Seq(Row)
    /\ object_recorded_data \in Seq(Row)
    /\ enabled \subseteq Controls
    /\ dialog \in {"none", "prompt", "file"}
    /\ clouds \in 0..MaxClouds
    /\ heard \in Seq(Row)
    /\ saved \in Seq(Row)
    /\ torn \in BOOLEAN

\* The flags and the controls agree: a completed recording can be saved, asked about and
\* not overwritten, an active one only stopped, and only a ready panel starts one.
ControlsFit ==
    /\ ~(recording_active_ /\ pending_save_)
    /\ enabled = IF recording_active_ THEN {"stop"}
                 ELSE IF pending_save_ THEN {"stop", "save"}
                 ELSE {"start", "dropdown"}
    /\ dialog # "none" => pending_save_

\* A ready panel holds no rows, so no recording starts with those of another one; a
\* completed recording holds at least one.
RowsMeanRecording ==
    /\ ~recording_active_ /\ ~pending_save_ => Rows = <<>> /\ recording_topic_ = NoTopic
    /\ pending_save_ => Rows # <<>>

\* The topic being recorded stays the one selected.
RecordedIsSelected ==
    recording_active_ => /\ recording_topic_ = selected_topic_
                         /\ selected_topic_ = dropdown
                         /\ recording_topic_ \in RadarTopics

\* The recording is whole: it holds every point its topic published since Record was
\* pressed, in order, and nothing else.
RecordingIsWhole ==
    recording_active_ \/ pending_save_ =>
        IF recording_topic_ \in TargetTopics
        THEN target_recorded_data = heard /\ object_recorded_data = <<>>
        ELSE object_recorded_data = heard /\ target_recorded_data = <<>>

\* The inductive invariant: a recording is whole because the dropdown is dead meanwhile.
IInv ==
    /\ TypeOK
    /\ ControlsFit
    /\ RowsMeanRecording
    /\ RecordedIsSelected
    /\ RecordingIsWhole

\* "Save or discard the completed recording": no step takes a row away unless the file
\* written by that step holds the whole recording, or the user chose Discard.  The one
\* exception is a write that fails: the rows are dropped all the same, and no more of them
\* is left than the first that reached the file.
RowsLeaveByChoice ==
    [][\/ Len(Rows') >= Len(Rows) /\ SubSeq(Rows', 1, Len(Rows)) = Rows
       \/ dialog = "file" /\ IF torn' THEN \E n \in 0..Len(heard) - 1 : saved' = SubSeq(heard, 1, n)
                                     ELSE saved' = heard
       \/ dialog = "prompt" /\ dialog' = "none" /\ Rows' = <<>>]_vars
-----------------------------------------------------------------------------
(* Buttons, dialogs and lists together are one recording.                   *)

Abstract == INSTANCE Recording WITH topic <- recording_topic_, points <- Rows,
                                    complete <- pending_save_

\* A recording starts empty, takes every cloud of its topic while it is active and no other,
\* whatever dialog is open, and ends only by being saved whole, discarded, or empty.
ImplementsRecording == Abstract!RecSpec
=============================================================================
