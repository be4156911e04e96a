---------------------------- MODULE RecorderProofs ----------------------------
(***************************************************************************)
(* Proofs about the recorder, for every set of topics and every number and *)
(* size of the point clouds received.                                      *)
(***************************************************************************)
EXTENDS Recorder, SequenceTheorems, TLAPS

\* A cloud's points, stamped with a number of a cloud, are rows.
LEMMA PointsTyped ==
    ASSUME NEW topic \in Topics, NEW n \in Nat, NEW stamp \in 1..MaxClouds
    PROVE  Points(topic, n, stamp) \in Seq(Row)
  <1>1. [topic |-> topic, stamp |-> stamp] \in Row
    BY DEF Row
  <1>2. [i \in 1..n |-> [topic |-> topic, stamp |-> stamp]] \in Seq(Row)
    BY <1>1
  <1>3. QED
    BY <1>2 DEF Points

\* Rows that were appended to leave the earlier ones where they are.
LEMMA AppendedKeeps ==
    ASSUME NEW S, NEW s \in Seq(S), NEW t \in Seq(S)
    PROVE  /\ Len(s \o t) >= Len(s)
           /\ SubSeq(s \o t, 1, Len(s)) = s
  <1>1. Len(s) \in Nat /\ Len(t) \in Nat
    BY LenProperties
  <1>2. Len(s \o t) >= Len(s)
    BY <1>1, ConcatProperties
  <1>3. CASE Len(s) = 0
    <2>1. s = <<>>
      BY <1>3, EmptySeq
    <2>2. SubSeq(s \o t, 1, Len(s)) = <<>>
      BY <1>3, <1>1, SubSeqEmpty
    <2>3. QED
      BY <2>1, <2>2, <1>2
  <1>4. CASE Len(s) # 0
    <2>1. SubSeq(s \o t, 1, Len(s)) = SubSeq(s, 1, Len(s))
      BY <1>1, <1>4, SubSeqOfConcat1
    <2>2. QED
      BY <2>1, <1>2, SubSeqFull
  <1>5. QED
    BY <1>3, <1>4

\* The rows are empty exactly if both lists are.
LEMMA RowsEmpty ==
    ASSUME TypeOK
    PROVE  Rows = <<>> <=> target_recorded_data = <<>> /\ object_recorded_data = <<>>
  BY ConcatEqualIffEmpty DEF TypeOK, Rows

\* While there is a recording the rows are what its topic published.
LEMMA RowsAreHeard ==
    ASSUME IInv, recording_active_ \/ pending_save_
    PROVE  Rows = heard
  BY ConcatEmptySeq DEF IInv, TypeOK, RecordingIsWhole, Rows

-----------------------------------------------------------------------------
(* The inductive invariant.                                                 *)

\* A panel just created is ready and holds nothing.
LEMMA InitInv == Init => IInv
  <1> SUFFICES ASSUME Init PROVE IInv
    OBVIOUS
  <1>1. TypeOK
    <2>1. <<>> \in Seq(Row)
      BY EmptySeq
    <2>2. 0 \in 0..MaxClouds
      BY RecorderAssumption
    <2>3. {"start", "dropdown"} \subseteq Controls
      BY DEF Controls
    <2>4. QED
      BY <2>1, <2>2, <2>3 DEF Init, TypeOK
  <1>2. Rows = <<>>
    BY <1>1, RowsEmpty DEF Init
  <1>3. QED
    BY <1>1, <1>2 DEF Init, IInv, ControlsFit, RowsMeanRecording, RecordedIsSelected,
                      RecordingIsWhole

\* Selecting another topic: only a ready panel lets the user do it.
LEMMA SelectTopicInv ==
    ASSUME IInv, NEW topic \in Topics \cup {NoTopic}, SelectTopic(topic)
    PROVE  IInv'
  <1> USE DEF SelectTopic, flagVars, dataVars
  <1>1. ~recording_active_
    BY DEF IInv, ControlsFit, Click
  <1>2. Rows' = Rows
    BY DEF Rows
  <1>3. TypeOK'
    BY DEF IInv, TypeOK
  <1>4. QED
    BY <1>1, <1>2, <1>3 DEF IInv, ControlsFit, RowsMeanRecording, RecordedIsSelected,
                            RecordingIsWhole

\* Record: the panel was ready, so the rows and what was heard start empty.
LEMMA StartRecordingInv ==
    ASSUME IInv, StartRecording
    PROVE  IInv'
  <1> USE DEF StartRecording, dataVars
  <1>1. /\ ~recording_active_ /\ ~pending_save_
        /\ enabled = {"start", "dropdown"}
        /\ dialog = "none"
    BY DEF IInv, ControlsFit, Click
  <1>2. /\ Rows = <<>>
        /\ target_recorded_data = <<>>
        /\ object_recorded_data = <<>>
    BY <1>1, RowsEmpty DEF IInv, RowsMeanRecording
  <1>3. Rows' = Rows
    BY DEF Rows
  <1>4. CASE dropdown \in RadarTopics
    <2>1. enabled' = {"stop"}
      BY <1>1, <1>4
    <2>2. TypeOK'
      BY <1>4, <2>1, RecorderAssumption, EmptySeq DEF IInv, TypeOK, Controls
    <2>3. QED
      BY <1>1, <1>2, <1>3, <1>4, <2>1, <2>2
      DEF IInv, ControlsFit, RowsMeanRecording, RecordedIsSelected, RecordingIsWhole
  <1>5. CASE dropdown \notin RadarTopics
    <2>1. TypeOK'
      BY <1>5 DEF IInv, TypeOK
    <2>2. QED
      BY <1>1, <1>2, <1>3, <1>5, <2>1
      DEF IInv, ControlsFit, RowsMeanRecording, RecordedIsSelected, RecordingIsWhole
  <1>6. QED
    BY <1>4, <1>5

\* A recording that ends as a ready panel, with nothing left of it.
LEMMA ReadyInv ==
    ASSUME IInv, ReturnToReadyState, pending_save_ \/ recording_active_,
           recording_active_' = FALSE, dialog' = "none",
           target_recorded_data' = <<>>, object_recorded_data' = <<>>,
           saved' \in Seq(Row), torn' \in BOOLEAN,
           UNCHANGED <<dropdown, selected_topic_, clouds, heard>>
    PROVE  IInv'
  <1> USE DEF ReturnToReadyState
  <1>1. enabled \in {{"stop"}, {"stop", "save"}}
    BY DEF IInv, ControlsFit
  <1>2. enabled' = {"start", "dropdown"}
    BY <1>1
  <1>3. TypeOK'
    BY <1>2, EmptySeq DEF IInv, TypeOK, Controls
  <1>4. Rows' = <<>>
    BY EmptySeq, ConcatEmptySeq DEF Rows
  <1>5. QED
    BY <1>2, <1>3, <1>4
    DEF IInv, ControlsFit, RowsMeanRecording, RecordedIsSelected, RecordingIsWhole

\* Stop Recording: an empty recording is forgotten, another one becomes pending.
LEMMA StopRecordingInv ==
    ASSUME IInv, StopRecording
    PROVE  IInv'
  <1> USE DEF StopRecording, dataVars
  <1>1. /\ recording_active_ /\ ~pending_save_ /\ dialog = "none"
        /\ enabled = {"stop"}
    BY DEF IInv, ControlsFit, Click
  <1>2. Rows' = Rows
    BY DEF Rows
  <1>3. CASE Rows = <<>>
    <2>1. target_recorded_data' = <<>> /\ object_recorded_data' = <<>>
      BY <1>3, RowsEmpty DEF IInv
    <2>2. QED
      BY <1>1, <1>3, <2>1, ReadyInv DEF IInv, TypeOK
  <1>4. CASE Rows # <<>>
    <2>1. enabled' = {"stop", "save"}
      BY <1>1, <1>4
    <2>2. TypeOK'
      BY <1>4, <2>1 DEF IInv, TypeOK, Controls
    <2>3. QED
      BY <1>1, <1>2, <1>4, <2>1, <2>2
      DEF IInv, ControlsFit, RowsMeanRecording, RecordedIsSelected, RecordingIsWhole
  <1>5. QED
    BY <1>3, <1>4

\* The steps that only open or close a dialog: the recording is pending throughout.
LEMMA DialogInv ==
    ASSUME IInv, dialog' \in {"none", "prompt", "file"}, dialog' # "none" => pending_save_,
           UNCHANGED <<dropdown, selected_topic_, flagVars, dataVars, clouds, heard, saved, torn>>
    PROVE  IInv'
  <1> USE DEF flagVars, dataVars
  <1>1. TypeOK'
    BY DEF IInv, TypeOK
  <1>2. Rows' = Rows
    BY DEF Rows
  <1>3. QED
    BY <1>1, <1>2 DEF IInv, ControlsFit, RowsMeanRecording, RecordedIsSelected,
                      RecordingIsWhole

\* Save: a recording that can be saved is pending.
LEMMA SaveDataInv ==
    ASSUME IInv, SaveData
    PROVE  IInv'
  <1>1. pending_save_
    BY DEF IInv, ControlsFit, SaveData, Click
  <1>2. QED
    BY <1>1, DialogInv DEF SaveData

\* Discard drops the rows and gets the panel ready.
LEMMA DiscardInv ==
    ASSUME IInv, Discard
    PROVE  IInv'
  <1>1. pending_save_ /\ ~recording_active_
    BY DEF IInv, ControlsFit, Discard
  <1>2. saved' \in Seq(Row)
    BY DEF IInv, TypeOK, Discard
  <1>3. QED
    BY <1>1, <1>2, ReadyInv DEF Discard, ClearRecordedData, IInv, TypeOK

\* What the file holds after a write is a sequence of rows.
LEMMA WrittenTyped ==
    ASSUME IInv, WriteFile
    PROVE  saved' \in Seq(Row)
  <1>1. Rows \in Seq(Row)
    BY ConcatProperties DEF IInv, TypeOK, Rows
  <1>2. ASSUME NEW n \in 0..Len(Rows) - 1, saved' = SubSeq(Rows, 1, n)
        PROVE  saved' \in Seq(Row)
    <2>1. Len(Rows) \in Nat
      BY <1>1, LenProperties
    <2>2. \A i \in 1..n : Rows[i] \in Row
      BY <1>1, <2>1, ElementOfSeq
    <2>3. QED
      BY <1>2, <2>1, <2>2, SubSeqProperties
  <1>3. QED
    BY <1>1, <1>2 DEF WriteFile

\* Writing the file does the same once the rows are in it.
LEMMA WriteFileInv ==
    ASSUME IInv, WriteFile
    PROVE  IInv'
  <1>1. pending_save_ /\ ~recording_active_
    BY DEF IInv, ControlsFit, WriteFile
  <1>2. QED
    BY <1>1, WrittenTyped, ReadyInv DEF WriteFile, ClearRecordedData, IInv, TypeOK

\* A cloud: while a topic is recorded it is the one selected, so each of its clouds goes
\* to the list of its kind and to what was heard, and those of other topics to neither.
LEMMA CloudReceivedInv ==
    ASSUME IInv, NEW topic \in Topics, NEW n \in 0..MaxPoints, CloudReceived(topic, n)
    PROVE  IInv'
  <1> USE DEF CloudReceived, flagVars, dataVars
  <1> DEFINE points == Points(topic, n, clouds + 1)
  <1>1. points \in Seq(Row)
    <2>1. clouds + 1 \in 1..MaxClouds
      BY RecorderAssumption DEF IInv, TypeOK
    <2>2. QED
      BY <2>1, PointsTyped, RecorderAssumption
  <1>2. CASE recording_active_ /\ topic = recording_topic_
    <2>1. topic = selected_topic_ /\ topic # NoTopic /\ ~pending_save_
      BY <1>2, RecorderAssumption DEF IInv, RecordedIsSelected, ControlsFit
    <2>2. heard' = heard \o points
      BY <1>2
    <2>3. CASE topic \in TargetTopics
      <3>1. /\ target_recorded_data' = target_recorded_data \o points
            /\ object_recorded_data' = object_recorded_data
        BY <1>2, <2>1, <2>3
      <3>2. TypeOK'
        BY <1>1, <2>2, <3>1, ConcatProperties, RecorderAssumption DEF IInv, TypeOK
      <3>3. RecordingIsWhole'
        BY <1>2, <2>2, <2>3, <3>1 DEF IInv, RecordingIsWhole
      <3>4. QED
        BY <1>2, <2>1, <3>2, <3>3
        DEF IInv, ControlsFit, RowsMeanRecording, RecordedIsSelected
    <2>4. CASE topic \notin TargetTopics
      <3>1. /\ object_recorded_data' = object_recorded_data \o points
            /\ target_recorded_data' = target_recorded_data
        BY <1>2, <2>1, <2>4
      <3>2. TypeOK'
        BY <1>1, <2>2, <3>1, ConcatProperties, RecorderAssumption DEF IInv, TypeOK
      <3>3. RecordingIsWhole'
        BY <1>2, <2>2, <2>4, <3>1 DEF IInv, RecordingIsWhole
      <3>4. QED
        BY <1>2, <2>1, <3>2, <3>3
        DEF IInv, ControlsFit, RowsMeanRecording, RecordedIsSelected
    <2>5. QED
      BY <2>3, <2>4
  <1>3. CASE ~(recording_active_ /\ topic = recording_topic_)
    <2>1. UNCHANGED <<target_recorded_data, object_recorded_data, heard>>
      BY <1>3
    <2>2. Rows' = Rows
      BY <2>1 DEF Rows
    <2>3. clouds' \in 0..MaxClouds
      BY RecorderAssumption DEF IInv, TypeOK
    <2>4. UNCHANGED <<dropdown, selected_topic_, recording_topic_, recording_active_,
                      pending_save_, enabled, dialog, saved, torn>>
      OBVIOUS
    <2>5. TypeOK'
      BY <2>1, <2>3, <2>4 DEF IInv, TypeOK
    <2>6. QED
      BY <2>1, <2>2, <2>4, <2>5
      DEF IInv, ControlsFit, RowsMeanRecording, RecordedIsSelected, RecordingIsWhole
  <1>4. QED
    BY <1>2, <1>3

\* Every step of the panel preserves the invariant.
LEMMA NextInv == IInv /\ [Next]_vars => IInv'
  <1> SUFFICES ASSUME IInv, [Next]_vars PROVE IInv'
    OBVIOUS
  <1>1. ASSUME NEW topic \in Topics \cup {NoTopic}, SelectTopic(topic) PROVE IInv'
    BY <1>1, SelectTopicInv
  <1>2. CASE AskAgain
    BY <1>2, DialogInv DEF AskAgain
  <1>3. CASE CancelPrompt
    BY <1>3, DialogInv DEF CancelPrompt
  <1>4. CASE FileNotOpened
    BY <1>4, DialogInv DEF FileNotOpened
  <1>5. ASSUME NEW topic \in Topics, NEW n \in 0..MaxPoints, CloudReceived(topic, n)
        PROVE  IInv'
    BY <1>5, CloudReceivedInv
  <1>6. CASE UNCHANGED vars
    <2>1. Rows' = Rows
      BY <1>6 DEF vars, dataVars, Rows
    <2>2. QED
      BY <1>6, <2>1 DEF vars, flagVars, dataVars, IInv, TypeOK, ControlsFit, RowsMeanRecording,
                        RecordedIsSelected, RecordingIsWhole
  <1>7. QED
    BY <1>1, <1>2, <1>3, <1>4, <1>5, <1>6, StartRecordingInv, StopRecordingInv, SaveDataInv,
       DiscardInv, WriteFileInv DEF Next

-----------------------------------------------------------------------------

\* The inductive invariant holds in every behaviour of the panel.
THEOREM RecorderInvariance == Spec => []IInv
  BY InitInv, NextInv, PTL DEF Spec

\* A recording holds every point its topic published since Record was pressed, in order,
\* and nothing else, whatever arrives while dialogs are open.
THEOREM RecordingsAreWhole == Spec => []RecordingIsWhole
  <1>1. IInv => RecordingIsWhole
    BY DEF IInv
  <1>2. QED
    BY <1>1, RecorderInvariance, PTL

\* No recording starts with the rows of another one, and none that is complete is empty.
THEOREM ReadyPanelIsEmpty == Spec => []RowsMeanRecording
  <1>1. IInv => RowsMeanRecording
    BY DEF IInv
  <1>2. QED
    BY <1>1, RecorderInvariance, PTL

\* The flags and the controls agree.
THEOREM ControlsAgree == Spec => []ControlsFit
  <1>1. IInv => ControlsFit
    BY DEF IInv
  <1>2. QED
    BY <1>1, RecorderInvariance, PTL

\* A step that leaves the recorded lists alone keeps the rows.
LEMMA UnchangedKeeps ==
    ASSUME TypeOK, UNCHANGED dataVars
    PROVE  Len(Rows') >= Len(Rows) /\ SubSeq(Rows', 1, Len(Rows)) = Rows
  <1>1. Rows' = Rows
    BY DEF Rows, dataVars
  <1>2. Rows \in Seq(Row)
    BY ConcatProperties DEF TypeOK, Rows
  <1>3. QED
    BY <1>1, <1>2, LenProperties, SubSeqFull

\* A cloud only appends rows: those of the other kind are none.
LEMMA CloudKeeps ==
    ASSUME IInv, NEW topic \in Topics, NEW n \in 0..MaxPoints, CloudReceived(topic, n)
    PROVE  Len(Rows') >= Len(Rows) /\ SubSeq(Rows', 1, Len(Rows)) = Rows
  <1> DEFINE points == Points(topic, n, clouds + 1)
  <1>1. CASE UNCHANGED dataVars
    BY <1>1, UnchangedKeeps DEF IInv
  <1>2. CASE ~UNCHANGED dataVars
    <2>1. recording_active_ /\ recording_active_' /\ Rows = heard
      BY <1>2, RowsAreHeard DEF CloudReceived, flagVars
    <2>2. heard' = heard \o points
      BY <1>2 DEF CloudReceived
    <2>3. Rows' = heard'
      BY <2>1, CloudReceivedInv, ConcatEmptySeq DEF IInv, TypeOK, RecordingIsWhole, Rows
    <2>4. points \in Seq(Row) /\ heard \in Seq(Row)
      BY RecorderAssumption, PointsTyped DEF IInv, TypeOK, CloudReceived
    <2>5. QED
      BY <2>1, <2>2, <2>3, <2>4, AppendedKeeps
  <1>3. QED
    BY <1>1, <1>2

\* Rows leave only with a file that holds the whole recording, because the user chose
\* Discard, or with a write that failed before its end.
THEOREM NoRowIsLost == Spec => RowsLeaveByChoice
  <1> DEFINE Kept == Len(Rows') >= Len(Rows) /\ SubSeq(Rows', 1, Len(Rows)) = Rows
             Part == \E n \in 0..Len(heard) - 1 : saved' = SubSeq(heard, 1, n)
             Written == dialog = "file" /\ IF torn' THEN Part ELSE saved' = heard
             Dropped == dialog = "prompt" /\ dialog' = "none" /\ Rows' = <<>>
  <1>1. IInv /\ [Next]_vars => [Kept \/ Written \/ Dropped]_vars
    <2> SUFFICES ASSUME IInv, Next PROVE Kept \/ Written \/ Dropped
      OBVIOUS
    <2>1. CASE UNCHANGED dataVars
      BY <2>1, UnchangedKeeps DEF IInv
    <2>2. CASE WriteFile
      <3>1. dialog = "file" /\ Rows = heard
        BY <2>2, RowsAreHeard DEF WriteFile, IInv, ControlsFit
      <3>2. \/ saved' = heard /\ torn' = FALSE
            \/ torn' = TRUE /\ Part
        BY <2>2, <3>1 DEF WriteFile
      <3>3. QED
        BY <3>1, <3>2
    <2>3. CASE Discard
      <3>1. Rows' = <<>>
        BY <2>3, EmptySeq, ConcatEmptySeq DEF Discard, ClearRecordedData, Rows
      <3>2. QED
        BY <2>3, <3>1 DEF Discard
    <2>4. ASSUME NEW topic \in Topics, NEW n \in 0..MaxPoints, CloudReceived(topic, n)
          PROVE  Kept
      BY <2>4, CloudKeeps
    <2>5. QED
      BY <2>1, <2>2, <2>3, <2>4
      DEF Next, SelectTopic, StartRecording, StopRecording, AskAgain, SaveData, CancelPrompt,
          FileNotOpened
  <1>2. QED
    BY <1>1, RecorderInvariance, PTL DEF Spec, RowsLeaveByChoice
-----------------------------------------------------------------------------
(* The panel implements Recording.                                          *)

\* Steps that touch neither the recording nor the file are invisible.
LEMMA InvisibleRefines ==
  ASSUME UNCHANGED <<recording_topic_, pending_save_, dataVars, clouds, saved>>
  PROVE  UNCHANGED Abstract!recVars
  BY DEF dataVars, Rows, Abstract!recVars

\* A ready panel has no recording, and nothing of one.
LEMMA StartRecordingRefines ==
    ASSUME IInv, StartRecording
    PROVE  Abstract!RecNext \/ UNCHANGED Abstract!recVars
  <1>1. UNCHANGED <<pending_save_, dataVars, clouds, saved>>
    BY DEF StartRecording
  <1>2. CASE dropdown \in RadarTopics
    <2>1. recording_topic_ = NoTopic /\ recording_topic_' = dropdown
      BY <1>2 DEF StartRecording, Click, IInv, ControlsFit, RowsMeanRecording
    <2>2. Abstract!Record(dropdown)
      BY <1>1, <2>1 DEF dataVars, Rows, Abstract!Record
    <2>3. QED
      BY <1>2, <2>2 DEF Abstract!RecNext
  <1>3. CASE dropdown \notin RadarTopics
    BY <1>1, <1>3, InvisibleRefines DEF StartRecording
  <1>4. QED
    BY <1>2, <1>3

\* An active recording is forgotten if it is empty, and complete otherwise.
LEMMA StopRecordingRefines ==
    ASSUME IInv, StopRecording
    PROVE  Abstract!RecNext
  <1>1. /\ ~pending_save_ /\ Rows' = Rows
        /\ recording_topic_ # NoTopic
        /\ UNCHANGED <<clouds, saved>>
    BY RecorderAssumption DEF StopRecording, dataVars, Rows, IInv, RecordedIsSelected
  <1>2. CASE Rows = <<>>
    <2>1. recording_topic_' = NoTopic /\ pending_save_' = FALSE
      BY <1>2 DEF StopRecording, ReturnToReadyState
    <2>2. Abstract!StopEmpty
      BY <1>1, <1>2, <2>1 DEF Abstract!StopEmpty, Abstract!Forget
    <2>3. QED
      BY <2>2 DEF Abstract!RecNext
  <1>3. CASE Rows # <<>>
    <2>1. pending_save_' = TRUE /\ UNCHANGED recording_topic_
      BY <1>3 DEF StopRecording
    <2>2. Abstract!Stop
      BY <1>1, <1>3, <2>1 DEF Abstract!Stop
    <2>3. QED
      BY <2>2 DEF Abstract!RecNext
  <1>4. QED
    BY <1>2, <1>3

\* Discarding or writing the rows leaves a panel without a recording.
LEMMA ForgetRefines ==
    ASSUME IInv, dialog # "none", ClearRecordedData, ReturnToReadyState
    PROVE  pending_save_ /\ Abstract!Forget
  <1>1. pending_save_
    BY DEF IInv, ControlsFit
  <1>2. Rows' = <<>>
    BY EmptySeq, ConcatEmptySeq DEF ClearRecordedData, Rows
  <1>3. QED
    BY <1>1, <1>2 DEF ReturnToReadyState, Abstract!Forget

LEMMA DiscardRefines ==
    ASSUME IInv, Discard
    PROVE  Abstract!RecNext
  <1>1. pending_save_ /\ Abstract!Forget /\ UNCHANGED <<clouds, saved>>
    BY ForgetRefines DEF Discard
  <1>2. QED
    BY <1>1 DEF Abstract!Discard, Abstract!RecNext

LEMMA WriteFileRefines ==
    ASSUME IInv, WriteFile
    PROVE  Abstract!RecNext
  <1>1. pending_save_ /\ Abstract!Forget /\ UNCHANGED clouds
    BY ForgetRefines DEF WriteFile
  <1>2. \/ saved' = Rows
        \/ WritesFail /\ \E n \in 0..Len(Rows) - 1 : saved' = SubSeq(Rows, 1, n)
    BY DEF WriteFile
  <1>3. Abstract!Save
    BY <1>1, <1>2 DEF Abstract!Save
  <1>4. QED
    BY <1>3 DEF Abstract!RecNext

\* A cloud of the topic that is recorded is appended to the rows, another is not: the topic
\* is the selected one, and the rows of the other kind are none.
LEMMA CloudReceivedRefines ==
    ASSUME IInv, NEW topic \in Topics, NEW n \in 0..MaxPoints, CloudReceived(topic, n)
    PROVE  Abstract!RecNext
  <1> DEFINE new == Points(topic, n, clouds + 1)
  <1>1. /\ clouds' = clouds + 1
        /\ UNCHANGED <<recording_topic_, recording_active_, pending_save_, saved>>
    BY DEF CloudReceived, flagVars
  <1>2. topic # NoTopic
    BY RecorderAssumption
  <1>3. recording_active_ /\ topic = recording_topic_ <=>
           topic = recording_topic_ /\ ~pending_save_
    BY <1>2 DEF IInv, ControlsFit, RowsMeanRecording
  <1>4. CASE recording_active_ /\ topic = recording_topic_
    <2>1. heard' = heard \o new
      BY <1>4 DEF CloudReceived
    <2>2. Rows = heard
      BY <1>4, RowsAreHeard
    <2>3. Rows' = heard'
      BY <1>1, <1>4, CloudReceivedInv, ConcatEmptySeq
      DEF IInv, TypeOK, RecordingIsWhole, Rows
    <2>4. Rows' = Rows \o new
      BY <2>1, <2>2, <2>3
    <2>5. Abstract!Publish(topic, n)
      BY <1>1, <1>3, <1>4, <2>4 DEF Abstract!Publish
    <2>6. QED
      BY <2>5 DEF Abstract!RecNext
  <1>5. CASE ~(recording_active_ /\ topic = recording_topic_)
    <2>1. Rows' = Rows
      BY <1>5 DEF CloudReceived, dataVars, Rows
    <2>2. Abstract!Publish(topic, n)
      BY <1>1, <1>3, <1>5, <2>1 DEF Abstract!Publish
    <2>3. QED
      BY <2>2 DEF Abstract!RecNext
  <1>6. QED
    BY <1>4, <1>5

\* Buttons, dialogs and the two lists together are one recording: it starts empty, takes
\* every cloud of its topic while it is active and no other, and ends only by being saved,
\* whole unless writing fails, discarded, or empty.
THEOREM PanelIsARecording == Spec => ImplementsRecording
  <1>1. Init => Abstract!RecInit
    <2> SUFFICES ASSUME Init PROVE Abstract!RecInit
      OBVIOUS
    <2>1. Rows = <<>>
      BY EmptySeq, ConcatEmptySeq DEF Init, Rows
    <2>2. QED
      BY <2>1 DEF Init, Abstract!RecInit
  <1>2. IInv /\ [Next]_vars => [Abstract!RecNext]_Abstract!recVars
    <2> SUFFICES ASSUME IInv, [Next]_vars PROVE Abstract!RecNext \/ UNCHANGED Abstract!recVars
      OBVIOUS
    <2>1. ASSUME NEW topic \in Topics \cup {NoTopic}, SelectTopic(topic)
          PROVE  UNCHANGED Abstract!recVars
      BY <2>1, InvisibleRefines DEF SelectTopic, flagVars
    <2>2. ASSUME AskAgain \/ SaveData \/ CancelPrompt \/ FileNotOpened \/ UNCHANGED vars
          PROVE  UNCHANGED Abstract!recVars
      BY <2>2, InvisibleRefines
      DEF AskAgain, SaveData, CancelPrompt, FileNotOpened, vars, flagVars
    <2>3. ASSUME NEW topic \in Topics, NEW n \in 0..MaxPoints, CloudReceived(topic, n)
          PROVE  Abstract!RecNext
      BY <2>3, CloudReceivedRefines
    <2>4. QED
      BY <2>1, <2>2, <2>3, StartRecordingRefines, StopRecordingRefines, DiscardRefines,
         WriteFileRefines DEF Next
  <1>3. QED
    BY <1>1, <1>2, RecorderInvariance, PTL DEF Spec, ImplementsRecording, Abstract!RecSpec
=============================================================================
