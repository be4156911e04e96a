------------------------------ MODULE Recording ------------------------------
(***************************************************************************)
(* What the user of the recorder may expect, without its buttons, dialogs   *)
(* and lists: a recording holds what its topic publishes from Record to     *)
(* Stop, and it is kept until it is saved or discarded.  Recorder           *)
(* implements this.                                                         *)
(***************************************************************************)
EXTENDS Naturals, Sequences

CONSTANTS Topics,            \* the topics that publish point clouds
          RadarTopics,       \* those that may be recorded
          NoTopic,           \* the topic of no recording
          MaxPoints,         \* bound of the model: points of a cloud
          Points(_, _, _),   \* the points of a cloud: its topic, its size, its number
          WritesFail         \* may a disk be full?

VARIABLES topic,      \* the topic of the recording, or NoTopic if there is none
          points,     \* what was recorded
          complete,   \* was the recording stopped?
          clouds,     \* how many point clouds were published
          saved       \* what the file written last holds

recVars == <<topic, points, complete, clouds, saved>>

RecInit ==
    /\ topic = NoTopic
    /\ points = <<>>
    /\ complete = FALSE
    /\ clouds = 0
    /\ saved = <<>>

Record(t) ==
    /\ topic = NoTopic
    /\ topic' = t
    /\ UNCHANGED <<points, complete, clouds, saved>>

\* A cloud is recorded if its topic is, whatever dialog is open.
Publish(t, n) ==
    /\ clouds' = clouds + 1
    /\ points' = IF t = topic /\ ~complete THEN points \o Points(t, n, clouds') ELSE points
    /\ UNCHANGED <<topic, complete, saved>>

\* The recording is over, and the next one starts with nothing of it.
Forget ==
    /\ topic' = NoTopic
    /\ points' = <<>>
    /\ complete' = FALSE

\* Nothing is lost with a recording that holds nothing.
StopEmpty ==
    /\ topic # NoTopic
    /\ points = <<>>
    /\ Forget
    /\ UNCHANGED <<clouds, saved>>

Stop ==
    /\ topic # NoTopic
    /\ points # <<>>
    /\ ~complete
    /\ complete' = TRUE
    /\ UNCHANGED <<topic, points, clouds, saved>>

Discard ==
    /\ complete
    /\ Forget
    /\ UNCHANGED <<clouds, saved>>

\* The whole recording is in the file, or what a full disk left of it.
Save ==
    /\ complete
    /\ Forget
    /\ \/ saved' = points
       \/ WritesFail /\ \E n \in 0..Len(points) - 1 : saved' = SubSeq(points, 1, n)
    /\ UNCHANGED clouds

RecNext ==
    \/ \E t \in RadarTopics : Record(t)
    \/ \E t \in Topics, n \in 0..MaxPoints : Publish(t, n)
    \/ StopEmpty
    \/ Stop
    \/ Discard
    \/ Save

RecSpec == RecInit /\ [][RecNext]_recVars
=============================================================================
