------------------------------ MODULE MCRecorder ------------------------------
(* Three topics: targets and objects of the radar, and one of another node.  *)
EXTENDS Recorder

MCTopics == {"port_targets_0", "can_objects_1", "other_port_targets"}
MCRadarTopics == {"port_targets_0", "can_objects_1"}
MCTargetTopics == {"port_targets_0", "other_port_targets"}
=============================================================================
