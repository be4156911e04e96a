------------------------------ MODULE MCDataPath ------------------------------
(* Configurations for the runs of DataPath.                                  *)
EXTENDS DataPath, TLC

EveryModel == KnownModels \cup {"umrr9d_can"}

\* With and without objects and fault reports, on either link, and one that is not known
\* (it is in radar.sensor.example.yaml).
SomeModels == {"umrra4_mse_v3_0_0", "umrr9f_v2_1_1", "umrr9f_can_mse_v2_0_0",
               "umrr9f_can_v2_1_1", "umrr9d_can"}

\* Two sensors of some models, which may have the same id.
Pairs == [Index -> [id : SensorIds, link_type : {"eth", "can"}, model : SomeModels,
                    pub_type : PubTypes]]

\* A sensor of any model, and one that is skipped.
Skipped == [id |-> 200, link_type |-> "usb", model |-> "umrr9d_can", pub_type |-> "target"]

Singles == {[i \in Index |-> IF i = 0 THEN sensor ELSE Skipped] :
               sensor \in [id : {100}, link_type : LinkTypes, model : Models,
                           pub_type : PubTypes]}

PairsAndSingles == Pairs \cup Singles

\* sensor_1 of radar.sensor.example.yaml, which has no publish type.
Example == {[i \in Index |-> [id |-> 600, link_type |-> "can", model |-> "umrr9f_can_v2_1_1",
                             pub_type |-> ""]]}

ThreadSymmetry == Permutations(Threads)
=============================================================================
