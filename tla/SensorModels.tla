----------------------------- MODULE SensorModels -----------------------------
(***************************************************************************)
(* The sensor models the driver knows, family by family, as the chains of   *)
(* "if (sensor.model == ...)" in port_publishers and can_publishers list    *)
(* them, with the lists their data callbacks publish.  A family stands for  *)
(* all its callbacks: they differ in the fields they copy only.             *)
(***************************************************************************)
EXTENDS FiniteSets

-----------------------------------------------------------------------------
(* Models connected over Ethernet.                                          *)

\* objectlist_callback and targetlist_callback: a cloud, then its header.
PortA4Mse == {"umrra4_mse_v3_0_0", "umrra4_mse_v2_1_0", "umrra4_mse_v1_0_0"}

\* The same two callbacks.
Port9fMse == {"umrr9f_mse_v2_0_0", "umrr9f_mse_v1_3_0", "umrr9f_mse_v1_1_0",
              "umrr9f_mse_v1_0_0"}

\* From here on targetlist_callback alone: a cloud of targets, then its header.
Port96And11 == {"umrr96_v1_2_2", "umrr11_v1_1_2"}

Port9f == {"umrr9f_v1_1_1", "umrr9f_v2_0_0", "umrr9f_v2_1_1", "umrr9f_v2_2_1",
           "umrr9f_v2_4_1", "umrr9f_v3_0_0", "umrr9f_v3_2_0"}

Port9d == {"umrr9d_v1_0_3", "umrr9d_v1_2_2", "umrr9d_v1_4_1", "umrr9d_v1_5_0",
           "umrr9d_v1_7_0"}

PortA4 == {"umrra4_v1_0_1", "umrra4_v1_2_1", "umrra4_v1_4_0", "umrra4_v1_6_0"}

PortA1 == {"umrra1_v1_0_0", "umrra1_v2_0_0", "umrra1_v2_0_1", "umrra1_v3_0_0"}

\* The models whose registration includes a callback for fault reports.
FaultCallbacks == {"umrra4_mse_v3_0_0", "umrr9f_mse_v2_0_0", "umrr9f_v3_2_0",
                   "umrr9d_v1_7_0", "umrra4_v1_6_0"}

-----------------------------------------------------------------------------
(* Models connected over CAN.                                               *)

\* CAN_objectlist_callback and CAN_targetlist_callback: a cloud, then its header.
CanA4Mse == {"umrra4_can_mse_v2_1_0", "umrra4_can_mse_v1_0_0"}

Can9fMse == {"umrr9f_can_mse_v1_3_0", "umrr9f_can_mse_v1_1_0", "umrr9f_can_mse_v1_0_0"}

CanNewestMse == {"umrra4_can_mse_v3_0_0", "umrr9f_can_mse_v2_0_0"}

\* From here on CAN_targetlist_callback alone.
Can96And11 == {"umrr96_can_v1_2_2", "umrr11_can_v1_1_2"}

Can9d == {"umrr9d_can_v1_0_3", "umrr9d_can_v1_2_2", "umrr9d_can_v1_4_1", "umrr9d_can_v1_5_0"}

Can9f == {"umrr9f_can_v2_1_1", "umrr9f_can_v2_2_1", "umrr9f_can_v2_4_1", "umrr9f_can_v3_0_0"}

CanA4 == {"umrra4_can_v1_0_1", "umrra4_can_v1_2_1", "umrra4_can_v1_4_0"}

CanNewest == {"umrr9f_can_v3_2_0", "umrr9d_can_v1_7_0", "umrra4_can_v1_6_0"}

-----------------------------------------------------------------------------

PortMse == PortA4Mse \cup Port9fMse
PortModels == PortMse \cup Port96And11 \cup Port9f \cup Port9d \cup PortA4 \cup PortA1

CanMse == CanA4Mse \cup Can9fMse \cup CanNewestMse
CanModels == CanMse \cup Can96And11 \cup Can9d \cup Can9f \cup CanA4 \cup CanNewest

KnownModels == PortModels \cup CanModels

\* Whether a model's name contains "mse".
NamedMse(model) == model \in PortMse \cup CanMse

\* Variant: one of the newer models was forgotten.
SupportsFewerFaultReports(model) ==
    model \in {"umrra4_mse_v3_0_0", "umrr9f_mse_v2_0_0", "umrr9f_v3_2_0", "umrr9d_v1_7_0"}

\* supports_fault_reports: the models that get a publisher for fault reports.
SupportsFaultReports(model) ==
    model \in {"umrra4_mse_v3_0_0", "umrr9f_mse_v2_0_0", "umrr9f_v3_2_0",
               "umrr9d_v1_7_0", "umrra4_v1_6_0"}
=============================================================================
