--------------------------- MODULE InstructionTypes ---------------------------
(* What the type codes of a request mean to the node: the code k stands for   *)
(* the type at k + 1, in the parameter services and in get_radar_status.      *)

ParamTypes == <<"f32", "u32", "u16", "u8">>
StatusTypes == <<"u32", "u16", "u8", "i32">>
=============================================================================
