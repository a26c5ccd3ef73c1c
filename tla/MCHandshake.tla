---------------------------- MODULE MCHandshake ----------------------------
(***************************************************************************)
(* DeviceInfo.tla and Handshake.tla with headers and infos of two cells,   *)
(* so that each can be cut in the middle; a machine lacks nothing, has no  *)
(* file of its model but a line for it in /proc/cpuinfo, or has neither.   *)
(***************************************************************************)
EXTENDS DeviceInfo

Lacks == {{}, {"cpu name", "model"}, {"machine", "model", "uname"}}
=============================================================================
