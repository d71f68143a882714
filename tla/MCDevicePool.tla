---------------------------- MODULE MCDevicePool ----------------------------
(* Model-checking instance of DevicePool: ordinals from -1 (a negative int  *)
(* converted to size_t) to one past the longest list PlatformLists allows   *)
(* (two platforms of two GPUs of two tiles: eight devices).                *)
EXTENDS DevicePool

MCOrdinals == -1..8

=============================================================================
