--------------------------- MODULE MCDeviceStatus ---------------------------
(* The instances of DeviceStatus that TLC checks. *)
EXTENDS DeviceStatus, TLC

CONSTANTS d1, d2

TwoTrackers == {d1, d2}
OneLevel == {0}
=============================================================================
