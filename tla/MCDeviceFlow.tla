--------------------------- MODULE MCDeviceFlow ---------------------------
(***************************************************************************)
(* Instances of DeviceFlow for TLC: two devices that may draw the same     *)
(* user code, and two people at the approval page.                         *)
(***************************************************************************)
EXTENDS DeviceFlow

=============================================================================
