---------------------------- MODULE MCDeviceLink ----------------------------
(***************************************************************************)
(* Two sessions with a device that changes between two modes; the second   *)
(* mode is the one that accepts writes.                                    *)
(***************************************************************************)
EXTENDS DeviceLink

MCModes  == {"NORMAL_STOPPED", "SERVICE_MODE3_STOPPED"}
MCManual == {"03_KOEF_W"}
=============================================================================
