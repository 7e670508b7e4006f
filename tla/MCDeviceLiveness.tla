-------------------------- MODULE MCDeviceLiveness --------------------------
(***************************************************************************)
(* DeviceLiveness with the thresholds of config.Default: 20 s and 45 s in  *)
(* periods of 5 s.                                                         *)
(***************************************************************************)
EXTENDS DeviceLiveness

Degraded20s == 20 \div 5
Timeout45s == 45 \div 5
=============================================================================
