----------------------------- MODULE MCSensors -----------------------------
(* Instances of SensorRuntime for TLC.                                     *)
EXTENDS SensorRuntime, TLC

CONSTANTS ssh, http, bait

\* Both listeners are configured on one port, so a set with both conflicts.
OnePort == (ssh :> 22) @@ (http :> 22)

\* Two sets with the bait, so that consecutive generations watch one file; the
\* second has both listeners of the port.
Sets == {{ssh, bait}, {ssh, http, bait}}
=============================================================================
