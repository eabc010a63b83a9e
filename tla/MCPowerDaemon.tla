--------------------------- MODULE MCPowerDaemon ---------------------------
(* An instance of PowerDaemon for TLC: capacities on both sides of both      *)
(* limits, and "Full" for the statuses the rules do not name.                *)
EXTENDS PowerDaemon

MCCapacities == {49, 50, 80}
MCStatuses == {"Charging", "Not charging", "Discharging", "Full"}
=============================================================================
