------------------------------ MODULE MCKumaPn ------------------------------
(* Small instances of KumaPn.  Two monitors, batches smaller than the log  *)
(* and a grace that two heartbeats can meet or miss.                       *)
EXTENDS KumaPn, TLC

CONSTANTS web, dns

OneMonitor  == {web}
TwoMonitors == {web, dns}
NoMonitor   == {}
Fresh       == NoCursor
Follow      == 0
==============================================================================
