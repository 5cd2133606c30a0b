--------------------------- MODULE MCJournalImport ---------------------------
(* Small instances of JournalImport: a disk error that opens an alert and a *)
(* plain event.  A gap of 1 lies inside the window of 1, a gap of 2 beyond  *)
(* it, and -1 is a clock that was set back.                                 *)
EXTENDS JournalImport

CONSTANTS disk_io_error, device_removed

OneKey   == {disk_io_error}
BothKeys == {disk_io_error, device_removed}
Alerting == {disk_io_error}
Forward  == {1, 2}
Jumping  == {-1, 1, 2}
==============================================================================
