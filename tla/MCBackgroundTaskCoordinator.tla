---------------------- MODULE MCBackgroundTaskCoordinator ----------------------
(***************************************************************************)
(* BackgroundTaskCoordinator for TLC.                                      *)
(***************************************************************************)
EXTENDS BackgroundTaskCoordinator

CONSTANTS j1, j2, j3, SpeedTest, CoreUpdate
===============================================================================
