----------------------------- MODULE MCLauncher -----------------------------
(***************************************************************************)
(* Small instance of Launcher: two launchers of one host, started again and *)
(* again.  A pepper of an earlier day is one that an earlier start made, so *)
(* the directory begins without one, or with one that was cut short.        *)
(***************************************************************************)
EXTENDS Launcher

MCLauncherInit == LauncherInit /\ pepper # "old"
MCLauncherSpec == MCLauncherInit /\ [][LauncherNext]_lauvars /\ LauncherFairness
=============================================================================
