------------------------------ MODULE MCLauncher ------------------------------
(***************************************************************************)
(* Two processes, the motor controller first: each is the other's proof    *)
(* that the link is up.                                                    *)
(***************************************************************************)
EXTENDS Launcher

CONSTANTS motor, lidar

MCProcesses == <<motor, lidar>>

\* As configured, in units of the window: the motor controller's timeout is
\* the window, the others' are longer.
MCTimeout == (motor :> 1) @@ (lidar :> 2)

\* Both longer than the window.
MCLongTimeout == (motor :> 2) @@ (lidar :> 2)
=============================================================================
