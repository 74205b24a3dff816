------------------------------ MODULE MCDriveLink ------------------------------
(***************************************************************************)
(* Instances of DriveLink for TLC.                                         *)
(***************************************************************************)
EXTENDS DriveLink

\* The Tier-3 process has just started too.
Fresh == NoId

\* Only the snapshot looks at odom_reset_pending.  A reset that comes within a tick is
\* therefore the same as one right after that tick, and race explores the latter.
ResetsBetweenTicks == resetPending => phase = "wait"

ZeroSeed == [c \in Clients |-> 0]

===============================================================================
