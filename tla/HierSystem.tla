------------------------------ MODULE HierSystem -------------------------------
(***************************************************************************)
(* The hierarchical drive with its recovery and its patrol, and the desktop *)
(* around it: the user, the inspector of handoffs, the pose, the e-stop.   *)
(***************************************************************************)
EXTENDS HierDrive

CONSTANTS Breakpoints   \* the tiers the inspector arms

ASSUME SystemAssumption == Breakpoints \subseteq 1 .. 2

Init == HierInit

Teleop ==
  /\ hop = 0
  /\ teleop' = ~teleop
  /\ UNCHANGED <<state, hop, reason, legVars, goalVars, runVars, escVars, held, gates,
                 pose, recVars, patrolVars>>

PoseChanges ==
  /\ state \notin EndStates
  /\ pose' = ~pose
  /\ UNCHANGED <<state, hop, reason, legVars, goalVars, runVars, escVars, held, gates,
                 teleop, recVars, patrolVars>>

Inspect ==
  /\ \E t \in Breakpoints :
       \/ armed' = armed \cup {t} /\ UNCHANGED tokens
       \/ armed' = armed \ {t} /\ tokens' = tokens \ {t}
       \/ tokens' = tokens \cup {t} /\ UNCHANGED armed
  /\ UNCHANGED <<state, hop, reason, legVars, goalVars, runVars, escVars, held, world,
                 recVars, patrolVars>>

EStop ==
  /\ (\E cause \in Causes : Latches(cause)) \/ OperatorRearms
  /\ UNCHANGED <<state, hop, reason, legVars, goalVars, runVars, escVars, held, gates,
                 world, patrolVars>>

Tick == TickStarts \/ HandlerRuns \/ TeleopTakes

User == Go \/ Stop \/ RequestResume

Next == Tick \/ PoseDoubted \/ Advise \/ User \/ Teleop \/ PoseChanges \/ EStop

Spec == Init /\ [][Next]_hierVars

StepSpec == Init /\ [][Next \/ Inspect]_hierVars

\* The timer of the window ticks, a hold, a wait and a manoeuvre end, and a re-arm
\* that is sent again and again arrives.
BlockEnds == TickBlocked /\ rung # "verify" /\ (rung' # rung \/ state' # state)
RearmArrives == HandlerRuns /\ latch # "off" /\ latch' = "off"

FairSpec ==
  /\ Spec
  /\ WF_hierVars(Tick)
  /\ SF_hierVars(BlockEnds)
  /\ SF_hierVars(RearmArrives)

-------------------------------------------------------------------------------
(***************************************************************************)
(* As long as a fault lasts, the wait for the next attempt to re-localize  *)
(* never gets shorter, although the link and the e-stop come and go and an *)
(* attempt may succeed without curing the fault: only the back-off bounds  *)
(* how often the robot is re-localized (recovery.py:202-224).              *)
(***************************************************************************)
BackoffNeverShrinks ==
  [][Active /\ Active' => At(Backoffs, fails') >= At(Backoffs, fails)]_hierVars

(***************************************************************************)
(* A drive that is stopped, for whatever reason, has revoked the goal it   *)
(* sent last: nothing is left for the robot to resume by itself when what  *)
(* stopped it goes away (hierarchical_drive.py:691-701).  The exception is *)
(* the goal that backs the robot off while the drive is BLOCKED.           *)
(***************************************************************************)
StoppedMeansRevoked ==
  state \in EndStates \cup {"BLOCKED", "SUSPENDED"} =>
    \/ live = "none"
    \/ live = "unstick" /\ state = "BLOCKED" /\ rung = "unstick"

(***************************************************************************)
(* From one progress, new leg or order of the user to the next, a drive    *)
(* that is blocked tries again no more often than the retry window allows, *)
(* however many goals it sends and whatever they end in: it does not loop  *)
(* between SELECT and BLOCKED (hierarchical_drive.py:692-695).             *)
(***************************************************************************)
BoundedRetries == Interval > 0 => tries <= Window \div Interval

(***************************************************************************)
(* The recovery is active exactly while the drive waits for it: SUSPENDED  *)
(* with a lost pose, or BLOCKED with the pose check.  One that is idle     *)
(* would never answer, and one left over would act on the e-stop while the *)
(* user drives (recovery.py:137-139, hierarchical_drive.py:617-620).       *)
(***************************************************************************)
RecoveryInStep ==
  Active <=> \/ state = "SUSPENDED" /\ reason = "pose_lost"
             \/ state = "BLOCKED" /\ rung = "verify"

(***************************************************************************)
(* Every block is being worked on: it has a run whose window passes, and   *)
(* once that is given up, a rung of the ladder that ends.  A block without *)
(* would stay until the user notices (hierarchical_drive.py:1865-1875).    *)
(***************************************************************************)
BlockedIsHandled ==
  state = "BLOCKED" =>
    /\ run # NoRun
    /\ gaveUp <=> rung \in {"verify", "unstick", "wait"}

(***************************************************************************)
(* While the user drives by hand no handler of the drive runs with a goal  *)
(* out: neither the leg's nor the one that backs off from a block, which   *)
(* would send motion commands between the user's                           *)
(* (hierarchical_drive.py:667-675).                                        *)
(***************************************************************************)
TeleopOwnsWheels == teleop /\ hop > 0 => live = "none"

(***************************************************************************)
(* A drive that stays BLOCKED comes to its recovery again and again: no    *)
(* hold, wait or manoeuvre is the end of it.                               *)
(***************************************************************************)
BlockedGoesOn == []<>(state # "BLOCKED") \/ []<>Active

(***************************************************************************)
(* A recovery ends, unless the link goes down again and again, the e-stop  *)
(* is one it may not clear or is set again and again, or the pose is found *)
(* bad again and again, each time with attempts left to correct it.  The   *)
(* wait for the latch to clear and the re-arm that clears it do not wait   *)
(* for each other, and the budget of re-localizations is not spent for     *)
(* good (recovery.py:155-158, 202-204 and 234-241).                        *)
(***************************************************************************)
RecoveryEnds ==
  \/ []<>~Active
  \/ []<>~pose
  \/ []<>(latch # "off" /\ ~MayRearm)
  \/ []<><<EStop>>_hierVars
  \/ []<>(phase = "relocalize_wait" /\ relocs < MaxRelocalize)

(***************************************************************************)
(* "On the first hold of a pause, cancel the active goto so the robot      *)
(* stops instead of driving the prior sub-goal while we inspect"           *)
(* (hierarchical_drive.py:1259-1261).  While the drive shows that it is    *)
(* held at a handoff, it has no goal out.                                  *)
(***************************************************************************)
HeldMeansStopped == state = "SELECT" /\ hop = 0 /\ held # 0 => live = "none"

===============================================================================
