------------------------------- MODULE HierDrive -------------------------------
(***************************************************************************)
(* desktop/nav/hierarchical_drive.py: the state machine that takes the     *)
(* robot along a patrol.  A tick runs the handler of its state and goes on *)
(* with the next one as long as each hands over to SELECT or ADVANCE; here *)
(* every handler is a step.  What the desktop's threads supply (the pose,  *)
(* the breakpoints, the e-stop) may change between two handlers of a tick; *)
(* what the user does comes between ticks, on the thread that ticks.       *)
(*                                                                         *)
(* Where the robot is, what a plan finds and what the robot reports are    *)
(* any.  The long timers (leg, stall, waits) may have run out at any tick; *)
(* the retry window and interval are counted.                              *)
(***************************************************************************)
EXTENDS Recovery, PatrolRunner, FiniteSets

CONSTANTS
  Window,        \* blocked_retry_window_s
  Interval,      \* blocked_retry_interval_s
  MaxRejects,    \* max_consecutive_rejects
  GiveUpAfter,   \* give_up_after_cycles; 0: None
  MaxHops,       \* handlers in one tick
  Modes          \* how a goal may be sent: "goto", "path"

ASSUME HierAssumption ==
  /\ {Window, Interval, MaxRejects, GiveUpAfter} \subseteq Nat
  /\ MaxHops \in Nat \ {0}
  /\ Modes \subseteq {"goto", "path"} /\ Modes # {}

VARIABLES
  state,
  hop,        \* the handler this tick is at; 0: between ticks
  reason,     \* _block_reason
  legOn,      \* _leg_started_at is set
  rejects,    \* _consecutive_rejects
  live,       \* the goal the robot may have, as far as the drive can know
  pathLive,
  run,        \* the run of blocks: NoRun, or its age, time since a retry, advisory hold
  gaveUp,
  rung,       \* _esc_rung
  cycles,
  held,       \* _held_tier; 0: None
  armed,      \* the breakpoints 1 and 2 that are armed
  tokens,     \* those that have a token to continue
  pose,       \* the pose is fresh
  teleop,     \* live_command
  tries       \* retries since the last progress, new leg budget or order of the user

goalVars == <<live, pathLive>>
runVars == <<run, gaveUp, tries>>
legVars == <<legOn, rejects>>
escVars == <<rung, cycles>>
gates == <<armed, tokens>>
world == <<pose, teleop>>

hierVars == <<state, hop, reason, legVars, goalVars, runVars, escVars, held, gates,
              world, recVars, patrolVars>>

NoRun == [age |-> -1]
FreshRun == [age |-> 0, retry |-> 0, hold |-> FALSE]
Runs == [age : 0 .. Window + 1, retry : 0 .. Interval, hold : BOOLEAN]

ActiveStates == {"ALIGNING", "SELECT", "DRIVING", "ADVANCE", "BLOCKED"}
EndStates == {"IDLE", "ARRIVED", "FAILED"}
ChainStates == {"SELECT", "ADVANCE"}
Reasons == {"none", "leg_timeout", "rejected", "no_route_progress", "pose_lost", "teleop",
            "other"}
Rungs == {"none", "verify", "unstick", "replan", "wait"}

HierTypeOK ==
  /\ state \in ActiveStates \cup EndStates \cup {"SUSPENDED"}
  /\ hop \in 0 .. MaxHops
  /\ reason \in Reasons
  /\ legOn \in BOOLEAN /\ rejects \in 0 .. MaxRejects + 1
  /\ live \in {"none", "leg", "unstick"} /\ pathLive \in BOOLEAN
  /\ run \in {NoRun} \cup Runs /\ gaveUp \in BOOLEAN
  /\ tries \in Nat
  /\ rung \in Rungs /\ cycles \in 0 .. GiveUpAfter
  /\ held \in 0 .. 2 /\ armed \subseteq 1 .. 2 /\ tokens \subseteq 1 .. 2
  /\ pose \in BOOLEAN /\ teleop \in BOOLEAN
  /\ RecTypeOK
  /\ RunnerTypeOK

\* A drive that start() has not been called on, or that has been stopped.
HierInit ==
  /\ state = "IDLE" /\ hop = 0 /\ reason = "none"
  /\ legOn = FALSE /\ rejects = 0
  /\ live = "none" /\ pathLive = FALSE
  /\ run = NoRun /\ gaveUp = FALSE /\ tries = 0
  /\ rung = "none" /\ cycles = 0 /\ held = 0
  /\ armed = {} /\ tokens = {}
  /\ pose = TRUE /\ teleop = FALSE
  /\ RecInit
  /\ RunnerInit

-------------------------------------------------------------------------------
(* What the handlers share.  They run in a tick, which a handler ends unless it    *)
(* hands over.                                                                     *)

To(s) ==
  /\ state' = s
  /\ hop' = IF s # state /\ s \in ChainStates /\ state \notin {"ALIGNING", "SUSPENDED"}
                 /\ hop \in 1 .. MaxHops - 1
            THEN hop + 1 ELSE 0

Stay == To(state)

Cancel == live' = "none" /\ pathLive' = FALSE

\* Fault: the goal is left to a robot that is blocked already.
EnterBlocked_KeepsGoal(why, was) ==
  /\ UNCHANGED goalVars
  /\ reason' = why
  /\ run' = IF was = NoRun THEN FreshRun ELSE was
  /\ To("BLOCKED")

\* Fault: each block starts the window again.
EnterBlocked_NewWindow(why, was) ==
  /\ Cancel
  /\ reason' = why
  /\ run' = FreshRun
  /\ To("BLOCKED")

\* From another state than BLOCKED; was: the run as the handler leaves it.
EnterBlocked(why, was) ==
  /\ Cancel
  /\ reason' = why
  /\ run' = IF was = NoRun THEN FreshRun ELSE was
  /\ To("BLOCKED")

\* Fault: the recovery is left to go on.
EnterSuspended_LeavesRecovery(why) ==
  /\ Cancel
  /\ reason' = why
  /\ To("SUSPENDED")
  /\ IF why = "pose_lost" THEN Begin(TRUE, pose) ELSE UNCHANGED recVars

EnterSuspended(why) ==
  /\ Cancel
  /\ reason' = why
  /\ To("SUSPENDED")
  /\ IF why = "pose_lost" THEN Begin(TRUE, pose) ELSE RecCancel

EndRun == run' = NoRun /\ gaveUp' = FALSE /\ tries' = 0

EscClear ==
  /\ rung' = "none"
  /\ IF rung # "none" THEN RecCancel ELSE UNCHANGED recVars

ShouldHold(tier) == tier \in armed \ tokens

\* A goal is sent along the route.  The pose may have grown old meanwhile, the route
\* may be too short, there may be no one to send to.
SendPath(was) ==
  \/ /\ EnterSuspended("pose_lost")
     /\ run' = was
  \/ /\ EnterBlocked("other", was)
     /\ UNCHANGED recVars
  \/ /\ live' = "leg" /\ pathLive' = TRUE
     /\ reason' = "none"
     /\ run' = was
     /\ To("DRIVING")
     /\ UNCHANGED recVars

-------------------------------------------------------------------------------
(* ALIGNING, SELECT and ADVANCE                                                    *)

TickAligning ==
  /\ hop > 0 /\ state = "ALIGNING"
  /\ To(IF pose THEN "SELECT" ELSE "ALIGNING")
  /\ UNCHANGED <<reason, legVars, goalVars, runVars, escVars, recVars, held, gates, world,
                 patrolVars>>

SelectLost ==
  /\ EnterSuspended("pose_lost")
  /\ UNCHANGED <<legVars, runVars, escVars, held, gates>>

\* The leg goes on from where it was started, however many goals it takes.
SelectExpired ==
  /\ legOn /\ ~pathLive
  /\ EnterBlocked("leg_timeout", run)
  /\ UNCHANGED <<legVars, gaveUp, tries, escVars, recVars, held, gates>>

\* The waypoint is reached, or it is one that may be skipped and cannot be reached.
SelectAdvances ==
  /\ To("ADVANCE")
  /\ legOn' = TRUE
  /\ UNCHANGED <<reason, rejects, goalVars, runVars, escVars, recVars, held, gates>>

\* There is no route, or no point on it to go to.
SelectBlocked ==
  /\ EnterBlocked("other", run)
  /\ legOn' = TRUE
  /\ UNCHANGED <<rejects, gaveUp, tries, escVars, recVars, held, gates>>

Hold(tier) ==
  /\ ShouldHold(tier)
  /\ IF held = 0 THEN Cancel ELSE UNCHANGED goalVars
  /\ held' = tier
  /\ legOn' = FALSE
  /\ Stay

SelectHolds ==
  /\ Hold(1) \/ (~ShouldHold(1) /\ "goto" \in Modes /\ Hold(2))
  /\ UNCHANGED <<reason, rejects, runVars, escVars, recVars, gates>>

SelectSendsPath ==
  /\ "path" \in Modes /\ ~ShouldHold(1)
  /\ legOn' = TRUE
  /\ SendPath(run)
  /\ UNCHANGED <<rejects, gaveUp, tries, escVars, held, gates>>

SelectSendsGoto ==
  /\ "goto" \in Modes /\ ~ShouldHold(1) /\ ~ShouldHold(2)
  /\ tokens' = {} /\ held' = 0
  /\ legOn' = TRUE
  /\ \/ EnterBlocked("other", run)                                  \* it is not sent
     \/ /\ live' = "leg" /\ pathLive' = FALSE
        /\ reason' = "none"
        /\ To("DRIVING")
        /\ UNCHANGED run
  /\ UNCHANGED <<rejects, gaveUp, tries, escVars, recVars, armed>>

TickSelect ==
  /\ hop > 0 /\ state = "SELECT"
  /\ IF ~pose THEN SelectLost
     ELSE \/ SelectExpired \/ SelectAdvances \/ SelectBlocked \/ SelectHolds
          \/ SelectSendsPath \/ SelectSendsGoto
  /\ UNCHANGED <<world, patrolVars>>

\* A fresh leg.
TickAdvance ==
  /\ hop > 0 /\ state = "ADVANCE"
  /\ OnArrived
  /\ EndRun
  /\ EscClear
  /\ legOn' = FALSE /\ rejects' = 0
  /\ IF Ends THEN Cancel /\ To("ARRIVED") ELSE UNCHANGED goalVars /\ To("SELECT")
  /\ UNCHANGED <<reason, cycles, held, gates, world>>

-------------------------------------------------------------------------------
(* DRIVING                                                                         *)

DriveReached ==
  /\ IF IsTerminalLeg THEN Cancel ELSE UNCHANGED goalVars
  /\ To("ADVANCE")
  /\ UNCHANGED <<reason, rejects, runVars, escVars, recVars>>

\* In path mode the watchdog of the route takes the place of the deadline.
DriveExpired ==
  /\ legOn /\ ~pathLive
  /\ EnterBlocked("leg_timeout", run)
  /\ UNCHANGED <<rejects, gaveUp, tries, escVars, recVars>>

\* Fault: a goal that is rejected is sent again, always.
DriveRejected_NoLimit ==
  /\ rejects' = rejects + 1
  /\ To("SELECT") /\ pathLive' = FALSE /\ UNCHANGED <<reason, live, run>>
  /\ UNCHANGED <<gaveUp, tries, escVars, recVars>>

\* The robot does not take the goal.  It may have the one before: a goto, which needs no
\* end to be superseded, where gotos are sent at all.
DriveRejected ==
  /\ rejects' = rejects + 1
  /\ IF rejects' > MaxRejects
     THEN EnterBlocked("rejected", run)
     ELSE /\ To("SELECT")
          /\ live' = IF "goto" \in Modes THEN live ELSE "none"
          /\ pathLive' = FALSE
          /\ UNCHANGED <<reason, run>>
  /\ UNCHANGED <<gaveUp, tries, escVars, recVars>>

\* The robot reports its goal done.  That is progress for a goto, for a path only if
\* it leads to the next waypoint.
DriveEnded ==
  /\ rejects' = 0
  /\ live' = "none" /\ pathLive' = FALSE
  /\ IF pathLive THEN UNCHANGED <<runVars, rung, recVars>> ELSE EndRun /\ EscClear
  /\ To(IF pathLive /\ IsTerminalLeg THEN "ADVANCE" ELSE "SELECT")
  /\ UNCHANGED <<reason, cycles>>

\* The robot reports a block or a fault, or nothing is heard of the goal.
DriveBlocked ==
  /\ rejects' \in {0, rejects}
  /\ EnterBlocked("other", run)
  /\ UNCHANGED <<gaveUp, tries, escVars, recVars>>

DriveCanceled ==
  /\ rejects' = 0
  /\ Cancel
  /\ To("FAILED")
  /\ UNCHANGED <<reason, runVars, escVars, recVars>>

\* Nothing stands in the way.  A retry that has moved has got past the block.
DriveGoesOn ==
  \E moved \in IF run = NoRun THEN {FALSE} ELSE BOOLEAN :
    LET was == IF moved THEN NoRun ELSE run
    IN /\ rejects' \in {0, rejects}
       /\ gaveUp' = (gaveUp /\ ~moved)
       /\ tries' = IF moved THEN 0 ELSE tries
       /\ rung' = IF moved THEN "none" ELSE rung
       /\ IF pathLive
          THEN \/ EnterBlocked("no_route_progress", was) /\ UNCHANGED recVars
               \/ SendPath(was)                                     \* a refresh
               \/ Stay /\ run' = was /\ UNCHANGED <<reason, goalVars, recVars>>
          ELSE /\ To("SELECT") \/ Stay
               /\ run' = was
               /\ UNCHANGED <<reason, goalVars, recVars>>
       /\ UNCHANGED cycles

TickDriving ==
  /\ hop > 0 /\ state = "DRIVING"
  /\ IF ~pose THEN EnterSuspended("pose_lost") /\ UNCHANGED <<rejects, runVars, escVars>>
     ELSE \/ DriveReached \/ DriveExpired \/ DriveRejected \/ DriveEnded
          \/ DriveBlocked \/ DriveCanceled \/ DriveGoesOn
  /\ UNCHANGED <<legOn, held, gates, world, patrolVars>>

-------------------------------------------------------------------------------
(* BLOCKED and the ladder of escalation                                            *)

\* Fault: the check is asked for and never started.
EnterVerify_NotBegun ==
  /\ rung' = "verify"
  /\ gaveUp' = TRUE
  /\ Stay
  /\ UNCHANGED <<reason, legVars, run, tries, cycles, recVars>>

EnterVerify ==
  /\ rung' = "verify"
  /\ Begin(FALSE, pose)
  /\ gaveUp' = TRUE
  /\ Stay
  /\ UNCHANGED <<reason, legVars, run, tries, cycles>>

EnterReplan ==
  /\ rung' = "replan"
  /\ EndRun
  /\ legOn' = FALSE /\ rejects' = 0
  /\ Cancel
  /\ To("SELECT")
  /\ UNCHANGED <<reason, cycles>>

BacksOff ==
  /\ pose
  /\ rung' = "unstick"
  /\ live' = "unstick"
  /\ gaveUp' = TRUE
  /\ Stay
  /\ UNCHANGED <<reason, legVars, pathLive, run, tries, cycles>>

EnterWait ==
  /\ rung' = "wait"
  /\ gaveUp' = TRUE
  /\ Stay
  /\ UNCHANGED <<reason, legVars, run, tries, recVars>>

Abandon ==
  /\ rung' = "none"
  /\ RecCancel
  /\ Cancel
  /\ To("FAILED")
  /\ gaveUp' = TRUE
  /\ UNCHANGED <<reason, legVars, run, tries>>

\* An attempt gives up, and its goal is revoked once more.  Rung "replan" is the only
\* one that makes an attempt.
Escalate ==
  /\ Cancel
  /\ IF rung = "none"
     THEN IF reason = "rejected" THEN EnterReplan /\ UNCHANGED recVars ELSE EnterVerify
     ELSE /\ cycles' = IF GiveUpAfter = 0 THEN cycles ELSE cycles + 1
          /\ IF GiveUpAfter > 0 /\ cycles' >= GiveUpAfter THEN Abandon ELSE EnterWait

\* The pose check is over.  Without a clear spot to back off to, or a link to send it
\* over, the ladder goes on.
VerifyOver ==
  /\ RecResumes(pose)
  /\ BacksOff \/ EnterReplan

VerifyGoesOn ==
  /\ RecWaits(pose)
  /\ Stay
  /\ UNCHANGED <<reason, legVars, goalVars, runVars, escVars>>

RungGoesOn ==
  /\ Stay
  /\ UNCHANGED <<reason, legVars, goalVars, runVars, escVars, recVars>>

\* It arrived, it ended in another way, or its time is up.
UnstickOver == EnterReplan /\ UNCHANGED recVars

WaitOver == EnterVerify /\ UNCHANGED goalVars

\* Fault: the ladder is left where it was.
LosesPose_KeepsRung ==
  /\ EnterSuspended("pose_lost")
  /\ UNCHANGED <<legVars, runVars, escVars>>

LosesPose ==
  /\ rung' = "none"
  /\ EnterSuspended("pose_lost")
  /\ UNCHANGED <<legVars, runVars, cycles>>

TickEscalation ==
  CASE rung = "verify" -> VerifyOver \/ VerifyGoesOn
    [] rung # "verify" /\ ~pose -> LosesPose
    [] rung = "unstick" /\ pose -> UnstickOver \/ RungGoesOn
    [] rung = "wait" /\ pose -> WaitOver \/ RungGoesOn

Terminal == reason \in {"leg_timeout", "rejected"}

Spent == Terminal \/ reason = "no_route_progress" \/ run.age > Window

MaySkip == ~Terminal /\ ~IsTerminalLeg /\ wp \notin patrol.must

SkipsVia ==
  /\ MaySkip
  /\ EndRun
  /\ To("ADVANCE")
  /\ UNCHANGED <<reason, legVars, goalVars, escVars, recVars>>

\* An advisory hold that was running is over.
Retry ==
  /\ run.retry >= Interval
  /\ run' = [run EXCEPT !.retry = 0, !.hold = FALSE]
  /\ tries' = tries + 1
  /\ To("SELECT")
  /\ UNCHANGED <<reason, legVars, goalVars, gaveUp, escVars, recVars>>

BlockGoesOn ==
  /\ run.retry < Interval \/ run.hold
  /\ Stay
  /\ UNCHANGED <<reason, legVars, goalVars, runVars, escVars, recVars>>

\* A drive that is BLOCKED has a run: the code's defence against its absence is not
\* needed, and here the step would be disabled.
TickBlocked ==
  /\ hop > 0 /\ state = "BLOCKED" /\ run # NoRun
  /\ CASE gaveUp -> TickEscalation
       [] ~gaveUp /\ Spent -> IF MaySkip THEN SkipsVia ELSE Escalate
       [] OTHER -> Retry \/ BlockGoesOn
  /\ UNCHANGED <<held, gates, world, patrolVars>>

-------------------------------------------------------------------------------
(* SUSPENDED, the tick, and what the user does                                     *)

\* A pose that was lost is waited for by the recovery; teleop by the user.
TickSuspended ==
  /\ hop > 0 /\ state = "SUSPENDED" /\ reason = "pose_lost" /\ Active
  /\ \/ /\ RecWaits(pose)
        /\ Stay
        /\ UNCHANGED <<reason, legVars, runVars>>
     \/ /\ RecResumes(pose)
        /\ EndRun
        /\ reason' = "none"
        /\ legOn' = FALSE /\ rejects' = 0
        /\ To("ALIGNING")
  /\ UNCHANGED <<goalVars, escVars, held, gates, world, patrolVars>>

HandlerRuns ==
  TickAligning \/ TickSelect \/ TickDriving \/ TickAdvance \/ TickBlocked \/ TickSuspended

\* Fault: a blocked drive is taken to be at rest.
TeleopStops_Moving == ActiveStates \ {"BLOCKED"}

TeleopStops == ActiveStates

Inert == state \in EndStates \/ (state = "SUSPENDED" /\ ~Active)

\* Before the handlers of a tick; one unit of time has passed since the last one.
TickStarts ==
  /\ hop = 0 /\ ~Inert
  /\ ~(teleop /\ state \in TeleopStops)
  /\ hop' = 1
  /\ run' = IF run = NoRun \/ gaveUp THEN run
            ELSE [run EXCEPT !.age = Lower(run.age + 1, Window + 1),
                             !.retry = Lower(run.retry + 1, Interval)]
  /\ IF Active THEN RecPasses(1) ELSE UNCHANGED recVars
  /\ UNCHANGED <<state, reason, legVars, goalVars, gaveUp, tries, escVars, held, gates,
                 world, patrolVars>>

\* notify_teleop, which the tick of the window calls first.
TeleopTakes ==
  /\ hop = 0 /\ teleop /\ state \in TeleopStops
  /\ EnterSuspended("teleop")
  /\ UNCHANGED <<legVars, runVars, escVars, held, gates, world, patrolVars>>

\* The map has not supported the pose for pose_doubt_hold_s.
PoseDoubted ==
  /\ hop = 0 /\ ~teleop /\ state \in {"SELECT", "DRIVING"}
  /\ EnterSuspended("pose_lost")
  /\ UNCHANGED <<legVars, runVars, escVars, held, gates, world, patrolVars>>

RequestResume ==
  /\ hop = 0 /\ state \in {"SUSPENDED", "BLOCKED"}
  /\ RecCancel
  /\ rung' = "none"
  /\ EndRun
  /\ reason' = "none"
  /\ legOn' = FALSE /\ rejects' = 0
  /\ To("ALIGNING")
  /\ UNCHANGED <<goalVars, cycles, held, gates, world, patrolVars>>

\* A new drive is built; the one before is at an end and is forgotten.
Go ==
  /\ hop = 0 /\ state \in EndStates /\ ~teleop
  /\ state' = "ALIGNING" /\ hop' = 0 /\ reason' = "none"
  /\ legOn' = FALSE /\ rejects' = 0
  /\ UNCHANGED goalVars
  /\ EndRun
  /\ rung' = "none" /\ cycles' = 0 /\ held' = 0
  /\ RecCancel
  /\ NewPatrol
  /\ UNCHANGED <<gates, world>>

\* What the drive's fields hold after it is of no interest.
Stop ==
  /\ hop = 0 /\ state \notin EndStates
  /\ To("IDLE")
  /\ Cancel
  /\ reason' = "none"
  /\ legOn' = FALSE /\ rejects' = 0
  /\ EndRun
  /\ rung' = "none" /\ held' = 0
  /\ RecCancel
  /\ UNCHANGED <<cycles, gates, world, patrolVars>>

\* apply_block_advisory: a hold or a pause for the run that is live.
RunIsLive == run # NoRun /\ state \in {"BLOCKED", "SELECT", "DRIVING"}

\* A retry that is driving is called back, with the reason that opened the run: another
\* than those that end an attempt at once, as their runs do not come to a retry.
Advise ==
  /\ hop = 0 /\ RunIsLive
  /\ IF state = "BLOCKED" THEN UNCHANGED <<state, hop, reason>>
     ELSE To("BLOCKED") /\ reason' = IF reason = "none" THEN "other" ELSE reason
  /\ \/ /\ run' = [run EXCEPT !.hold = TRUE]
        /\ IF state = "BLOCKED" THEN UNCHANGED goalVars ELSE Cancel
        /\ UNCHANGED <<gaveUp, escVars, recVars>>
     \/ /\ ~gaveUp
        /\ Cancel
        /\ rung' = "wait" /\ gaveUp' = TRUE
        /\ UNCHANGED <<run, cycles, recVars>>
  /\ UNCHANGED <<legVars, tries, held, gates, world, patrolVars>>

===============================================================================
