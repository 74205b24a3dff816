------------------------------- MODULE Tier3Drive ------------------------------
(***************************************************************************)
(* One Tier-3 process as its wheels see it: the goals the arbiter holds    *)
(* (want), the tick of body/local_drive.py that brings them to the         *)
(* controller, the controller, and the inspector at the gate.  Commands    *)
(* and inspector messages arrive on other threads, between any two steps.  *)
(***************************************************************************)
EXTENDS Tier3Controller

CONSTANTS
  Goals,        \* bound: the goals the arbiter may be given
  MaxStep       \* bound: the longest time between two ticks

ASSUME DriveAssumption ==
  /\ Goals \subseteq Goal
  /\ MaxStep \in Nat \ {0}

VARIABLES
  want,        \* the arbiter's goal
  isNew,       \* its cmd_id is not tracked_cmd_id
  isRefreshed, \* its path_seq is not tracked_path_seq
  newRoute,    \* its route_id is not that of ctrl.goal
  spun,        \* history: time spent turning since the last translation
  unfed,       \* history: time since a path of this goal was last taken
  stuck,       \* history: time going forward since the path last got shorter
  silent,      \* history: time since the last arm message
  aged,        \* history: time since this goal was started
  sent,        \* history: cmd_vel published since the goal blocked for good
  credit       \* history: continues that no handoff has used, at most one

wantVars == <<want, isNew, isRefreshed, newRoute>>
hist == <<spun, unfed, stuck, silent, aged, sent, credit>>
vars == <<ctlVars, gateVars, wantVars, hist>>

LongestLease == CHOOSE l \in Leases : \A k \in Leases : k <= l

TypeOK ==
  /\ CtlTypeOK
  /\ GateTypeOK
  /\ want \in Goal \cup {NoGoal}
  /\ {isNew, isRefreshed, newRoute} \subseteq BOOLEAN
  /\ spun \in 0 .. RotateTimeout + 1
  /\ unfed \in 0 .. Stale + 1
  /\ stuck \in 0 .. NoProgress + 1
  /\ silent \in 0 .. LongestLease + 1
  /\ aged \in 0 .. Deadline + 1
  /\ sent \in 0 .. TerminalZeros + 1
  /\ credit \in -1 .. 1

Init ==
  /\ CtlInit
  /\ GateInit
  /\ want = NoGoal
  /\ isNew = FALSE /\ isRefreshed = FALSE /\ newRoute = FALSE
  /\ spun = 0 /\ unfed = 0 /\ aged = 0 /\ sent = 0
  /\ stuck = 0
  /\ silent = LongestLease + 1
  /\ credit = 0

-------------------------------------------------------------------------------
(* Other threads                                                             *)

\* A goto or a path with a new cmd_id is the goal from now on.
NewGoal ==
  /\ want' \in Goals
  /\ isNew' = TRUE
  /\ isRefreshed' = FALSE /\ newRoute' = FALSE
  /\ UNCHANGED <<ctlVars, gateVars, hist>>

\* A refresh of the path; a re-planned route has a new route_id.
Refresh ==
  /\ want.path
  /\ \E last, route \in BOOLEAN :
       /\ want' = [want EXCEPT !.last = last]
       /\ newRoute' = (~isNew /\ (newRoute \/ route))
  /\ isRefreshed' = ~isNew
  /\ UNCHANGED <<isNew, ctlVars, gateVars, hist>>

\* Cancel, stop, e-stop and an odometry reset take the goal away.
Cancel ==
  /\ HasGoal(want)
  /\ want' = NoGoal
  /\ isNew' = FALSE /\ isRefreshed' = FALSE /\ newRoute' = FALSE
  /\ UNCHANGED <<ctlVars, gateVars, hist>>

\* Arm, disarm and continue; only a continue may let a held handoff pass.
Inspector ==
  /\ \/ \E lease \in MsgLeases : Arm(lease) /\ silent' = 0 /\ UNCHANGED credit
     \/ Disarm /\ credit' = Least(credit, 0) /\ UNCHANGED silent
     \/ Continue /\ credit' = 1 /\ UNCHANGED silent
  /\ UNCHANGED <<ctlVars, wantVars, spun, unfed, stuck, aged, sent>>

-------------------------------------------------------------------------------
(* The tick                                                                  *)

\* What d more adds to the histories; reset: the robot has translated or got a route.
Turned(d, reset) ==
  spun' = IF reset THEN 0
          ELSE IF motion = "turn" THEN Least(spun + d, RotateTimeout + 1) ELSE spun
Elapse(d) ==
  /\ GatePasses(d)
  /\ silent' = Least(silent + d, LongestLease + 1)
  /\ aged' = IF ctl.path THEN 0 ELSE Least(aged + d, Deadline + 1)
  /\ unfed' = IF ctl.path THEN Least(unfed + d, Stale + 1) ELSE 0
  /\ stuck' = IF motion \in {"crawl", "drive"} THEN Least(stuck + d, NoProgress + 1) ELSE 0

NewHistory == spun' = 0 /\ unfed' = 0 /\ stuck' = 0 /\ aged' = 0 /\ sent' = 0

\* No goal: zero if the wheels may turn, and the controller forgets its own.
TickIdle(d) ==
  /\ at = "wait" /\ ~HasGoal(want)
  /\ GatePasses(d)
  /\ StartGoal(NoGoal)
  /\ motion' = "stop"
  /\ quiet' = (motion = "stop")
  /\ report' = "idle"
  /\ NewHistory
  /\ silent' = Least(silent + d, LongestLease + 1)
  /\ UNCHANGED <<at, wantVars, credit>>

\* No usable odometry: zero if the wheels may turn; the goal is not even taken.
TickOdomStale(d) ==
  /\ at = "wait" /\ HasGoal(want)
  /\ motion' = "stop"
  /\ quiet' = (motion = "stop")
  /\ report' = "odom_stale"
  /\ clk' = Later(d)
  /\ dt' = Least(dt + d, DtCap)
  /\ Turned(d, FALSE) /\ Elapse(d)
  /\ sent' = IF sent = 0 \/ quiet' THEN sent ELSE Least(sent + 1, TerminalZeros + 1)
  /\ UNCHANGED <<ctl, realign, best, rereferred, terminal, zeros, at, wantVars, credit>>

\* A new goal is started; a refresh is taken unless its anchor is out of the ring.
TickStarts(d) ==
  /\ isNew \/ ~HasGoal(ctl)
  /\ StartGoal(want)
  /\ GatePasses(d)
  /\ newRoute' = FALSE
  /\ NewHistory
  /\ silent' = Least(silent + d, LongestLease + 1)

TickRefreshes(d, moved) ==
  /\ ~isNew /\ HasGoal(ctl) /\ isRefreshed
  /\ UpdatePath(want, newRoute, moved, d)
  /\ newRoute' = FALSE
  /\ Turned(d, moved \/ newRoute)
  /\ GatePasses(d)
  /\ silent' = Least(silent + d, LongestLease + 1)
  /\ aged' = 0
  /\ unfed' = 0
  /\ stuck' = IF newRoute \/ motion = "stop" \/ motion = "turn" THEN 0
              ELSE Least(stuck + d, NoProgress + 1)
  /\ sent' = IF newRoute THEN 0 ELSE sent

TickKeeps(d, moved) ==
  /\ ~isNew /\ HasGoal(ctl)
  /\ Keep(moved, d)
  /\ Turned(d, moved) /\ Elapse(d)
  /\ UNCHANGED <<newRoute, sent>>

TickTakes(d) ==
  /\ at = "wait" /\ HasGoal(want)
  /\ \/ TickStarts(d)
     \/ \E moved \in BOOLEAN : TickRefreshes(d, moved) \/ TickKeeps(d, moved)
  /\ at' = "step"
  /\ report' = "none" /\ quiet' = FALSE
  /\ isNew' = FALSE /\ isRefreshed' = FALSE
  /\ UNCHANGED <<want, motion, credit>>

\* The controller's step; the goal that has arrived is finished, unless a newer
\* one has taken its place.
TickSteps ==
  /\ Step
  /\ IF HasGoal(ctl') \/ isNew
       THEN UNCHANGED wantVars
       ELSE want' = NoGoal /\ isNew' = FALSE /\ isRefreshed' = FALSE /\ newRoute' = FALSE
  /\ spun' = IF report' \in {"held", "starved"} THEN 0 ELSE spun
  /\ sent' = IF terminal' = "none" \/ quiet' THEN sent ELSE Least(sent + 1, TerminalZeros + 1)
  /\ credit' = IF at' = "go" /\ armed' THEN credit - 1 ELSE credit
  /\ stuck' = IF at' = "go" \/ report' \in {"adopt", "follow"} THEN stuck ELSE 0
  /\ UNCHANGED <<unfed, silent, aged>>

Tick == TickSteps \/ \E d \in 1 .. MaxStep : TickIdle(d) \/ TickOdomStale(d) \/ TickTakes(d)

Next == NewGoal \/ Refresh \/ Cancel \/ Inspector \/ Tick

Spec == Init /\ [][Next]_vars

-------------------------------------------------------------------------------
(* Safety                                                                    *)

(***************************************************************************)
(* Whatever makes the robot turn (aligning with the path, re-aiming at a   *)
(* blocked arc, the final heading), and however these alternate, it does   *)
(* not turn for longer than rotate_timeout_s without translating, unless   *)
(* it was held or waited at the horizon in between, or got a new route     *)
(* (docs/drive_tier3_spec.md, "Rotation budget").                          *)
(***************************************************************************)
RotationBounded ==
  at = "wait" /\ motion = "turn" /\ RotateTimeout > 0 => spun <= RotateTimeout

(***************************************************************************)
(* A goto that has not arrived is terminally blocked by the first tick     *)
(* after its deadline that has odometry, whatever it was doing: turning to *)
(* a final heading, held at a breakpoint, blocked.                         *)
(***************************************************************************)
GotoEndsByDeadline ==
  at = "wait" /\ HasGoal(ctl) /\ ~ctl.path /\ report # "odom_stale"
    /\ Deadline > 0 /\ aged > Deadline => terminal # "none"

(***************************************************************************)
(* A robot that goes forward without getting closer along its path is      *)
(* stopped after no_progress_timeout_s; refreshes of the path do not put   *)
(* that off, only the ticks that replace the path are spared (T9).         *)
(***************************************************************************)
StuckIsNoticed == at = "wait" /\ report = "follow" => stuck <= NoProgress

(***************************************************************************)
(* A path whose refreshes stop, are lost or cannot be anchored is followed *)
(* at v_min after ttl_s, and not at all after stale_factor * ttl_s.        *)
(***************************************************************************)
StalePathStops ==
  at = "wait" /\ ctl.path =>
    /\ motion = "drive" => unfed <= Ttl
    /\ motion = "crawl" => unfed <= Stale

(***************************************************************************)
(* A goal that is blocked for good does not move the robot again, however  *)
(* often its path is refreshed, and sends terminal_zero_ticks zeros before *)
(* it leaves cmd_vel to the operator.  Only a new goal or a new route ends *)
(* that.                                                                   *)
(***************************************************************************)
TerminalIsFinal == sent > 0 => motion = "stop" /\ sent <= TerminalZeros

(***************************************************************************)
(* While the tier is armed no more handoffs pass than the inspector has    *)
(* sent continues, with its messages landing between the question and the  *)
(* consumption of the token, and with leases that lapse.                   *)
(***************************************************************************)
OneHandoffPerContinue == credit >= 0

(***************************************************************************)
(* A robot is held at a breakpoint only for as long as the last arm        *)
(* message leases it: an inspector that is gone holds nobody (T14).        *)
(***************************************************************************)
HoldEndsWithLease == at = "wait" /\ report = "held" => silent <= LongestLease

===============================================================================
