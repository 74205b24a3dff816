---------------------------- MODULE Tier3Controller ----------------------------
(***************************************************************************)
(* body/lib/tier3_controller.py: what the wheels do for the active goal.   *)
(* The geometry (costmap, planner, vetoes, steering) is reduced to the     *)
(* answers that Step branches on, each chosen freely at each tick; every   *)
(* clock, budget, latch and early return is kept, in the code's order.     *)
(* step is cut in two where it has asked the gate whether to hold.         *)
(***************************************************************************)
EXTENDS HandoffGate

CONSTANTS
  Deadline,         \* goal_deadline_s, of goals that are not paths; 0: none
  RotateTimeout,    \* rotate_timeout_s: turning without translating; 0: no limit
  NoProgress,       \* no_progress_timeout_s
  RealignTimeout,   \* swept_realign_timeout_s: re-aiming without translating
  Ttl, Stale,       \* ttl_s of a path, and stale_factor times it
  TerminalZeros,    \* terminal_zero_ticks
  DtCap,            \* the longest tick that re-aiming is charged with
  DepthActs         \* depth_act: the depth veto blocks, and does not only report

ASSUME Tier3Assumption ==
  /\ {Deadline, RotateTimeout, NoProgress, RealignTimeout} \subseteq Nat
  /\ {Ttl, Stale, DtCap} \subseteq Nat
  /\ TerminalZeros \in Nat \ {0}
  /\ Ttl <= Stale
  /\ DepthActs \in BOOLEAN

\* A goal: a goto or a path; heading: it has a final heading; last: end_is_goal.
Goal == [path : BOOLEAN, heading : BOOLEAN, last : BOOLEAN]
NoGoal == [path |-> FALSE, heading |-> FALSE, last |-> FALSE, none |-> TRUE]
HasGoal(x) == x # NoGoal

VARIABLES
  ctl,        \* ctrl.goal
  clk,        \* time since goal_started_at, last_translate_at, prog_at, path_rx_at
  realign,    \* realign_time
  dt,         \* time since the last step, capped
  best,       \* prog_best is not None
  rereferred, \* _path_refreshed
  terminal,   \* the reason of a terminal block
  zeros,      \* terminal_ticks, while it decides anything
  motion,     \* the last cmd_vel: stop, turn, crawl (v_min) or drive
  quiet,      \* the tick published no cmd_vel
  report,     \* the tick's status as far as it matters; none in the middle of a tick
  at          \* where the tick is: wait, step, or go (the gate let it pass)

ctlVars == <<ctl, clk, realign, dt, best, rereferred, terminal, zeros, motion, quiet, report, at>>

Clocks == [start : 0 .. Deadline + 1, move : 0 .. RotateTimeout + 1,
           prog : 0 .. NoProgress + 1, rx : 0 .. Stale + 1]
Started == [start |-> 0, move |-> 0, prog |-> 0, rx |-> 0]

Terminals == {"none", "deadline", "rotate_timeout"}
\* Going forward is reported as gain (the path got shorter), adopt (it was replaced)
\* or follow (neither).
Reports == {"none", "idle", "odom_stale", "arrived", "blocked", "starved", "held",
            "turn", "gain", "adopt", "follow"}

CtlTypeOK ==
  /\ ctl \in Goal \cup {NoGoal}
  /\ clk \in Clocks
  /\ realign \in 0 .. RealignTimeout + DtCap
  /\ dt \in 0 .. DtCap
  /\ {best, rereferred, quiet} \subseteq BOOLEAN
  /\ terminal \in Terminals
  /\ zeros \in 0 .. TerminalZeros
  /\ motion \in {"stop", "turn", "crawl", "drive"}
  /\ report \in Reports
  /\ at \in {"wait", "step", "go"}

CtlInit ==
  /\ ctl = NoGoal
  /\ clk = Started
  /\ realign = 0
  /\ dt = 0
  /\ best = FALSE
  /\ rereferred = FALSE
  /\ terminal = "none"
  /\ zeros = 0
  /\ motion = "stop"
  /\ quiet = TRUE
  /\ report = "idle"
  /\ at = "wait"

Least(a, b) == IF a <= b THEN a ELSE b

\* The clocks after d more, each as far as it matters: only a goto has a deadline,
\* only a path is refreshed.
Later(d) == [start |-> IF ctl.path THEN 0 ELSE Least(clk.start + d, Deadline + 1),
             move |-> Least(clk.move + d, RotateTimeout + 1),
             prog |-> Least(clk.prog + d, NoProgress + 1),
             rx |-> IF ctl.path THEN Least(clk.rx + d, Stale + 1) ELSE 0]

-------------------------------------------------------------------------------
(* Between the goals of local_drive and the step                             *)

\* start_goal resets everything that belongs to a goal.
StartGoal(x) ==
  /\ ctl' = x
  /\ clk' = Started
  /\ realign' = 0
  /\ dt' = 0
  /\ best' = FALSE
  /\ rereferred' = FALSE
  /\ terminal' = "none"
  /\ zeros' = 0

\* Fault: any refresh resumes a goal that is terminally blocked.
UpdatePath_Resumes(x, newRoute, moved, d) ==
  /\ ctl' = x
  /\ clk' = [Later(d) EXCEPT !.rx = 0, !.move = IF moved THEN 0 ELSE @]
  /\ dt' = Least(dt + d, DtCap)
  /\ rereferred' = TRUE
  /\ terminal' = "none"
  /\ zeros' = 0
  /\ realign' = IF newRoute \/ moved THEN 0 ELSE realign
  /\ best' = (best /\ ~newRoute)

\* Fault: any refresh restarts the clock of no_progress.
UpdatePath_Progress(x, newRoute, moved, d) ==
  /\ ctl' = x
  /\ clk' = [Later(d) EXCEPT !.rx = 0,
                             !.prog = 0,
                             !.move = IF newRoute \/ moved THEN 0 ELSE @]
  /\ dt' = Least(dt + d, DtCap)
  /\ rereferred' = TRUE
  /\ terminal' = IF newRoute THEN "none" ELSE terminal
  /\ zeros' = IF newRoute THEN 0 ELSE zeros
  /\ realign' = IF newRoute \/ moved THEN 0 ELSE realign
  /\ best' = (best /\ ~newRoute)

\* update_path: a refresh; a new route_id also resumes a terminal block.  moved: the
\* robot has translated since the last step, which the step that follows looks at.
UpdatePath(x, newRoute, moved, d) ==
  /\ ctl' = x
  /\ clk' = [Later(d) EXCEPT !.rx = 0,
                             !.prog = IF newRoute THEN 0 ELSE @,
                             !.move = IF newRoute \/ moved THEN 0 ELSE @]
  /\ dt' = Least(dt + d, DtCap)
  /\ rereferred' = TRUE
  /\ terminal' = IF newRoute THEN "none" ELSE terminal
  /\ zeros' = IF newRoute THEN 0 ELSE zeros
  /\ realign' = IF newRoute \/ moved THEN 0 ELSE realign
  /\ best' = (best /\ ~newRoute)

\* No goal and no refresh to take.
Keep(moved, d) ==
  /\ clk' = IF moved THEN [Later(d) EXCEPT !.move = 0] ELSE Later(d)
  /\ realign' = IF moved THEN 0 ELSE realign
  /\ dt' = Least(dt + d, DtCap)
  /\ UNCHANGED <<ctl, best, rereferred, terminal, zeros>>

-------------------------------------------------------------------------------
(* step                                                                      *)

\* A result: what is commanded, what is reported, and the clocks it resets.
Result(m, r, newClk) ==
  /\ motion' = m
  /\ quiet' = FALSE
  /\ report' = r
  /\ clk' = newClk
  /\ dt' = 0
  /\ at' = "wait"

ProgReset == [clk EXCEPT !.prog = 0]

\* Fault: the deadline is not looked at while the robot turns to a final heading.
DeadlineHit_NotTurning ==
  ~ctl.path /\ Deadline > 0 /\ clk.start > Deadline /\ motion # "turn"

DeadlineHit == ~ctl.path /\ Deadline > 0 /\ clk.start > Deadline

RotationSpent == RotateTimeout > 0 /\ clk.move > RotateTimeout

\* _terminal: zeros for some ticks, then nothing at all.
Terminal(reason, n) ==
  /\ terminal' = reason
  /\ quiet' = (n >= TerminalZeros)
  /\ motion' = IF quiet' THEN motion ELSE "stop"
  /\ zeros' = Least(n + 1, TerminalZeros)
  /\ report' = "blocked"
  /\ dt' = 0
  /\ at' = "wait"
  /\ UNCHANGED <<ctl, clk, realign, best, rereferred>>

StayTerminal ==
  /\ at = "step" /\ terminal # "none"
  /\ Terminal(terminal, zeros)

EnterTerminal(reason) == terminal = "none" /\ Terminal(reason, 0)

\* Arrival ends the goal at once.
Arrived ==
  /\ Result("stop", "arrived", clk)
  /\ ctl' = NoGoal
  /\ UNCHANGED <<realign, best, rereferred, terminal, zeros>>

\* A tick that keeps the goal; keptVars is what few of them change.
keptVars == <<ctl, terminal, zeros>>
Blocked ==
  /\ Result("stop", "blocked", ProgReset)
  /\ UNCHANGED <<keptVars, realign, best, rereferred>>

\* At the goal; a path only ends where end_is_goal says so.
AtGoal ==
  /\ ctl.path => ctl.last
  /\ \/ ~ctl.heading /\ Arrived
     \/ ctl.heading /\ DeadlineHit /\ EnterTerminal("deadline")
     \/ ctl.heading /\ ~DeadlineHit /\ RotationSpent /\ EnterTerminal("rotate_timeout")
     \/ /\ ctl.heading /\ ~DeadlineHit /\ ~RotationSpent
        /\ \/ Arrived      \* aligned
           \/ /\ Result("turn", "turn", clk)
              /\ UNCHANGED <<keptVars, realign, best, rereferred>>

\* Fault: the staleness of a path that ends at the goal is not looked at.
PathStale_AtHorizon == ctl.path /\ ~ctl.last /\ clk.rx > Stale

\* Of a path: its refreshes are overdue, or the robot is where it ends for now.
PathStale == ctl.path /\ clk.rx > Stale

AtHorizon ==
  /\ ctl.path /\ ~ctl.last
  /\ Result("stop", "starved", [clk EXCEPT !.prog = 0, !.move = 0])
  /\ UNCHANGED <<keptVars, realign, best, rereferred>>

\* No plan: a goto that is as close as it can get has arrived.
NoPlan == Blocked \/ (~ctl.path /\ Arrived)

\* Fault: re-aiming has its own budget only.
SweptBlocked_OwnBudget ==
  \/ /\ realign <= RealignTimeout
     /\ realign' = realign + dt
     /\ Result("turn", "turn", ProgReset)
     /\ UNCHANGED <<keptVars, best, rereferred>>
  \/ Blocked

\* The arc ahead is not clear: re-aim for a while, then block.
SweptBlocked ==
  \/ /\ realign <= RealignTimeout /\ RotationSpent
     /\ EnterTerminal("rotate_timeout")
  \/ /\ realign <= RealignTimeout /\ ~RotationSpent
     /\ realign' = realign + dt
     /\ Result("turn", "turn", ProgReset)
     /\ UNCHANGED <<keptVars, best, rereferred>>
  \/ Blocked

\* Everything step returns before it plans a command, the arrivals included.
StepWithoutCommand ==
  /\ at = "step" /\ HasGoal(ctl) /\ terminal = "none"
  /\ \/ AtGoal
     \/ DeadlineHit /\ EnterTerminal("deadline")
     \/ ~DeadlineHit /\ PathStale /\ Blocked
     \/ /\ ~DeadlineHit /\ ~PathStale
        /\ \/ AtHorizon
           \/ Blocked
           \/ NoPlan
           \/ ~ctl.path /\ Arrived          \* a best-effort endpoint is reached
  /\ UNCHANGED gateVars

MayGo == at = "step" /\ HasGoal(ctl) /\ terminal = "none" /\ ~DeadlineHit /\ ~PathStale

\* The command is recorded, which asks the gate; then it is vetoed.
StepVetoed ==
  /\ MayGo
  /\ CheckLease
  /\ (DepthActs /\ Blocked) \/ SweptBlocked

\* The command is clear: the gate holds it, or lets it pass.
StepHeld ==
  /\ MayGo /\ ShouldHold
  /\ UNCHANGED gateVars
  /\ Result("stop", "held", [clk EXCEPT !.prog = 0, !.move = 0])
  /\ UNCHANGED <<keptVars, realign, best, rereferred>>

StepPasses ==
  /\ MayGo /\ ~ShouldHold
  /\ CheckLease
  /\ at' = "go"
  /\ UNCHANGED <<ctl, clk, realign, dt, best, rereferred, terminal, zeros, motion, quiet, report>>

\* Turning in place is no progress and no lack of it.
GoTurn ==
  \/ RotationSpent /\ EnterTerminal("rotate_timeout")
  \/ /\ ~RotationSpent
     /\ best' = TRUE
     /\ Result("turn", "turn", ProgReset)
     /\ UNCHANGED <<keptVars, realign, rereferred>>

\* v_min while the refreshes are late.
Speed == IF ctl.path /\ clk.rx > Ttl THEN "crawl" ELSE "drive"

Forward(r, newClk) ==
  /\ Result(Speed, r, newClk)
  /\ best' = TRUE
  /\ rereferred' = FALSE

\* The first tick forward counts as a gain.  A path that was replaced or refreshed is
\* a new reference for gains, and leaves the clock alone.
GoForward ==
  /\ \/ Forward("gain", ProgReset)
     \/ best /\ Forward("adopt", clk)
     \/ best /\ ~rereferred /\ clk.prog <= NoProgress /\ Forward("follow", clk)
     \/ /\ best /\ ~rereferred /\ clk.prog > NoProgress
        /\ Result("stop", "blocked", clk)
        /\ UNCHANGED <<best, rereferred>>
  /\ UNCHANGED <<keptVars, realign>>

StepGoes ==
  /\ at = "go"
  /\ ConsumeContinue
  /\ GoTurn \/ GoForward

Step == StepWithoutCommand \/ StepVetoed \/ StepHeld \/ StepPasses \/ StepGoes
        \/ (StayTerminal /\ UNCHANGED gateVars)

===============================================================================
