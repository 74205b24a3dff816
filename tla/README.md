# A TLA+ model of Body

Body is a two-wheeled robot. A Raspberry Pi on the robot runs a set of Python
processes (`body/`) that a launcher starts and restarts; a desktop computer runs
navigation and the operator's windows (`desktop/`). Everything talks JSON over
Zenoh topics, across WiFi between desktop and Pi. This directory holds TLA+
models of the parts of that system where the order of events decides whether
the robot does the right thing, the TLC configurations that check them, and
TLAPS proofs, for all values of the constants, of every invariant and action
property that those configurations check.

Paths and line numbers below refer to the repository.

## 1. The system

| Component | State it keeps | Operations | Hard behaviour |
|---|---|---|---|
| watchdog (`body/watchdog.py`) | e-stop latch, announcement flag, time of the last heartbeat, next status | heartbeat, re-arm, loop: evaluate under a lock, publish after it | callbacks between the two halves; a failing status tick |
| motor_controller (`body/motor_controller.py`, `lib/wheel_control.py`) | its own latch, the watchdog's level as mirrored from `body/status`, one leased command per topic, stall latch | heartbeat, emergency stop, status, re-arm, motion command, 50 Hz tick | two latches to keep in step over topics that reorder and drop; leases; restarts |
| local_drive, "Tier 3" (`body/local_drive.py`, `lib/local_drive_core.py`) | the goal, the id watermark, a pending CANCELED, a latched fault, rejects | goto, path, cancel; 10 Hz tick | the tick reads the arbiter, unlocks, and comes back to it |
| tier3_controller, handoff_gate (`lib/`) | clocks and budgets of one goal, terminal block, arms and tokens | step, start_goal, update_path | a goal must end; terminal silence; leases |
| drive_client (`desktop/pi_drive/`) | newest id, highest id seen, the pending command, acknowledged and failed ids | send, cancel, status, resend | three threads; puts outside the lock; loss |
| hierarchical_drive, patrol, recovery (`desktop/nav/`) | leg state machine, escalation ladder, retry window; fault phases | tick, go, stop, resume, teleop, advice; re-localize, re-arm | two machines to keep in step; who owns the robot's one goal; budgets |
| launcher (`body/launcher.py`) | process handles, failures, liveness of the telemetry, kill deadlines | supervise, start, reap, kill, back-off, shut down | hung motor controller, false alarms, a signal at any moment |
| chassis controller, tier2_session, sweep_mission | teleoperation, a second reader of drive status, a scripted sweep | | |
| localization, fusion, SLAM, mapping | particle filters, EKF, maps | | numeric |
| perception workers, voice | bounded queues, cooldowns | submit, offer, pop | exactly one answer per job |
| sensor drivers, windows, tools | | | device I/O, Qt |

How they interact. The desktop sends a heartbeat; watchdog and motor_controller
both listen to it. A lost heartbeat makes the watchdog latch, publish one
`body/emergency_stop` and from then on `body/status` with `e_stop_active`.
The motor controller stops on either. `body/estop_rearm` goes to both and each
decides for itself. Independently, the desktop sends goals on `body/drive/goto`;
local_drive follows them with the Tier-3 controller, commands `body/cmd_vel`,
which the motor controller leases, and reports on `body/drive/status`, which
drive_client and the navigation read. The hierarchical drive sends those goals
leg by leg, and hands over to recovery when it is lost or blocked; recovery may
re-arm the robot by itself. An inspector may arm breakpoints ("handoffs") in
drive and controller. The launcher watches the telemetry of every process on
the Pi. Shared state within a process is guarded by one lock; what is
done after releasing it is where the models look.

What makes the components correct, in a sentence each:

- watchdog and motor controller: a robot whose desktop is gone stops and stays
  stopped until somebody re-arms it, and a re-arm does give it back;
- motor controller: an output needs a command that is still leased;
- goto link: a goal that ended does not come back, an acknowledgement is true, a
  cancel is obeyed or known not to have been, and what is read as "arrived" is;
- goto service, the abstraction of that link: one goal at a time, taken in the
  order of the ids, and an end for good;
- Tier-3 controller: turning, waiting, driving without progress and driving on an
  old path are bounded, a goal that is blocked for good stays blocked, a breakpoint
  holds no longer than its lease;
- hierarchical drive and recovery: a drive that is stopped leaves no goal behind,
  the user's hands and a goal never share the wheels, a block is always being worked
  on, retries are bounded, a recovery comes to an end;
- launcher: no process is killed for its predecessor's silence, a hung one is
  replaced, a dead or hung motor controller has its outputs zeroed.

`PROJECT.json` lists all components, with what is and is not modelled, and the
hazards, each with the properties that would catch it.

## 2. The modules

```
Watchdog   Motor              GotoArbiter     DriveClient
     \      /                      |              |
    SafetyLayer                LocalDrive         |     GotoService
     |       \                      \            /      (refined by)
SafetyHistory SafetyLayerProofs       DriveLink ............/
     |    \      |                     |      \
     |   SafetyHistoryProofs      MCDriveLink  DriveLinkProofs
MCSafetyLayer                                     |
                                            DriveSafetyProofs

HandoffGate                 Recovery   PatrolRunner
     |                            \       /
Tier3Controller                  HierDrive             Launcher
     |                               |                  |     \
Tier3Drive                       HierSystem       MCLauncher  LauncherProofs
     |      \                     |      \                    /
MCTier3Drive Tier3Proofs   MCHierSystem  HierProofs   NumberLemmas
                                               (used by HierProofs, LauncherProofs)
```

The families meet at their interfaces. What `Tier3Drive` does in a tick is what
`LocalDrive` calls `Drive`, `OdomStale` or `Arrive`; what the whole link may report
is what `HierDrive` takes as any status; what `Launcher` does to a process is
`MotorRestart` and `RestartPi` in the others. Each interface is an
over-approximation: the module above allows every outcome that the module below
produces, and more.

### Watchdog, Motor, SafetyLayer, SafetyHistory

`Watchdog` has one action per callback (`WdHeartbeat`, `WdRearm`) and one for
each half of the loop body: `WdEvaluate` (under the lock: `update_heartbeat`,
then the snapshot) and `WdPublish` (after it). The callbacks run on other
threads and fall between the two. `WdReady` is the inner wait: status due,
woken by a re-arm, or heartbeat newly lost.

`Motor` has the callbacks and the control tick. Wheel speeds and the PI loop
are reduced to `pwm`, "some output is driven". A command is `[move, left]` per
topic: non-zero or not, and how long it is still alive, which stands for its receive
time and timeout. `Clamped` is the bound on what a sender may ask for. `newest`
replaces the comparison of receive times. `MotorTickFails` is the exception path,
`MotorRestart` the death of the process and its next start; both zero the
outputs (the `finally` block, or the launcher when that did not run).

`SafetyLayer` puts the topics between them: `statusQ` in order, `emergency` on a
topic of its own and thus before or after any status, `rearmTo` the receivers a
re-arm still has to reach, loss of each where `Lossy` or always for re-arms. A
full `statusQ` drops the new report, as Zenoh does with `DROP`
(`lib/zenoh_helpers.py:14-38, 97-114`). The environment sends heartbeats,
commands and re-arms whenever it likes. `settled` is a link that has become good.
The desktop may also publish a `body/emergency_stop` of its own (`DesktopStops`), as
`put_kwargs(sender="desktop")` foresees, although nothing in the repository does. The
watchdog does not listen to it, so the motor then latches alone. It is sent when a
unit's work is done, which keeps the runs small and still lets it meet everything that
the next unit brings, and not on a settled link, where the operator wants the robot back.

Time is counted in whole units. `Tick` ends a unit when the loops have nothing
left to do in it and what was sent has arrived or been lost (`UnitDone`): the loops
and the network are much faster than the unit of one second in which the
timeouts are given (heartbeat timeout 2000 ms, status 1 Hz, longest lease
1000 ms). Within a unit everything interleaves.

Two fields are history: `rearmed` marks a report that was taken before an
accepted re-arm, and `mRearmed` is that mark of the report the motor mirrors.
`SafetyHistory` adds variables that only observe, for properties that speak of
the past; every step of it is a step of `SafetyLayer`.

### GotoArbiter, LocalDrive, DriveClient, DriveLink

`GotoArbiter` is the class of that name. `on_command` is one action per way it
can return: `OnCancel`, `OnRefresh`, `OnDuplicate`, `OnStale`, `OnMalformed`,
`OnGoto`. `drop`, `finish`, `take_rejects` and `idle_status` are the rest.

`LocalDrive` is the process. Its tick is split where it releases the lock:
`Snapshot`, then a branch by what the snapshot saw (odometry reset, e-stop, no
goal, goal), which goes back to the arbiter later (`DropOnReset`,
`DropOnEStop`, `ReportEStop`, `Idle`, `FinishGoal`, `TickFails`). `GotoCallback`
may run between any two of them. A step of the controller is its outcome:
`Drive` (drives, waits or blocks), `OdomStale`, or `Arrive`. The e-stop monitor
is its verdict, which changes freely.

`DriveClient` has the three threads. `Issue` and `PumpResend` are the locked
halves of a send and of a resend, `CallerPuts` and `PumpPuts` the puts after
the lock. Allocating the id and tracking the command are two locked sections in
the code and one step here: the state read in between belongs to the one thread
that sends. Timers are left out: a command that is pending may time out at any
moment. `DriveLink` joins the client or clients and the process by a topic each
way, both lossy; a put on the goto topic waits while it is full (`BLOCK`), a
status is dropped (`DROP`). The resend limit is `MaxResends`.

Switches bound what a run has: `PiRestarts`, `DesktopRestarts`, `OdomResets`,
`Malformed`, and `AtomicPuts` (no other thread of the client runs between lock and
put; without it the second finding of section 5). A restart of the process forgets
what it knew; commands on their way to it and its last statuses may still arrive.
`moving` is the process's own `was_active`; what the motor controller still holds
leased at that moment is `Motor`'s. The variables `ended`, `arrived`, `stray` and `cancels` only observe.

`GotoService` is what this link amounts to for whoever uses it: a state of two
variables, the goal and the ids taken so far, and three actions. `Take` accepts
a command that is newer than all before it (and may revoke or refuse), `End` drops
the goal for good, `Restart` forgets everything. `DriveLink` implements it under
the mapping `Service`: the goal's id, and with it the ids that ended or were refused.

### HandoffGate, Tier3Controller, Tier3Drive

`HandoffGate` has one action per message (`Arm`, `Disarm`, `Continue`) and the
two calls of a producer, `ShouldHold` and `ConsumeContinue`. A lease is the
time it has left, or `NoLease` for one that is absent or not positive; every
question to the gate checks it first (`CheckLease`).

`Tier3Controller` is the class of that name. Its geometry (costmap, planner,
vetoes, steering) is reduced to the answers that `step` branches on, any of which
may come in any tick. What remains is exact: every clock (`clk`), budget, latch
and early return, in the order of the code. `step` is cut in two after the
question to the gate, because a message may arrive between it and
`consume_continue`. A deadline or a rotation budget of 0 is none. `motion` is the last motion command, `quiet` a tick that
publishes none, as after the zeros of a terminal block.

`Tier3Drive` is the tick of `local_drive.py` around it: new goals, path refreshes,
lost odometry, no goal, and the commands and inspector messages that arrive between
any two steps. It has seven history variables, each the thing a
property is about, measured from outside and not from the controller's own clocks:
how long the robot has turned without translating, how long no path was taken, and so on.

### Recovery, PatrolRunner, HierDrive, HierSystem

`Recovery` is `RecoverySupervisor` with `LinkEStopGuard` and the hooks that
`main_window.py` gives it. `step` either does not resume (`RecWaits`) or does
(`RecResumes`). The robot's e-stop is part of it, as nobody else looks at it.
`PatrolRunner` counts waypoints and laps.

`HierDrive` is the drive. A tick of the code runs the handler of its state and
goes on while that hands over to SELECT or ADVANCE; here each handler is a step
and `hop` says which of the tick it is. What other threads supply (pose,
breakpoints, e-stop) may change between two handlers. The user's actions (`Go`,
`Stop`, `RequestResume`, teleop) and the block adjudicator's (`Advise`) come
between ticks, on the thread that ticks. `live` is the goal that the robot may
have, as far as the drive can know: a goal it sent and neither cancelled nor
saw the end of. `EnterBlocked`, `EnterSuspended`, `Escalate` and the
`Enter...` actions of the ladder follow the methods of those names. `HierSystem`
adds the surroundings. `Inspect` is a step of `StepSpec` only.

Abstractions to know of: where the robot is, what a plan finds and what the robot
reports are any. Long timers (leg deadline, stall, waits of the ladder) may
run out at any tick; the retry window and interval are counted, because a property
is about them. `lead_in` is left out (`main_window.py` never passes one),
and so are the repeated cancel after a link loss, the wait for the final turn, and
`_rp_best` with the other fields that only choose among outcomes the
model allows anyway. Advice may come at any moment of a run of blocks, more often than the
adjudicator gives it. `TickBlocked` is disabled without a run; that this never
happens is `BlockedIsHandled`.

### Launcher

One pass of the loop is several steps: the liveness block (`Supervise`), one step
per managed process in list order (`KillsHung`, `Reaps`, `Starts`,
`StartFails`, `LeavesAlone`), then the sleep or the shutdown block (`Finish`).
Processes publish, hang, exit and come back, the link goes up and down, and
signals arrive between any two of them. `pwm` is the kernel's output, which
outlives the process that set it and which a motor controller may change as
long as it lives, whatever its telemetry says. Time is counted in sleeps of
the loop and the timeouts are scaled down. Abstractions: a sample arrives at once
or is lost with the link; SIGKILL is immediate; `failsafe_zero_pwm` succeeds; a
monitor that could not open its session is a link that is down; a process that dies of
SIGKILL is reaped in the same pass or in the next one; the length of the
wait in the shutdown block is left open.

## 3. The runs

| Run | Module | Properties |
|---|---|---|
| `timing` | MCSafetyLayer | HTypeOK, LostHeartbeatLatched, NeverDrivenWhileLatched, OutputNeedsFreshCommand, DrivenForOneStatusPeriod |
| `lossy` | SafetyLayer | TypeOK, ClearFollowsRearm, RearmRecovers, LostHeartbeatStops |
| `race` | MCDriveLink | TypeOK, EndedStaysEnded, AckedMeansHandled, IdleMeansArrived |
| `live` | MCDriveLink | CancelStopsOrIsReported, StopsWithoutGoal, AckedCancelStops, ImplementsService |
| `tier3` | MCTier3Drive | TypeOK, RotationBounded, GotoEndsByDeadline, StalePathStops, TerminalIsFinal, OneHandoffPerContinue, StuckIsNoticed, HoldEndsWithLease |
| `hier` | MCHierSystem | HierTypeOK, StoppedMeansRevoked, BoundedRetries, RecoveryInStep, BlockedIsHandled, TeleopOwnsWheels, BackoffNeverShrinks, BlockedGoesOn, RecoveryEnds |
| `launcher` | MCLauncher | LauncherTypeOK, MotorlessIsZeroed, JudgedByOwnSamples, HungIsReplaced, ShutdownEnds |
| `reboot`, `stale_cancel`, `idle`, `step`, `outage` | | one property each, which the code violates (section 5) |

What they show:

- `timing`: no heartbeat loss goes unlatched, even when the heartbeat comes back
  for a moment between two status ticks. While no report is lost and the motor
  controller is not restarted, no unit ends with the watchdog latched and a motor
  driven, whichever receiver a re-arm reached. After a restart that lasts one status
  period at most. No output outlives the longest lease after the last non-zero
  command, through command arbitration and e-stops.
- `lossy`: with loss, drops, reordering, restarts of the motor controller and
  reports published after the re-arm they precede, the mirrored level of the motor
  falls for an accepted re-arm only (or with the process). On a link that has become
  good an operator who keeps re-arming does get the robot back. A desktop that is
  gone stops the motors for good, unless the process restarts again and again.
- `race`: with the threads of the client interleaving freely, no goal comes back
  (late resends, refreshes of a revoked path) and no lost command is acknowledged.
  The desktop reads IDLE under a goto's id as its arrival. An id that is over and is
  reported IDLE has arrived: a goal that was dropped, refused or revoked does not
  decay into IDLE, wherever in a tick the commands come. Two kinds of id are excepted, in
  the history variable `stray`: those of commands that did not parse, and goals that were
  ended (or whose fault was cleared) by a cancel that is not newer. An id that is
  reported IDLE and is not over is the third finding of section 5.
- `live`: a cancel stops the robot or it, or a command after it, is reported in
  `ack_failed`; a robot without a goal, or e-stopped, is commanded to stop. An
  acknowledged cancel stays in force and also survives a crash of the Tier-3
  process, as long as no resend of the older goto is held up between lock and put
  over that crash (`AtomicPuts`): the restarted process has no watermark to refuse
  it by. And every step of the link is a step of `GotoService`.
- `tier3`: however aligning, re-aiming and a final heading alternate, the robot does not
  turn for longer than the rotation budget without translating (holds, waits at
  the horizon and new routes excepted, see section 5); a goto is
  terminally blocked by its deadline in whatever it was doing; a robot that does not
  get closer along its path stops, and refreshes do not put that off; a
  path that is no longer refreshed is crawled along and then left; a terminal block
  never moves the robot again and sends exactly its zeros; no more handoffs
  pass than the inspector let through; and an inspector who is gone holds nobody.
- `hier`: a drive that is stopped for whatever reason has revoked its goal, and
  the goal that backs off from a block does not outlive that rung while the drive is
  stopped; no handler runs with a goal out while the user drives by hand; retries stay within the retry window however many goals
  they send; a BLOCKED drive is always being worked on and comes to its recovery
  again and again; drive and recovery start and stop together; a recovery ends, the
  wait for the latch and the automatic re-arm do not block each other; and while a fault
  lasts the wait for the next re-localization does not get shorter, although an attempt that
  succeeds begins the verification, and the count of attempts, anew.
- `launcher`: wheels are zeroed once the motor controller is seen to be gone and when the
  launcher has ended; a process is only judged by samples of its own run; one that hangs
  is replaced as long as another proves the link up; a signal ends everything.

Bounds. In `SafetyLayer` ages are capped where the code stops distinguishing
them, so only the length of `statusQ` and the constants are bounds. A heartbeat
timeout of two units and a period of one (the configured ratio) allow a loss, a
recovery and another loss within a period; leases of less than a unit and of one
(the code gives 50 to 1000 ms) let an old command of one topic outlive a newer one of
the other (`timing`; `lossy` has one topic and one lease); a queue of two has a report
overtaken by a re-arm and one behind it.
In `DriveLink`, `MaxId` bounds the commands: two suffice for a resend that comes late,
for a goal revoked by a cancel and for a refused one (`race`, `live`). One resend each
has both a successful resend and giving up. One place per topic still has a command
in flight with another waiting, and a dropped status. `race` takes an odometry reset that comes
within a tick as one right after it (`ResetsBetweenTicks`, a state constraint): only the
next snapshot looks at the flag, so the two are the same to everything else.

In `tier3` time is counted in ticks of length one or two (`MaxStep`), so that a limit can be
stepped over. The deadline (4) is longer than the rotation budget (2), and both are
longer than the no-progress and re-aim limits (1), the order they have in the
configuration; a path is late after 1 and stale after 2. Goals are a goto with a
final heading, a whole path and a path that ends at the horizon, which covers every
branch of `step`; a second goal or refresh may come at any time, so the number of
them is not bounded.

In `hier` every limit is 1 and the patrol has two waypoints, the first one to be
visited and the second one that may be given up: one retry, one rejected goal,
one re-localization, waits of one and then two, and then the next. `MaxHops` is that of the
code. Breakpoints are off there and one is on in `step`: in path mode they
violate `HeldMeansStopped`, and the theorems of section 4 cover them.

In `launcher` two processes are each other's proof that the link is up. The motor
controller's timeout equals the window, the other's is longer, as configured;
a grace, a stable run and a back-off of one or two ticks reach each of their ends.
Stall detection is off, as in the shipped `config.json`, except in the theorems.
The symmetry in `timing` is between the two command topics, which the code
treats alike.

`RestartMotor` and `Lossy` are not combined with `NeverDrivenWhileLatched`:
a latch can then only be learned from the next status that arrives, and that
is what `DrivenForOneStatusPeriod` and `LostHeartbeatStops` say.

Fairness. Loops and threads run: weak fairness on each of their actions. A
status tick does not raise every time and a report is not lost every time:
strong fairness on `Publish` and `StatusAtMotor`; time passes: strong fairness
on `Tick`, which other steps disable again and again within a unit.
`RearmRecovers` also assumes what it is about, a link that is good from some
point on (`settled`), heartbeats on it, and an operator who re-arms while
something is latched. `DriveLink` has weak fairness on the tick, the client's
threads and delivery, and none that keeps the link from losing everything.
`HierSystem` has weak fairness on the window's timer (`Tick`), strong fairness on
`BlockEnds`: an advisory hold, a wait and a back-off manoeuvre have a time limit in
the code, which the model's free timers would let run for ever, and strong
fairness on `RearmArrives`: a re-arm that is sent again and again gets through at some point.
`RecoveryEnds` names what may keep a recovery going. `Launcher` has weak fairness
on the loop, strong fairness on its sleep (it ends although the link flaps), and weak
fairness on a flowing process publishing. Nothing makes a hung process exit on SIGTERM.
`tier3` has safety properties only: its deadlines are bounds on time.

## 4. What is proved

Every invariant and action property that a passing run checks is a theorem, and so is
the refinement of `GotoService`; what stays with TLC alone is liveness. The
theorems are in `SafetyLayerProofs`, `SafetyHistoryProofs`, `DriveLinkProofs`,
`DriveSafetyProofs`, `Tier3Proofs`, `HierProofs` and `LauncherProofs`, with lemmas about
least and largest numbers in `NumberLemmas`. They hold for all values of the constants
that satisfy the assumptions the modules name
(`WatchdogAssumption`, `MotorAssumption`, `SafetyAssumption`, `DriveLinkAssumption`,
`GateAssumption`, `Tier3Assumption`, `DriveAssumption`, `RecoveryAssumption`,
`PatrolAssumption`, `HierAssumption`, `SystemAssumption`, `LauncherAssumption`), and,
where the table says so, a further hypothesis (explained below):

| Theorem | States | Argument |
|---|---|---|
| SafetyLayerProofs `TypeCorrect` | `Spec => []TypeOK` | component by component: each step of `Next` is a step, or a stutter, of the watchdog and of the motor (`NextSplits`) |
| `LostHeartbeatIsLatched` | `Spec => []LostHeartbeatLatched` | `AnnouncedInv`: the flag is set without the latch only while the heartbeat is fresh and the loop has been woken. Otherwise a second loss would find the flag set and not be latched |
| `MirrorFallsAfterRearm` | `Spec => ClearFollowsRearm` | `LevelInv`: what holds of the mirrored level against the queue, of two reports in the queue, and of the report being published against the latch; a latched level is followed by a lower one only if a re-arm came between |
| SafetyHistoryProofs `HistoryOnlyObserves`, `HistoryTypeCorrect` | `HSpec => Spec`, `HSpec => []HTypeOK` | each step with history is a step without it, so the theorems above carry over |
| `OutputIsFresh` | `HSpec => []OutputNeedsFreshCommand` | `LeaseInv`: what is left of a moving command's lease and the time since the last one came are at most the longest lease together |
| `LatchReachesMotor` | `HSpec => [](NeverDrivenWhileLatched /\ DrivenForOneStatusPeriod)`, assuming `Lossy = FALSE` | `LatchInv`, `ReachInv`: see below |
| DriveLinkProofs `TypeCorrect` | `Spec => [](TypeOK /\ CopyInv)` | needs `CopyInv`: the tick's copy of the goal is an id in the phases that publish under it |
| `GoalsEndOnce` | `Spec => []EndedStaysEnded` | `EndedInv`: the goal and all ended ids are at or below the watermark, and a goal is taken above it only |
| `AcksAreTrue` | `Spec => []AckedMeansHandled`, assuming `PiRestarts = FALSE` | `AckInv`: every id the process holds, and every status in flight, is at or below the watermark, so a status that answers a command has seen its id handled |
| `LinkIsService` | `Spec => ImplementsService` | the refinement: `Init` maps to `Init`; a callback that takes a command is `Take`, whose id is above all taken ones because the watermark bounds them; the ways to leave a goal are `End`; a crash is `Restart`; every other action leaves goal and taken ids alone |
| DriveSafetyProofs `AckedCancelsHold` | `Spec => []AckedCancelStops`, assuming `OneProgram` and `AtomicPuts \/ ~PiRestarts` | `ClientInv`, `GoalInv`, `StatusInv`, and `OrderInv` where puts are atomic: see below |
| `IdleIsArrival` | `Spec => IdleMeansArrived`, for any number of clients | `RememberedInv`: see below |
| Tier3Proofs `ControllerTypeCorrect` | `Spec => []TypeOK`, assuming `SomeLeaseIsLongest` | by one lemma per return of `step` |
| `HoldsEnd` | `Spec => []HoldEndsWithLease`, assuming `ArmLease \in Nat` and `SomeLeaseIsLongest` | `LeaseInv`: the silence of the inspector and what is left of the lease are at most the longest lease together |
| `ControllerIsBounded` | `Spec => [](RotationBounded /\ GotoEndsByDeadline /\ StalePathStops /\ StuckIsNoticed /\ TerminalIsFinal /\ OneHandoffPerContinue)` | `Tier3Inv`: each history of the wheels is bounded by the controller's clock that stands for it; see below |
| HierProofs `DriveIsSafe` | `Spec \/ StepSpec => [](StoppedMeansRevoked /\ BlockedIsHandled /\ RecoveryInStep /\ TeleopOwnsWheels)` | `DriveInv`, by one step per handler and user action; see below |
| `RetriesAreBounded` | `Spec \/ StepSpec => []BoundedRetries` | `RetryInv`: between two retries lies an interval of the age of the run, so `tries * Interval` is at most the window |
| `DriveTypeCorrect` | `Spec \/ StepSpec => []HierTypeOK` | needs `RejectInv` and `CycleInv`: a leg beyond its rejects, or a ladder beyond its cycles, has ended |
| `BackoffOnlyGrows` | `Spec \/ StepSpec => BackoffNeverShrinks`, assuming `BackoffsIncrease` | `FailsOnlyGrow`: no step of a recovery that goes on lowers the count of failures, and later back-offs are not shorter |
| LauncherProofs `MotorStopsWithController` | `Spec => []MotorlessIsZeroed` | `WheelsInv`: what is alive is held by the launcher, and a motor controller that is not held drives nothing |
| `LauncherTypeCorrect` | `Spec => []LauncherTypeOK`, assuming `PowersAreNatural` | the stages of a pass follow the list of processes; each counter stays within its cap |
| `SamplesAreOwn` | `Spec => JudgedByOwnSamples` | `SampleInv`: a process that has not published since its start is not armed in the monitor |

`EndedStaysEnded` alone is not inductive: nothing in it keeps a goal of a low id
from being taken again; the watermark does. `AckedMeansHandled` alone is not
either: a status in flight could claim an id that was never handled. The
theorems of `DriveLinkProofs` hold for any number of clients, ids, resends and queue places, while
the runs have one client.

The properties of `ControllerIsBounded` compare what the wheels have done with a
limit, while the code compares a clock of its own that other events reset, too. So
`Tier3Inv` says that each history is at most that clock (`ClocksCover`: `spun` and the
time since the last translation, `stuck` and `prog_at`, `unfed` and `path_rx_at`,
`aged` and `goal_started_at`). Added to that are: the zeros published since a
terminal block are those the controller counts; a goal the gate let pass is not late
in the second half of the step; and a token, outside of that half, is a continue no
handoff has used. The lemma `Steps` goes through the returns of `step` and finds that
each stops, turns, goes forward, ends in a terminal block or is let pass (`Outcome`).
The limits, the goals and the length of a tick are arbitrary, so the proof
does not rest on the short ticks of the run.

The four properties of `DriveIsSafe` are proved together because each needs the
others. `TeleopOwnsWheels` needs that teleop lets only a suspended drive tick, and
that a suspended drive has no goal; this needs to know on which rung a goal may be out,
which needs that a drive that moves has not given up and is on no rung of the ladder, and that
a drive on the ladder is BLOCKED, or was suspended off it by the user. The last two
are what `DriveInv` adds. Its step lemma also covers `Inspect`.

`MotorlessIsZeroed` is not inductive because a controller that is alive but
no longer held could drive the wheels; `WheelsInv` excludes one.

`NeverDrivenWhileLatched` and `DrivenForOneStatusPeriod` need to know where the latch is
on its way to the motor. `LatchInv`: a newly lost heartbeat finds nothing under
way, because a unit ends only with an empty queue and a loop that waits, so
while the watchdog is latched every report under way says so. `ReachInv`: then the
latch is mirrored, in the queue, or about to be published. After a
restart of the motor controller it may be nowhere, but the units driven since and
those until the next report are one status period. `Lossy = FALSE` is what the first
property says itself ("as long as no report is lost"); the run has it, too.

`AckedCancelStops` says that a goal is gone, and stays gone, once its cancel is acknowledged. In
the proof this is `Gone(c, i)`: the goal is not of an id up to `i`, and every goto or path
up to `i` that still waits to be put or is in flight is at or below the watermark, which
refuses it. A status under a cancel's id makes it true (`GoalInv`: the process
has no goal while its watermark is a cancel's), and every later step keeps it,
because the client sends nothing older for the first time again (`ClientInv`). The
hypotheses are needed: TLC finds a counterexample without each.

- `OneProgram`: the clients are one, and its ids begin above the watermark that the process
  starts with. The code means its ids to "strictly exceed any previous session's"
  (`drive_client.py:56-63`); two programs may give the same id, and then
  each takes the other's status for its own.
- `AtomicPuts \/ ~PiRestarts`: a resend that is held up between lock and put may arrive after a
  restart, which forgets the watermark.

`IdleIsArrival` needs none of them. `RememberedInv` says that a watermark whose goal is over
without having arrived is the latched fault's id, or one of the exceptions, and that a
goal leaves no fault beside it, so each way to drop a goal finds the place for its fault
free. Both exceptions are in the code: a cancel clears goal and fault whatever its id and
leaves the watermark where it was (`lib/local_drive_core.py:458-465`), and a command that
does not parse raises the watermark without becoming a goal (498-501), after which an idle
process reports IDLE under it. `drive_client` sends numbers, and no path of less than
two points, so only a path that is not finite or too long would be one (405-420).

`BackoffNeverShrinks` needs `BackoffsIncrease`, that later back-offs of
`relocalize_backoff_s` are not shorter than earlier ones, as in its default
(`desktop/nav/recovery.py:39`).

`HoldEndsWithLease` is about the longest lease in use, so one must exist: a set of
leases without an upper bound has none. `local_drive.py:116` gives its gate a
finite default (`handoff_arm_lease_s`, 5.0), which is `ArmLease \in Nat`; a gate whose default
is no lease holds for as long as the inspector likes. `PowersAreNatural` says that
`2^n` is a natural number for the back-off; the provers know nothing of powers.

`StepSpec` is the drive with an inspector who arms breakpoints. The theorems of
`HierProofs` hold for it as well, and the run `hier` only for `Spec`.

Out of the provers' reach: liveness under fairness (`RearmRecovers`, `LostHeartbeatStops`,
`CancelStopsOrIsReported`, `StopsWithoutGoal`, `BlockedGoesOn`, `RecoveryEnds`,
`HungIsReplaced`, `ShutdownEnds`), which TLC checks. Induction is by least counterexample
(`NumberLemmas`), with the well-founded order of the naturals.

## 5. Where the code and its documents disagree

1. A restarted motor controller has no latch (`reboot`):
   `body/motor_controller.py:157` against `docs/body_project_spec.md:350`.
2. A resent cancel that is put after a newer goto drops the newer goal
   (`stale_cancel`): `desktop/pi_drive/drive_client.py:243`, with
   `lib/local_drive_core.py:458-465`, against `docs/tier_contract.md:49`.
3. A goto accepted in the middle of an idle tick is reported IDLE, which is read
   as arrival, while it is the goal (`idle`): `body/local_drive.py:405` against
   `docs/tier_contract.md:46`.
4. In path mode a drive that is held for a second time does not cancel its
   goal (`step`): `desktop/nav/hierarchical_drive.py:1014` returns before
   the lines that take the token and clear the held tier (1049-1051), so `_hold`
   does not cancel at the next hold, taking it for the one it already shows; against its own comment
   (1259-1261). In goto mode the same property fails in another way: a resume
   while the drive backs off leaves that goal live (below).
5. When the link comes back after an outage the first topic to arrive makes all
   other processes look stale, and they are terminated (`outage`):
   `body/launcher.py:101` against `body/launcher.py:69-71`.

Each is a run that TLC refutes, with the shortest trace. Smaller observations,
which no run is spent on:

- The watchdog latches at boot only if no heartbeat comes before the first pass of
  its loop (`body/watchdog.py:123`); `docs/body_project_spec.md:361` says that it
  always does.
- The rotation budget is also reset by a hold, a wait at the horizon and a new
  route; `lib/tier3_controller.py:94-96` and 274-275 say that only
  translation resets it. `RotationBounded` is stated with these exceptions.
- An armed robot at a breakpoint still turns to re-aim or to its final heading: these
  branches of `step` come before the question to the gate
  (`lib/tier3_controller.py:539`).
- A resume while the drive backs off from a block leaves the unstick goal live
  while the drive is ALIGNING; `StoppedMeansRevoked` speaks of stopped drives only.
- Teleop armed while the drive is already suspended for a lost pose does not turn
  that into a suspension by the user, so the recovery may resume by itself after
  teleop is released, against `notify_teleop`'s comment
  (`desktop/nav/hierarchical_drive.py:671-673`).
- The motor controller's telemetry timeout is not longer than the transport window, so
  at the beginning of an outage it may be restarted on the last sample of another topic.
- An automatic re-arm may clear an e-stop whose message was lost on the way to the
  desktop; `LinkEStopGuard` says so.

## 6. What is not modelled, and why

Left out for good: the wheel and pose arithmetic, particle filters, EKF, SLAM, grid
planning, image and scan comparison, map tools, device I/O, Qt windows, scripts.
This is most of the code by size: its state is floating point data, images or
files, and it has little control to get wrong in an order of events. What
the modelled parts ask of it (a plan exists, the arc is clear, the pose is good) is
a free choice in the models. The map therefore covers a small share of
the repository's lines and most of the lines that decide who drives the robot.

Left out though it has control:

- `tier2_session` and `sweep_mission` are further users of the goto link. What they
  may rely on is `GotoService` and the properties of `race` and `live`; a second user at
  the same time needs ids that collide on purpose, and no document says what the
  two programs promise each other.
- The localizer's phases and `stream_epoch` decide when a pose is fresh. `HierSystem`
  lets the pose come and go freely, which is more than they can do.
- `vlm_worker` and `speech_queue` are bounded queues of their own, without an
  effect on the drive.
- exploration and tasks choose waypoints, which are free in `HierSystem`.
- Configuration, message formats, logging and records are left out everywhere.

What a continuation would take up, in this order: `Tier3Drive` as an implementation
of the controller step that `LocalDrive` takes for granted; an abstract specification of
the safety layer (an output needs a heartbeat or a re-arm) that `SafetyLayer` implements;
the count of laps in `PatrolRunner`; and `StreamEpoch` with the localizer's phases.
