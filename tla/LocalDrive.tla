------------------------------ MODULE LocalDrive -------------------------------
(***************************************************************************)
(* body/local_drive.py: the Tier-3 process.  Its control tick reads the    *)
(* arbiter once under the lock, releases it, and comes back to the arbiter *)
(* later (drop, idle_status, finish); the goto callback runs on another    *)
(* thread and may change the goal between any two of those steps.  The     *)
(* controller is abstracted to the outcome of one step.                    *)
(***************************************************************************)
EXTENDS GotoArbiter

VARIABLES
  estop,        \* EStopMonitor.active()
  resetPending, \* odom_reset_pending
  phase,        \* where the tick is: see Phases
  g,            \* the id of the tick's copy of the goal
  tickEstop,    \* the tick's copy of estop
  moving        \* was_active: this process has last published a cmd_vel that is not zero

tickVars == <<phase, g, tickEstop, moving>>
piVars == <<arbVars, estop, resetPending, tickVars>>

\* wait: between ticks; drop: odom was reset under a goal; stop: e-stop branch,
\* fault: its status; idle: no goal; step: goal; done: ARRIVED is published.
Phases == {"wait", "drop", "stop", "fault", "idle", "step", "done"}

PiTypeOK ==
  /\ ArbTypeOK
  /\ estop \in BOOLEAN
  /\ resetPending \in BOOLEAN
  /\ phase \in Phases
  /\ g \in IdOrNone
  /\ tickEstop \in BOOLEAN
  /\ moving \in BOOLEAN

\* The monitor starts clear, whatever the latches are, until a report comes.  wm
\* is not NoId when this process has served an earlier desktop session.
PiInit(wm) ==
  /\ ArbInit(wm)
  /\ estop = FALSE
  /\ resetPending = FALSE
  /\ phase = "wait"
  /\ g = NoId
  /\ tickEstop = FALSE
  /\ moving = FALSE

(***************************************************************************)
(* body/drive/status.  wm is there on REJECTED only.  BLOCKED is DRIVING   *)
(* under another name to everything modelled here.                         *)
(***************************************************************************)
States == {"IDLE", "DRIVING", "ARRIVED", "CANCELED", "FAULT", "REJECTED"}
Status == [state : States, id : Ids, wm : IdOrNone]
Msg(state, id) == [state |-> state, id |-> id, wm |-> NoId]
RejectMsgs == [i \in DOMAIN rejects |->
                 [state |-> "REJECTED", id |-> rejects[i], wm |-> watermark]]

-------------------------------------------------------------------------------
(* Callbacks                                                                 *)

\* on_goto
GotoCallback(m) ==
  /\ OnCommand(m, estop)
  /\ UNCHANGED <<estop, resetPending, tickVars>>

\* on_estop, on_status, on_motor_state: the monitor's verdict changes.
EStopChanges ==
  /\ estop' = ~estop
  /\ UNCHANGED <<arbVars, resetPending, tickVars>>

\* on_odom: the ring reports a reset of the odometry frame.
OdomReset ==
  /\ ~resetPending
  /\ resetPending' = TRUE
  /\ UNCHANGED <<arbVars, estop, tickVars>>

-------------------------------------------------------------------------------
(* The tick.  The operators named ...Msgs are what its steps publish.        *)

EndTick ==
  /\ phase' = "wait"
  /\ g' = NoId
  /\ tickEstop' = FALSE

\* The locked snapshot; the rejects taken with it are published first.
Snapshot ==
  /\ phase = "wait"
  /\ TakeRejects
  /\ g' = goal.id
  /\ tickEstop' = estop
  /\ resetPending' = FALSE
  /\ phase' = IF resetPending /\ HasGoal THEN "drop"
              ELSE IF estop THEN "stop"
              ELSE IF HasGoal THEN "step" ELSE "idle"
  /\ UNCHANGED <<estop, moving>>

\* drop_goal("odom_reset"), then on as if there had been no goal.
DropOnReset ==
  /\ phase = "drop"
  /\ Drop("odom_reset")
  /\ g' = NoId
  /\ phase' = IF tickEstop THEN "stop" ELSE "idle"
  /\ UNCHANGED <<estop, resetPending, tickEstop, moving>>

\* The e-stop branch drops the goal if the snapshot had one, and commands zero.
DropOnEStop ==
  /\ phase = "stop"
  /\ IF g # NoId THEN Drop("e_stop") ELSE UNCHANGED arbVars
  /\ phase' = "fault"
  /\ moving' = FALSE
  /\ UNCHANGED <<estop, resetPending, g, tickEstop>>

\* It then reads the arbiter again for the id that FAULT e_stop is reported under.
EStopMsgs == <<Msg("FAULT", IF fault.id # NoId THEN fault.id ELSE Larger(0, watermark))>>

ReportEStop ==
  /\ phase = "fault"
  /\ EndTick
  /\ UNCHANGED <<arbVars, estop, resetPending, moving>>

IdleMsgs == <<Msg(IdleState, IdleId)>>

\* Fault: no zero command when the goal is gone; the motors coast.
Idle_Coasts ==
  /\ phase = "idle"
  /\ IdleStatus
  /\ EndTick
  /\ UNCHANGED <<estop, resetPending, moving>>

Idle ==
  /\ phase = "idle"
  /\ IdleStatus
  /\ EndTick
  /\ moving' = FALSE
  /\ UNCHANGED <<estop, resetPending>>

\* No usable odometry: zero, FAULT odom_stale, the goal is kept.
OdomStale ==
  /\ phase = "step"
  /\ EndTick
  /\ moving' = FALSE
  /\ UNCHANGED <<arbVars, estop, resetPending>>

\* The controller steps: it drives, waits or blocks.  moving' is what it commands;
\* an unchanged value also stands for its silence after a terminal block.
Drive ==
  /\ phase = "step"
  /\ EndTick
  /\ moving' \in BOOLEAN
  /\ UNCHANGED <<arbVars, estop, resetPending>>

\* The controller is at the goal: zero, and ARRIVED for this one tick.
Arrive ==
  /\ phase = "step"
  /\ phase' = "done"
  /\ moving' = FALSE
  /\ UNCHANGED <<arbVars, estop, resetPending, g, tickEstop>>

FinishGoal ==
  /\ phase = "done"
  /\ Finish(g)
  /\ EndTick
  /\ UNCHANGED <<estop, resetPending, moving>>

\* The process dies and the launcher starts it again.  was_active starts FALSE: what the
\* old process commanded last, the new one does not take back; it ends with its lease
\* in the motor controller (Motor).
PiRestart ==
  /\ goal' = NoGoal
  /\ watermark' = NoId
  /\ canceled' = NoId
  /\ fault' = NoFault
  /\ rejects' = <<>>
  /\ estop' = FALSE
  /\ resetPending' = FALSE
  /\ EndTick
  /\ moving' = FALSE

\* An exception anywhere in the tick: zero, and the goal of that moment is dropped.
FailMsgs == <<Msg("FAULT", IF HasGoal THEN goal.id ELSE Larger(0, watermark))>>

TickFails ==
  /\ phase # "wait"
  /\ Drop("internal_error")
  /\ EndTick
  /\ moving' = FALSE
  /\ UNCHANGED <<estop, resetPending>>

===============================================================================
