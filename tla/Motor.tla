-------------------------------- MODULE Motor ---------------------------------
(***************************************************************************)
(* body/motor_controller.py with body/lib/wheel_control.py: the process    *)
(* that owns the motor outputs.  It keeps the motor-side e-stop latch, the *)
(* latest command of each kind with the lease its sender asked for, and    *)
(* the stall latch.  Callbacks store; the control tick decides the output. *)
(* Wheel speeds and the PI loop are abstracted to "output driven or zero". *)
(***************************************************************************)
EXTENDS Naturals

CONSTANTS
  MotorHbTimeout,  \* watchdog.heartbeat_timeout_ms as the motor reads it, in units
  Kinds,           \* the command topics: twist (cmd_vel), direct (cmd_direct)
  MinLife,         \* CMD_TIMEOUT_MIN_MS, in units
  MaxLife,         \* motor.cmd_timeout_max_ms, in units
  StallEnabled,    \* motor.stall_detect_enabled
  StallAfter       \* motor.stall_detect_ms, in units

ASSUME MotorAssumption ==
  /\ MotorHbTimeout \in Nat \ {0}
  /\ MinLife \in Nat /\ MaxLife \in Nat
  /\ MinLife <= MaxLife
  /\ StallEnabled \in BOOLEAN
  /\ StallAfter \in Nat

VARIABLES
  mLatched,      \* EStopLatch.latched
  mStatus,       \* EStopLatch.status_e_stop
  mHbAge,        \* units since last_hb_mono; MotorHbTimeout also stands for "never"
  cmds,          \* CommandArbiter._cmds
  newest,        \* the kind stored last (its recv_mono is the largest)
  stalled,       \* MotionState.stall_latched
  stallAge,      \* units since stall_begin_mono, NotStalling when it is None
  pwm,           \* some channel is driven
  ticked         \* history: a control tick has run since the last input or unit

mVars == <<mLatched, mStatus, mHbAge, cmds, newest, stalled, stallAge, pwm, ticked>>

(***************************************************************************)
(* A command: left counts the units in which it is still alive, the one in *)
(* which it was received included; it stands for recv_mono and timeout_s.  *)
(***************************************************************************)
Gone == [move |-> FALSE, left |-> 0]
Commands == [move : BOOLEAN, left : 0 .. MaxLife + 1]
NotStalling == StallAfter + 1

MotorTypeOK ==
  /\ mLatched \in BOOLEAN
  /\ mStatus \in BOOLEAN
  /\ mHbAge \in 0 .. MotorHbTimeout
  /\ cmds \in [Kinds -> Commands]
  /\ newest \in Kinds
  /\ stalled \in BOOLEAN
  /\ stallAge \in 0 .. NotStalling
  /\ pwm \in BOOLEAN
  /\ ticked \in BOOLEAN

\* A freshly started process: no latch, no command, outputs zero.
MotorBoot(kind) ==
  /\ mLatched = FALSE
  /\ mStatus = FALSE
  /\ mHbAge = MotorHbTimeout
  /\ cmds = [k \in Kinds |-> Gone]
  /\ newest = kind
  /\ stalled = FALSE
  /\ stallAge = NotStalling
  /\ pwm = FALSE
  /\ ticked = FALSE

MotorHbOk == mHbAge < MotorHbTimeout

\* EStopLatch.active
MotorEStop == mLatched \/ mStatus

MotorHeartbeat ==
  /\ mHbAge' = 0
  /\ UNCHANGED <<mLatched, mStatus, cmds, newest, stalled, stallAge, pwm, ticked>>

\* on_emergency_stop
MotorEmergency ==
  /\ mLatched' = TRUE
  /\ ticked' = FALSE
  /\ UNCHANGED <<mStatus, mHbAge, cmds, newest, stalled, stallAge, pwm>>

\* Fault: the mirror is only ever raised.
MirrorAfter_Sticky(level) == mStatus \/ level

MirrorAfter(level) == level

\* on_status: mirror the level; its falling edge also clears the latch.
MotorOnStatus(level) ==
  /\ mStatus' = MirrorAfter(level)
  /\ mLatched' = (mLatched /\ ~(mStatus /\ ~level))
  /\ ticked' = FALSE
  /\ UNCHANGED <<mHbAge, cmds, newest, stalled, stallAge, pwm>>

\* Fault: a re-arm clears the mirrored level too.
MotorRearm_ClearsMirror ==
  /\ mLatched' = (mLatched /\ ~MotorHbOk)
  /\ mStatus' = (mStatus /\ ~MotorHbOk)
  /\ ticked' = FALSE
  /\ UNCHANGED <<mHbAge, cmds, newest, stalled, stallAge, pwm>>

\* on_estop_rearm: refused without a fresh heartbeat; never touches the mirror.
MotorRearm ==
  /\ mLatched' = (mLatched /\ ~MotorHbOk)
  /\ ticked' = FALSE
  /\ UNCHANGED <<mStatus, mHbAge, cmds, newest, stalled, stallAge, pwm>>

\* Fault: the sender's lease is not bounded.
Clamped_Unbounded(asked) == asked

\* clamp_timeout_ms: the lease a sender gets for the one it asked for.
Clamped(asked) ==
  IF asked > MaxLife THEN MaxLife ELSE IF asked < MinLife THEN MinLife ELSE asked

\* _on_motion: commands are stored whatever the e-stop state; zero clears a stall.
MotorCommand(kind, move, asked) ==
  /\ cmds' = [cmds EXCEPT ![kind] = [move |-> move, left |-> Clamped(asked) + 1]]
  /\ newest' = kind
  /\ stalled' = (stalled /\ move)
  /\ ticked' = FALSE
  /\ UNCHANGED <<mLatched, mStatus, mHbAge, stallAge, pwm>>

\* Fault: the lease is not looked at.
Live_Always(k) == cmds[k].left >= 0

\* StoredCommand.expired, and CommandArbiter.select: expired commands are dropped,
\* the most recently received of the others is the active one.
Live(k) == cmds[k].left > 0
LiveKinds == {k \in Kinds : Live(k)}
ActiveKind ==
  IF newest \in LiveKinds THEN newest ELSE CHOOSE k \in LiveKinds : TRUE

(***************************************************************************)
(* One control tick.  stuck is what the encoders say: the wheels do not    *)
(* turn although the output is above the stall threshold.                  *)
(***************************************************************************)
MotorTick(stuck) ==
  LET driving == ~MotorEStop /\ LiveKinds # {} /\ cmds[ActiveKind].move
      stalling == StallEnabled /\ ~stalled /\ driving /\ stuck
      trips == stalling /\ stallAge = StallAfter
  IN /\ cmds' = [k \in Kinds |-> IF Live(k) THEN cmds[k] ELSE Gone]
     /\ stalled' = (stalled \/ trips)
     /\ stallAge' = IF ~stalling \/ trips THEN NotStalling
                    ELSE IF stallAge = NotStalling THEN 0 ELSE stallAge
     /\ pwm' = (driving /\ ~stalled')
     /\ ticked' = TRUE
     /\ UNCHANGED <<mLatched, mStatus, mHbAge, newest>>

\* A tick that raises: the outputs are zeroed and the loop goes on.
MotorTickFails ==
  /\ pwm' = FALSE
  /\ ticked' = TRUE
  /\ UNCHANGED <<mLatched, mStatus, mHbAge, cmds, newest, stalled, stallAge>>

\* One unit of time passes.
MotorAge ==
  /\ mHbAge' = IF MotorHbOk THEN mHbAge + 1 ELSE mHbAge
  /\ cmds' = [k \in Kinds |->
                [cmds[k] EXCEPT !.left = IF @ > 0 THEN @ - 1 ELSE @]]
  /\ stallAge' = IF stallAge < StallAfter THEN stallAge + 1 ELSE stallAge
  /\ ticked' = FALSE
  /\ UNCHANGED <<mLatched, mStatus, newest, stalled, pwm>>

(***************************************************************************)
(* The process dies and the launcher starts it again.  Its exit path (or   *)
(* the launcher's fail-safe, when it could not run) zeroes the outputs.    *)
(***************************************************************************)
MotorRestart(kind) ==
  /\ mLatched' = FALSE
  /\ mStatus' = FALSE
  /\ mHbAge' = MotorHbTimeout
  /\ cmds' = [k \in Kinds |-> Gone]
  /\ newest' = kind
  /\ stalled' = FALSE
  /\ stallAge' = NotStalling
  /\ pwm' = FALSE
  /\ ticked' = FALSE

===============================================================================
