---------------------------- MODULE SafetyHistory -----------------------------
(***************************************************************************)
(* SafetyLayer with history variables, for the properties that speak of    *)
(* what happened earlier.  They only observe: every step is a step of      *)
(* SafetyLayer.                                                            *)
(***************************************************************************)
EXTENDS SafetyLayer

VARIABLES
  wdRearmed,     \* the watchdog accepted a re-arm since it started
  stopOwed,      \* an emergency_stop reached the motor, and no re-arm followed
  moveAge,       \* units since the last non-zero motion command
  restarted,     \* the motor controller has been restarted
  exposure       \* units in a row, and since the last restart of the motor
                 \* controller, that ended driven while the watchdog was latched

hVars == <<vars, wdRearmed, stopOwed, moveAge, restarted, exposure>>

HTypeOK ==
  /\ TypeOK
  /\ wdRearmed \in BOOLEAN
  /\ stopOwed \in BOOLEAN
  /\ moveAge \in 0 .. MaxLife + 2
  /\ restarted \in BOOLEAN
  /\ exposure \in 0 .. StatusPeriod + 1

HInit ==
  /\ Init
  /\ wdRearmed = FALSE
  /\ stopOwed = FALSE
  /\ moveAge = MaxLife + 2
  /\ restarted = FALSE
  /\ exposure = 0

Capped(n, cap) == IF n < cap THEN n + 1 ELSE n

HTick ==
  /\ Tick
  /\ moveAge' = Capped(moveAge, MaxLife + 2)
  /\ exposure' = IF pwm /\ wdLatched THEN Capped(exposure, StatusPeriod + 1) ELSE 0
  /\ UNCHANGED <<wdRearmed, stopOwed, restarted>>

HCommandAtMotor ==
  /\ CommandAtMotor
  /\ moveAge' = IF cmds'[newest'].move THEN 0 ELSE moveAge
  /\ UNCHANGED <<wdRearmed, stopOwed, restarted, exposure>>

HRearmAtWatchdog ==
  /\ RearmAtWatchdog
  /\ wdRearmed' = (wdRearmed \/ WdRearmAccepted)
  /\ UNCHANGED <<stopOwed, moveAge, restarted, exposure>>

HEmergencyAtMotor ==
  /\ EmergencyAtMotor
  /\ stopOwed' = TRUE
  /\ UNCHANGED <<wdRearmed, moveAge, restarted, exposure>>

\* An accepted re-arm, or the watchdog's report that it accepted one.
HClear ==
  /\ \/ RearmAtMotor /\ stopOwed' = (stopOwed /\ ~MotorHbOk)
     \/ StatusAtMotor /\ stopOwed' = (stopOwed /\ ~(mStatus /\ ~mStatus'))
  /\ UNCHANGED <<wdRearmed, moveAge, restarted, exposure>>

HRestartMotor ==
  /\ RestartMotor
  /\ restarted' = TRUE
  /\ exposure' = 0
  /\ UNCHANGED <<wdRearmed, stopOwed, moveAge>>

HOther ==
  /\ \/ HeartbeatAtWatchdog \/ Evaluate \/ Publish \/ PublishFails
     \/ HeartbeatAtMotor \/ ControlTick
     \/ SendRearm \/ DesktopStops \/ LoseRearm \/ LoseEmergency \/ LoseStatus \/ Settle
  /\ UNCHANGED <<wdRearmed, stopOwed, moveAge, restarted, exposure>>

HNext ==
  \/ HTick \/ HCommandAtMotor \/ HRearmAtWatchdog \/ HEmergencyAtMotor
  \/ HClear \/ HRestartMotor \/ HOther

HSpec == HInit /\ [][HNext]_hVars

(***************************************************************************)
(* Dead-man: whatever else goes wrong, the motors are not driven longer    *)
(* than the longest lease after the last non-zero command was received,    *)
(* plus the unit in which the control tick notices.  Neither a command of  *)
(* the other kind, however short its lease, nor an e-stop and re-arm in    *)
(* between extends it (CommandArbiter.select, StoredCommand.expired, tick).*)
(***************************************************************************)
OutputNeedsFreshCommand == pwm => moveAge <= MaxLife + 1

(***************************************************************************)
(* As long as no report is lost and the motor controller is not restarted, *)
(* no unit ends with the watchdog latched and a motor driven: neither a    *)
(* re-arm that reached only the motor, nor one that overtook the report of *)
(* the latch, nor commands that keep arriving, get around the watchdog.    *)
(***************************************************************************)
NeverDrivenWhileLatched == (UnitDone /\ wdLatched /\ ~restarted) => ~pwm

(***************************************************************************)
(* The motor controller boots without a latch.  If it is restarted while   *)
(* the watchdog is latched it may drive, for one status period at most:    *)
(* the next body/status stops it (EStopLatch.on_status).                   *)
(***************************************************************************)
DrivenForOneStatusPeriod == exposure <= StatusPeriod

(***************************************************************************)
(* docs/body_project_spec.md section 5.10: once an emergency_stop has      *)
(* reached the motor controller its output stays at zero until a re-arm.   *)
(***************************************************************************)
StoppedUntilRearmed == (ticked /\ pwm) => ~stopOwed

===============================================================================
