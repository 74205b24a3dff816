------------------------------ MODULE SafetyLayer ------------------------------
(***************************************************************************)
(* The e-stop path of the robot: the watchdog and the motor controller,    *)
(* the pub/sub topics between them, the operator who re-arms and the       *)
(* senders of motion commands.                                             *)
(*                                                                         *)
(* Topics.  Reports on one topic (body/status) stay in order; an           *)
(* emergency_stop travels on a topic of its own at a higher priority and   *)
(* may pass a status or be passed by it.  Both are sent with DROP          *)
(* congestion control and can be lost (Lossy).  Somebody at the desktop    *)
(* may publish an emergency_stop too, which the watchdog does not see.  A  *)
(* re-arm is one message with two subscribers, each of which gets it late, *)
(* or never.                                                               *)
(*                                                                         *)
(* Time.  Tick ends a unit; it waits until the watchdog loop has nothing   *)
(* due, every report in flight has arrived (or was lost) and a control     *)
(* tick has run since the motor's last input: the loops (10 Hz, 50 Hz) and *)
(* the local network are much faster than a unit.                          *)
(***************************************************************************)
EXTENDS Watchdog, Motor, Sequences

CONSTANTS
  Lossy,          \* reports may be lost and a status tick may fail
  MotorRestarts,  \* motor_controller may crash and be started again
  QueueLen        \* reports the status topic buffers before it drops

ASSUME SafetyAssumption ==
  /\ Lossy \in BOOLEAN
  /\ MotorRestarts \in BOOLEAN
  /\ QueueLen \in Nat \ {0}
  /\ MotorHbTimeout = HbTimeout   \* both read watchdog.heartbeat_timeout_ms

VARIABLES
  statusQ,       \* body/status in flight to the motor, oldest first
  emergency,     \* a body/emergency_stop is in flight to the motor
  rearmTo,       \* subscribers the current body/estop_rearm has not reached
  settled,       \* environment: from now on heartbeats and messages get through
  mRearmed       \* history: the watchdog accepted a re-arm after taking the
                 \* report that the motor's mirrored level comes from

netVars == <<statusQ, emergency, rearmTo, settled>>
vars == <<wdVars, mVars, netVars, mRearmed>>

\* body/status as the motor reads it; rearmed is the report's history field.
StatusMsg(r) == [latched |-> r.latched, rearmed |-> r.rearmed]
StatusMsgs == [latched : BOOLEAN, rearmed : BOOLEAN]

Subscribers == {"watchdog", "motor"}

TypeOK ==
  /\ WdTypeOK
  /\ MotorTypeOK
  /\ statusQ \in Seq(StatusMsgs)
  /\ Len(statusQ) <= QueueLen
  /\ emergency \in BOOLEAN
  /\ rearmTo \in SUBSET Subscribers
  /\ settled \in BOOLEAN
  /\ mRearmed \in BOOLEAN

Init ==
  /\ WdInit
  /\ \E k \in Kinds : MotorBoot(k)
  /\ statusQ = <<>>
  /\ emergency = FALSE
  /\ rearmTo = {}
  /\ settled = FALSE
  /\ mRearmed = FALSE

-------------------------------------------------------------------------------
(* Watchdog                                                                  *)

HeartbeatAtWatchdog ==
  /\ WdHeartbeat
  /\ UNCHANGED <<mVars, netVars, mRearmed>>

Evaluate ==
  /\ WdEvaluate
  /\ UNCHANGED <<mVars, netVars, mRearmed>>

\* Fault: the topic grows instead.
Publish_Unbounded ==
  /\ WdPublish
  /\ emergency' = (emergency \/ wdReport.emergency)
  /\ statusQ' = Append(statusQ, StatusMsg(wdReport))
  /\ UNCHANGED <<mVars, rearmTo, settled, mRearmed>>

\* A full status topic drops the new report (CongestionControl.DROP).
Publish ==
  /\ WdPublish
  /\ emergency' = (emergency \/ wdReport.emergency)
  /\ statusQ' = IF Len(statusQ) < QueueLen THEN Append(statusQ, StatusMsg(wdReport)) ELSE statusQ
  /\ UNCHANGED <<mVars, rearmTo, settled, mRearmed>>

\* The status tick raises after the latch was evaluated: nothing is sent.
PublishFails ==
  /\ Lossy /\ ~settled
  /\ WdPublish
  /\ UNCHANGED <<mVars, netVars, mRearmed>>

(***************************************************************************)
(* A re-arm reaches the watchdog.  If it is accepted, the rearmed history  *)
(* of every earlier report is set: those in flight and the mirrored one.   *)
(***************************************************************************)
RearmAtWatchdog ==
  /\ "watchdog" \in rearmTo
  /\ rearmTo' = rearmTo \ {"watchdog"}
  /\ WdRearm
  /\ statusQ' = IF WdRearmAccepted
                   THEN [i \in 1 .. Len(statusQ) |-> [statusQ[i] EXCEPT !.rearmed = TRUE]]
                   ELSE statusQ
  /\ mRearmed' = (mRearmed \/ WdRearmAccepted)
  /\ UNCHANGED <<mVars, emergency, settled>>

-------------------------------------------------------------------------------
(* Motor controller                                                          *)

HeartbeatAtMotor ==
  /\ MotorHeartbeat
  /\ UNCHANGED <<wdVars, netVars, mRearmed>>

EmergencyAtMotor ==
  /\ emergency
  /\ emergency' = FALSE
  /\ MotorEmergency
  /\ UNCHANGED <<wdVars, statusQ, rearmTo, settled, mRearmed>>

StatusAtMotor ==
  /\ statusQ # <<>>
  /\ statusQ' = Tail(statusQ)
  /\ MotorOnStatus(Head(statusQ).latched)
  /\ mRearmed' = Head(statusQ).rearmed
  /\ UNCHANGED <<wdVars, emergency, rearmTo, settled>>

RearmAtMotor ==
  /\ "motor" \in rearmTo
  /\ rearmTo' = rearmTo \ {"motor"}
  /\ MotorRearm
  /\ UNCHANGED <<wdVars, statusQ, emergency, settled, mRearmed>>

CommandAtMotor ==
  /\ \E k \in Kinds, move \in BOOLEAN, asked \in 0 .. MaxLife + 1 :
       MotorCommand(k, move, asked)
  /\ UNCHANGED <<wdVars, netVars, mRearmed>>

ControlTick ==
  /\ \/ \E stuck \in BOOLEAN : MotorTick(stuck)
     \/ MotorTickFails
  /\ UNCHANGED <<wdVars, netVars, mRearmed>>

RestartMotor ==
  /\ MotorRestarts
  /\ \E k \in Kinds : MotorRestart(k)
  /\ mRearmed' = FALSE
  /\ UNCHANGED <<wdVars, netVars>>

-------------------------------------------------------------------------------
(* Operator, network and time                                                *)

\* Everything faster than a unit has happened.
UnitDone ==
  /\ wdPhase = "wait"
  /\ ~WdReady
  /\ statusQ = <<>>
  /\ ~emergency
  /\ ticked

SendRearm ==
  /\ rearmTo = {}
  /\ rearmTo' = Subscribers
  /\ UNCHANGED <<wdVars, mVars, statusQ, emergency, settled, mRearmed>>

\* An emergency_stop that is not the watchdog's.  It is sent when all is quiet and then
\* meets whatever happens before the next unit; on a settled link, where the operator
\* wants the robot back, none is sent.
DesktopStops ==
  /\ ~settled
  /\ UnitDone
  /\ emergency' = TRUE
  /\ UNCHANGED <<wdVars, mVars, statusQ, rearmTo, settled, mRearmed>>

LoseRearm ==
  /\ ~settled
  /\ \E s \in rearmTo : rearmTo' = rearmTo \ {s}
  /\ UNCHANGED <<wdVars, mVars, statusQ, emergency, settled, mRearmed>>

LoseEmergency ==
  /\ Lossy /\ ~settled
  /\ emergency
  /\ emergency' = FALSE
  /\ UNCHANGED <<wdVars, mVars, statusQ, rearmTo, settled, mRearmed>>

LoseStatus ==
  /\ Lossy /\ ~settled
  /\ statusQ # <<>>
  /\ statusQ' = Tail(statusQ)
  /\ UNCHANGED <<wdVars, mVars, emergency, rearmTo, settled, mRearmed>>

\* The link becomes good, and stays good.
Settle ==
  /\ Lossy /\ ~settled
  /\ settled' = TRUE
  /\ UNCHANGED <<wdVars, mVars, statusQ, emergency, rearmTo, mRearmed>>

Tick ==
  /\ UnitDone
  /\ settled => wdHbAge = 0 /\ mHbAge = 0   \* heartbeats are more frequent than units
  /\ WdAge
  /\ MotorAge
  /\ UNCHANGED <<netVars, mRearmed>>

Next ==
  \/ HeartbeatAtWatchdog \/ Evaluate \/ Publish \/ PublishFails \/ RearmAtWatchdog
  \/ HeartbeatAtMotor \/ EmergencyAtMotor \/ StatusAtMotor \/ RearmAtMotor
  \/ CommandAtMotor \/ ControlTick \/ RestartMotor
  \/ SendRearm \/ DesktopStops \/ LoseRearm \/ LoseEmergency \/ LoseStatus \/ Settle \/ Tick

Spec == Init /\ [][Next]_vars

-------------------------------------------------------------------------------
(* Safety                                                                    *)

(***************************************************************************)
(* A heartbeat that is lost is latched, however short the recovery before  *)
(* it: by the end of the unit in which the watchdog loses the heartbeat    *)
(* its latch is set.  hb_lost_announced must have been cleared by the loop *)
(* during the recovery and a re-arm must not have cleared the latch of a   *)
(* heartbeat that is still away (watchdog.update_heartbeat, rearm).        *)
(***************************************************************************)
LostHeartbeatLatched == (UnitDone /\ ~WdHbOk) => wdLatched

(***************************************************************************)
(* The mirrored level of the motor falls only because the watchdog         *)
(* accepted a re-arm after the report that raised it, with reports lost,   *)
(* dropped or taken before and published after that re-arm.  EStopLatch    *)
(* clears the motor's own latch on this edge.  A restarted process has no  *)
(* level to fall.                                                          *)
(***************************************************************************)
ClearFollowsRearm == [][(mStatus /\ ~mStatus') => (mRearmed \/ RestartMotor)]_vars

-------------------------------------------------------------------------------
(* Liveness                                                                  *)

(***************************************************************************)
(* The loops run, time passes, what is not lost arrives.  A status tick    *)
(* does not fail every time and a report is not lost every time (strong    *)
(* fairness on Publish and StatusAtMotor).  On a settled link heartbeats   *)
(* arrive; the operator re-arms while something is latched.                *)
(***************************************************************************)
Fairness ==
  /\ WF_vars(Evaluate) /\ SF_vars(Publish)
  /\ WF_vars(EmergencyAtMotor) /\ SF_vars(StatusAtMotor)
  /\ WF_vars(ControlTick) /\ SF_vars(Tick)
  /\ WF_vars(settled /\ wdHbAge > 0 /\ HeartbeatAtWatchdog)
  /\ WF_vars(settled /\ mHbAge > 0 /\ HeartbeatAtMotor)
  /\ WF_vars((wdLatched \/ MotorEStop) /\ SendRearm)
  /\ WF_vars(RearmAtWatchdog) /\ WF_vars(RearmAtMotor)

FairSpec == Spec /\ Fairness

(***************************************************************************)
(* On a good link an operator who keeps re-arming gets the robot out of    *)
(* the e-stop, whichever of the two latches is set and in whatever order   *)
(* emergency_stop and status arrived.                                      *)
(***************************************************************************)
RearmRecovers == settled ~> [](~wdLatched /\ ~MotorEStop)

(***************************************************************************)
(* If the heartbeat never comes back the motors stop for good, even when   *)
(* emergency stops and status reports are lost and re-arms keep arriving,  *)
(* unless the motor controller restarts again and again.                   *)
(***************************************************************************)
LostHeartbeatStops ==
  (<>[](~WdHbOk) /\ <>[][~RestartMotor]_vars) => <>[](~pwm)

===============================================================================
