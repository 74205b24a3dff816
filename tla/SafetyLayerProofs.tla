--------------------------- MODULE SafetyLayerProofs ---------------------------
(***************************************************************************)
(* Proofs about SafetyLayer, for every timeout, period, queue length and   *)
(* set of command topics.                                                  *)
(***************************************************************************)
EXTENDS SafetyLayer, TLAPS

\* What the assumptions on the constants say, in one place.
LEMMA ConstantTypes ==
  /\ HbTimeout \in Nat /\ HbTimeout > 0
  /\ StatusPeriod \in Nat /\ StatusPeriod > 0
  /\ MotorHbTimeout \in Nat /\ MotorHbTimeout > 0
  /\ MinLife \in Nat /\ MaxLife \in Nat /\ MinLife <= MaxLife
  /\ StallAfter \in Nat
  /\ QueueLen \in Nat /\ QueueLen > 0
  BY WatchdogAssumption, MotorAssumption, SafetyAssumption
     DEF WatchdogAssumption, MotorAssumption, SafetyAssumption

-------------------------------------------------------------------------------
(* Type correctness                                                          *)

LEMMA InitType == Init => TypeOK
  <1> SUFFICES ASSUME Init PROVE TypeOK
    OBVIOUS
  <1>1. WdTypeOK
    <2>1. WdInit
      BY DEF Init
    <2>2. /\ wdLatched \in BOOLEAN /\ wdAnnounced \in BOOLEAN /\ wdWake \in BOOLEAN
          /\ wdPhase \in {"wait", "publish"}
      BY <2>1 DEF WdInit
    <2>3. wdHbAge \in 0 .. HbTimeout /\ wdDue \in 0 .. StatusPeriod
      BY <2>1, ConstantTypes DEF WdInit
    <2>4. wdReport \in Reports
      BY <2>1 DEF WdInit, NoReport, Report, Reports
    <2> QED
      BY <2>2, <2>3, <2>4 DEF WdTypeOK
  <1>2. MotorTypeOK
    <2>1. PICK k \in Kinds : MotorBoot(k)
      BY DEF Init
    <2>2. /\ mLatched \in BOOLEAN /\ mStatus \in BOOLEAN /\ newest \in Kinds
          /\ stalled \in BOOLEAN /\ pwm \in BOOLEAN /\ ticked \in BOOLEAN
      BY <2>1 DEF MotorBoot
    <2>3. mHbAge \in 0 .. MotorHbTimeout /\ stallAge \in 0 .. NotStalling
      BY <2>1, ConstantTypes DEF MotorBoot, NotStalling
    <2>4. Gone \in Commands
      BY ConstantTypes DEF Gone, Commands
    <2>5. cmds \in [Kinds -> Commands]
      BY <2>1, <2>4 DEF MotorBoot
    <2> QED
      BY <2>2, <2>3, <2>5 DEF MotorTypeOK
  <1>3. /\ statusQ \in Seq(StatusMsgs) /\ Len(statusQ) <= QueueLen
        /\ rearmTo \in SUBSET Subscribers
    BY ConstantTypes DEF Init
  <1>4. emergency \in BOOLEAN /\ settled \in BOOLEAN /\ mRearmed \in BOOLEAN
    BY DEF Init
  <1> QED
    BY <1>1, <1>2, <1>3, <1>4 DEF TypeOK

\* The steps of the watchdog keep its types.
LEMMA WatchdogStepType ==
  ASSUME WdTypeOK,
         \/ WdHeartbeat \/ WdRearm \/ WdEvaluate \/ WdPublish \/ WdAge
         \/ UNCHANGED wdVars
  PROVE  WdTypeOK'
  <1>1. /\ wdLatched' \in BOOLEAN /\ wdAnnounced' \in BOOLEAN /\ wdWake' \in BOOLEAN
        /\ wdPhase' \in {"wait", "publish"}
    BY DEF WdTypeOK, WdHeartbeat, WdRearm, WdEvaluate, WdPublish, WdAge, wdVars,
           WdLatchedAfter, WdAnnouncedAfter
  <1>2. wdHbAge' \in 0 .. HbTimeout
    BY ConstantTypes
       DEF WdTypeOK, WdHeartbeat, WdRearm, WdEvaluate, WdPublish, WdAge, wdVars, WdHbOk
  <1>3. wdDue' \in 0 .. StatusPeriod
    BY ConstantTypes
       DEF WdTypeOK, WdHeartbeat, WdRearm, WdEvaluate, WdPublish, WdAge, wdVars
  <1>4. wdReport' \in Reports
    <2>1. \A e, l \in BOOLEAN : Report(e, l) \in Reports
      BY DEF Report, Reports
    <2>2. \A r \in Reports : [r EXCEPT !.rearmed = TRUE] \in Reports
      BY DEF Reports
    <2>3. WdNewlyLost \in BOOLEAN /\ WdLevel \in BOOLEAN
      BY DEF WdTypeOK, WdNewlyLost, WdLevel, WdLatchedAfter
    <2> QED
      BY <2>1, <2>2, <2>3
         DEF WdTypeOK, WdHeartbeat, WdRearm, WdEvaluate, WdPublish, WdAge, wdVars, NoReport
  <1> QED
    BY <1>1, <1>2, <1>3, <1>4 DEF WdTypeOK

\* Every step of Next, seen by the motor controller alone.
MotorStep ==
  \/ MotorHeartbeat \/ MotorEmergency \/ MotorRearm
  \/ \E level \in BOOLEAN : MotorOnStatus(level)
  \/ \E k \in Kinds, move \in BOOLEAN, asked \in Nat : MotorCommand(k, move, asked)
  \/ \E stuck \in BOOLEAN : MotorTick(stuck)
  \/ MotorTickFails \/ MotorAge
  \/ \E k \in Kinds : MotorRestart(k)
  \/ UNCHANGED mVars

\* The steps of the motor controller keep its types.
LEMMA MotorStepType ==
  ASSUME MotorTypeOK, MotorStep
  PROVE  MotorTypeOK'
  <1>1. /\ mLatched' \in BOOLEAN /\ mStatus' \in BOOLEAN /\ newest' \in Kinds
        /\ stalled' \in BOOLEAN /\ pwm' \in BOOLEAN /\ ticked' \in BOOLEAN
    BY DEF MotorTypeOK, MotorStep, MotorHeartbeat, MotorEmergency, MotorRearm,
           MotorOnStatus, MirrorAfter, MotorCommand, MotorTick, MotorTickFails,
           MotorAge, MotorRestart, mVars
  <1>2. mHbAge' \in 0 .. MotorHbTimeout
    BY ConstantTypes
       DEF MotorTypeOK, MotorStep, MotorHeartbeat, MotorEmergency, MotorRearm,
           MotorOnStatus, MotorCommand, MotorTick, MotorTickFails,
           MotorAge, MotorHbOk, MotorRestart, mVars
  <1>3. stallAge' \in 0 .. NotStalling
    BY ConstantTypes
       DEF MotorTypeOK, MotorStep, MotorHeartbeat, MotorEmergency, MotorRearm,
           MotorOnStatus, MotorCommand, MotorTick, MotorTickFails,
           MotorAge, MotorRestart, mVars, NotStalling
  <1>4. cmds' \in [Kinds -> Commands]
    <2>1. Gone \in Commands
      BY ConstantTypes DEF Gone, Commands
    <2>2. \A move \in BOOLEAN, asked \in Nat :
            [move |-> move, left |-> Clamped(asked) + 1] \in Commands
      BY ConstantTypes DEF Commands, Clamped
    <2>3. \A c \in Commands :
            [c EXCEPT !.left = IF @ > 0 THEN @ - 1 ELSE @] \in Commands
      BY ConstantTypes DEF Commands
    <2>4. CASE \E k \in Kinds, move \in BOOLEAN, asked \in Nat : MotorCommand(k, move, asked)
      BY <2>2, <2>4 DEF MotorTypeOK, MotorCommand
    <2>5. CASE \E stuck \in BOOLEAN : MotorTick(stuck)
      BY <2>1, <2>5 DEF MotorTypeOK, MotorTick
    <2>6. CASE MotorAge
      BY <2>3, <2>6 DEF MotorTypeOK, MotorAge
    <2>7. CASE \E k \in Kinds : MotorRestart(k)
      BY <2>1, <2>7 DEF MotorRestart
    <2> QED
      BY <2>4, <2>5, <2>6, <2>7
         DEF MotorTypeOK, MotorStep, MotorHeartbeat, MotorEmergency, MotorRearm,
             MotorOnStatus, MotorTickFails, mVars
  <1> QED
    BY <1>1, <1>2, <1>3, <1>4 DEF MotorTypeOK

\* Every step of Next, seen by the watchdog alone.
WatchdogStep ==
  WdHeartbeat \/ WdRearm \/ WdEvaluate \/ WdPublish \/ WdAge \/ UNCHANGED wdVars

\* A step of the system is a step of each process, or leaves it alone.
LEMMA NextSplits ==
  ASSUME TypeOK, [Next]_vars
  PROVE  WatchdogStep /\ MotorStep
  <1>1. WatchdogStep
    BY DEF WatchdogStep, Next, vars, HeartbeatAtWatchdog, Evaluate, Publish, PublishFails,
           RearmAtWatchdog, HeartbeatAtMotor, EmergencyAtMotor, StatusAtMotor, RearmAtMotor,
           CommandAtMotor, ControlTick, RestartMotor, SendRearm, DesktopStops, LoseRearm, LoseEmergency,
           LoseStatus, Settle, Tick
  <1>2. StatusAtMotor => \E level \in BOOLEAN : MotorOnStatus(level)
    <2>1. StatusAtMotor => Head(statusQ) \in StatusMsgs
      BY DEF StatusAtMotor, TypeOK
    <2> QED
      BY <2>1 DEF StatusAtMotor, StatusMsgs
  <1>3. MotorStep
    BY <1>2 DEF MotorStep, Next, vars, HeartbeatAtWatchdog, Evaluate, Publish, PublishFails,
           RearmAtWatchdog, HeartbeatAtMotor, EmergencyAtMotor, StatusAtMotor, RearmAtMotor,
           CommandAtMotor, ControlTick, RestartMotor, SendRearm, DesktopStops, LoseRearm, LoseEmergency,
           LoseStatus, Settle, Tick
  <1> QED
    BY <1>1, <1>3

\* The queue of reports that RearmAtWatchdog marks.
LEMMA MarkedQueue ==
  ASSUME NEW q \in Seq(StatusMsgs)
  PROVE  LET marked == [i \in 1 .. Len(q) |-> [q[i] EXCEPT !.rearmed = TRUE]]
         IN  /\ marked \in Seq(StatusMsgs)
             /\ Len(marked) = Len(q)
             /\ \A i \in 1 .. Len(marked) : marked[i].rearmed
  <1> DEFINE marked == [i \in 1 .. Len(q) |-> [q[i] EXCEPT !.rearmed = TRUE]]
  <1>1. \A m \in StatusMsgs : [m EXCEPT !.rearmed = TRUE] \in StatusMsgs
    BY DEF StatusMsgs
  <1>2. \A m \in StatusMsgs : [m EXCEPT !.rearmed = TRUE].rearmed
    BY DEF StatusMsgs
  <1>3. marked \in Seq(StatusMsgs) /\ Len(marked) = Len(q)
    BY <1>1
  <1>4. \A i \in 1 .. Len(q) : q[i] \in StatusMsgs /\ marked[i] = [q[i] EXCEPT !.rearmed = TRUE]
    OBVIOUS
  <1>5. \A i \in 1 .. Len(marked) : marked[i].rearmed
    BY <1>2, <1>3, <1>4, Zenon
  <1> QED
    BY <1>3, <1>5

LEMMA StepType == ASSUME TypeOK, [Next]_vars PROVE TypeOK'
  <1>1. WdTypeOK' /\ MotorTypeOK'
    BY NextSplits, WatchdogStepType, MotorStepType DEF TypeOK, WatchdogStep
  <1>2. emergency' \in BOOLEAN /\ settled' \in BOOLEAN /\ rearmTo' \in SUBSET Subscribers
    BY DEF TypeOK, WdTypeOK, Reports, Subscribers, Next, vars, netVars, HeartbeatAtWatchdog,
           Evaluate, Publish, PublishFails, RearmAtWatchdog, HeartbeatAtMotor,
           EmergencyAtMotor, StatusAtMotor, RearmAtMotor, CommandAtMotor, ControlTick,
           RestartMotor, SendRearm, DesktopStops, LoseRearm, LoseEmergency, LoseStatus, Settle, Tick
  <1>3. mRearmed' \in BOOLEAN
    <2>1. StatusAtMotor => Head(statusQ).rearmed \in BOOLEAN
      <3>1. StatusAtMotor => Head(statusQ) \in StatusMsgs
        BY DEF StatusAtMotor, TypeOK
      <3> QED
        BY <3>1 DEF StatusMsgs
    <2> QED
      BY <2>1 DEF TypeOK, Next, vars, HeartbeatAtWatchdog,
           Evaluate, Publish, PublishFails, RearmAtWatchdog, HeartbeatAtMotor,
           EmergencyAtMotor, StatusAtMotor, RearmAtMotor, CommandAtMotor, ControlTick,
           RestartMotor, SendRearm, DesktopStops, LoseRearm, LoseEmergency, LoseStatus, Settle, Tick
  <1>4. statusQ' \in Seq(StatusMsgs) /\ Len(statusQ') <= QueueLen
    <2>0. statusQ \in Seq(StatusMsgs) /\ Len(statusQ) <= QueueLen /\ wdReport \in Reports
      BY DEF TypeOK, WdTypeOK
    <2>1. CASE Publish
      <3>1. StatusMsg(wdReport) \in StatusMsgs
        BY <2>0 DEF Reports, StatusMsg, StatusMsgs
      <3> QED
        BY <2>0, <2>1, <3>1, ConstantTypes DEF Publish
    <2>2. CASE RearmAtWatchdog
      BY <2>0, <2>2, MarkedQueue DEF RearmAtWatchdog
    <2>3. CASE StatusAtMotor \/ LoseStatus
      BY <2>0, <2>3, ConstantTypes DEF StatusAtMotor, LoseStatus
    <2>4. CASE UNCHANGED statusQ
      BY <2>0, <2>4
    <2> QED
      BY <2>1, <2>2, <2>3, <2>4
         DEF Next, vars, netVars, HeartbeatAtWatchdog, Evaluate, PublishFails,
             HeartbeatAtMotor, EmergencyAtMotor, RearmAtMotor, CommandAtMotor, ControlTick,
             RestartMotor, SendRearm, DesktopStops, LoseRearm, LoseEmergency, Settle, Tick
  <1> QED
    BY <1>1, <1>2, <1>3, <1>4 DEF TypeOK

(***************************************************************************)
(* Every variable keeps its type, for every size of the instance.          *)
(***************************************************************************)
THEOREM TypeCorrect == Spec => []TypeOK
  <1>1. TypeOK /\ [Next]_vars => TypeOK'
    BY StepType
  <1> QED
    BY InitType, <1>1, PTL DEF Spec

-------------------------------------------------------------------------------
(* Lost heartbeats                                                           *)

(***************************************************************************)
(* The announced flag outlives the latch only while the heartbeat is back  *)
(* and the loop has been woken to notice: what the accepted re-arm does.   *)
(***************************************************************************)
AnnouncedInv == (wdAnnounced /\ ~wdLatched) => (wdWake /\ WdHbOk)

LEMMA AnnouncedStep ==
  ASSUME TypeOK, AnnouncedInv, [Next]_vars
  PROVE  AnnouncedInv'
  <1>0. WdTypeOK
    BY DEF TypeOK
  <1>1. CASE WdHeartbeat
    BY <1>0, <1>1, ConstantTypes DEF AnnouncedInv, WdHeartbeat, WdHbOk, WdTypeOK
  <1>2. CASE WdRearm
    BY <1>0, <1>2 DEF AnnouncedInv, WdRearm, WdRearmAccepted, WdHbOk, WdTypeOK
  <1>3. CASE WdEvaluate
    BY <1>0, <1>3 DEF AnnouncedInv, WdEvaluate, WdLatchedAfter, WdAnnouncedAfter,
                      WdNewlyLost, WdHbOk, WdTypeOK
  <1>4. CASE WdPublish
    BY <1>0, <1>4 DEF AnnouncedInv, WdPublish, WdHbOk, WdTypeOK
  <1>5. CASE WdAge /\ ~WdReady
    BY <1>0, <1>5 DEF AnnouncedInv, WdAge, WdReady, WdTypeOK
  <1>6. CASE UNCHANGED wdVars
    BY <1>6 DEF AnnouncedInv, wdVars, WdHbOk
  <1>7. Tick => WdAge /\ ~WdReady
    BY DEF Tick, UnitDone
  <1>8. [Next]_vars => WdHeartbeat \/ WdRearm \/ WdEvaluate \/ WdPublish \/ Tick \/ UNCHANGED wdVars
    BY DEF Next, vars, HeartbeatAtWatchdog, Evaluate, Publish, PublishFails,
           RearmAtWatchdog, HeartbeatAtMotor, EmergencyAtMotor, StatusAtMotor, RearmAtMotor,
           CommandAtMotor, ControlTick, RestartMotor, SendRearm, DesktopStops, LoseRearm, LoseEmergency,
           LoseStatus, Settle
  <1> QED
    BY <1>1, <1>2, <1>3, <1>4, <1>5, <1>6, <1>7, <1>8

(***************************************************************************)
(* However the heartbeat comes and goes, a loss is latched by the end of   *)
(* the unit in which it happens.                                           *)
(***************************************************************************)
THEOREM LostHeartbeatIsLatched == Spec => []LostHeartbeatLatched
  <1>1. Init => AnnouncedInv
    BY DEF Init, WdInit, AnnouncedInv
  <1>2. TypeOK /\ AnnouncedInv /\ [Next]_vars => AnnouncedInv'
    BY AnnouncedStep
  <1>3. AnnouncedInv => LostHeartbeatLatched
    BY DEF AnnouncedInv, LostHeartbeatLatched, UnitDone, WdReady, WdNewlyLost
  <1> QED
    BY <1>1, <1>2, <1>3, TypeCorrect, PTL DEF Spec

-------------------------------------------------------------------------------
(* The mirrored level                                                        *)

(***************************************************************************)
(* The levels under way to the motor, oldest first: the one it mirrors,    *)
(* those in the queue, the one the watchdog has taken and not sent.  When  *)
(* the watchdog was latched at one of them and not at a later one, or is   *)
(* not now, it has accepted a re-arm since.                                *)
(***************************************************************************)
MirrorInv ==
  /\ mStatus => \A i \in 1 .. Len(statusQ) : ~statusQ[i].latched => mRearmed
  /\ mStatus /\ wdPhase = "publish" /\ ~wdReport.latched => mRearmed
  /\ mStatus /\ ~wdLatched => mRearmed

QueueInv ==
  \A i \in 1 .. Len(statusQ) : statusQ[i].latched =>
    /\ \A j \in i + 1 .. Len(statusQ) : ~statusQ[j].latched => statusQ[i].rearmed
    /\ wdPhase = "publish" /\ ~wdReport.latched => statusQ[i].rearmed
    /\ ~wdLatched => statusQ[i].rearmed

ReportInv ==
  wdPhase = "publish" /\ wdReport.latched /\ ~wdLatched => wdReport.rearmed

LevelInv == MirrorInv /\ QueueInv /\ ReportInv

\* What the watchdog does between two reports keeps the levels in order.
LEMMA LevelEvaluate ==
  ASSUME TypeOK, LevelInv, Evaluate
  PROVE  LevelInv'
  <1> USE DEF Evaluate, WdEvaluate, WdLevel, WdLatchedAfter, Report, mVars, netVars
  <1>1. /\ UNCHANGED <<statusQ, mStatus, mRearmed>>
        /\ wdReport'.latched = wdLatched' /\ (wdLatched => wdLatched')
    OBVIOUS
  <1>2. MirrorInv'
    BY <1>1 DEF LevelInv, MirrorInv
  <1>3. QueueInv'
    BY <1>1 DEF LevelInv, QueueInv
  <1>4. ReportInv'
    BY <1>1 DEF ReportInv
  <1> QED
    BY <1>2, <1>3, <1>4 DEF LevelInv

LEMMA LevelPublish ==
  ASSUME TypeOK, LevelInv, Publish
  PROVE  LevelInv'
  <1>0. /\ statusQ \in Seq(StatusMsgs) /\ wdReport \in Reports
        /\ UNCHANGED <<mStatus, mRearmed, wdLatched>>
        /\ wdPhase = "publish" /\ wdPhase' = "wait"
    BY DEF TypeOK, WdTypeOK, Publish, WdPublish, mVars
  <1>1. CASE statusQ' = statusQ
    BY <1>0, <1>1 DEF LevelInv, MirrorInv, QueueInv, ReportInv
  <1>2. CASE statusQ' = Append(statusQ, StatusMsg(wdReport))
    <2>1. /\ Len(statusQ') = Len(statusQ) + 1
          /\ \A i \in 1 .. Len(statusQ) : statusQ'[i] = statusQ[i]
          /\ statusQ'[Len(statusQ) + 1] = StatusMsg(wdReport)
          /\ Len(statusQ) \in Nat
      BY <1>0, <1>2
    <2>2. /\ StatusMsg(wdReport).latched = wdReport.latched
          /\ StatusMsg(wdReport).rearmed = wdReport.rearmed
      BY DEF StatusMsg
    <2>3. MirrorInv'
      BY <1>0, <2>1, <2>2 DEF LevelInv, MirrorInv
    <2>4. QueueInv'
      BY <1>0, <2>1, <2>2 DEF LevelInv, QueueInv, ReportInv
    <2> QED
      BY <1>0, <2>3, <2>4 DEF LevelInv, ReportInv
  <1> QED
    BY <1>1, <1>2 DEF Publish

LEMMA LevelRearm ==
  ASSUME TypeOK, LevelInv, RearmAtWatchdog
  PROVE  LevelInv'
  <1>0. /\ statusQ \in Seq(StatusMsgs) /\ wdReport \in Reports /\ Len(statusQ) \in Nat
        /\ UNCHANGED <<mStatus, wdPhase>>
    BY DEF TypeOK, WdTypeOK, RearmAtWatchdog, WdRearm, mVars
  <1>1. CASE WdRearmAccepted
    <2>1. mRearmed'
      BY <1>1 DEF RearmAtWatchdog
    <2>2. statusQ' = [i \in 1 .. Len(statusQ) |-> [statusQ[i] EXCEPT !.rearmed = TRUE]]
      BY <1>1 DEF RearmAtWatchdog
    <2>3. /\ Len(statusQ') = Len(statusQ)
          /\ \A i \in 1 .. Len(statusQ') : statusQ'[i].rearmed
      BY <1>0, <2>2, MarkedQueue
    <2>4. wdPhase = "publish" => wdReport'.rearmed = TRUE
      BY <1>0, <1>1 DEF RearmAtWatchdog, WdRearm, Reports
    <2> QED
      BY <1>0, <2>1, <2>3, <2>4 DEF LevelInv, MirrorInv, QueueInv, ReportInv
  <1>2. CASE ~WdRearmAccepted
    <2>1. wdLatched' = wdLatched /\ UNCHANGED <<wdReport, statusQ, mRearmed>>
      BY <1>2 DEF RearmAtWatchdog, WdRearm, TypeOK, WdTypeOK
    <2> QED
      BY <1>0, <2>1 DEF LevelInv, MirrorInv, QueueInv, ReportInv
  <1> QED
    BY <1>1, <1>2

\* The oldest report leaves the queue, to the motor or to nowhere.
LEMMA LevelTail ==
  ASSUME TypeOK, LevelInv, StatusAtMotor \/ LoseStatus
  PROVE  LevelInv'
  <1>0. /\ statusQ \in Seq(StatusMsgs) /\ statusQ # <<>> /\ statusQ' = Tail(statusQ)
        /\ UNCHANGED <<wdPhase, wdReport, wdLatched>>
    BY DEF TypeOK, StatusAtMotor, LoseStatus, wdVars
  <1>1. /\ Len(statusQ) \in Nat \ {0} /\ Len(statusQ') = Len(statusQ) - 1
        /\ \A i \in 1 .. Len(statusQ') : i + 1 \in 1 .. Len(statusQ) /\ statusQ'[i] = statusQ[i + 1]
        /\ Head(statusQ) = statusQ[1]
    BY <1>0
  <1>2. QueueInv'
    BY <1>0, <1>1 DEF LevelInv, QueueInv
  <1>3. ReportInv'
    BY <1>0 DEF LevelInv, ReportInv
  <1>4. CASE StatusAtMotor
    <2>1. mStatus' = statusQ[1].latched /\ mRearmed' = statusQ[1].rearmed
      BY <1>1, <1>4 DEF StatusAtMotor, MotorOnStatus, MirrorAfter
    <2>2. MirrorInv'
      BY <1>0, <1>1, <2>1 DEF LevelInv, QueueInv, MirrorInv
    <2> QED
      BY <1>2, <1>3, <2>2 DEF LevelInv
  <1>5. CASE LoseStatus
    <2>1. UNCHANGED <<mStatus, mRearmed>>
      BY <1>5 DEF LoseStatus, mVars
    <2>2. MirrorInv'
      BY <1>0, <1>1, <2>1 DEF LevelInv, MirrorInv
    <2> QED
      BY <1>2, <1>3, <2>2 DEF LevelInv
  <1> QED
    BY <1>4, <1>5

LEMMA LevelStep ==
  ASSUME TypeOK, LevelInv, [Next]_vars
  PROVE  LevelInv'
  <1>1. CASE PublishFails
    BY <1>1 DEF PublishFails, WdPublish, mVars, netVars, LevelInv, MirrorInv, QueueInv, ReportInv
  <1>2. CASE RestartMotor
    <2>1. mStatus' = FALSE /\ UNCHANGED <<statusQ, wdPhase, wdReport, wdLatched>>
      BY <1>2 DEF RestartMotor, MotorRestart, wdVars, netVars
    <2> QED
      BY <2>1 DEF LevelInv, MirrorInv, QueueInv, ReportInv
  <1>3. CASE UNCHANGED <<statusQ, mStatus, mRearmed, wdPhase, wdReport, wdLatched>>
    BY <1>3 DEF LevelInv, MirrorInv, QueueInv, ReportInv
  <1>4. \/ HeartbeatAtWatchdog \/ HeartbeatAtMotor \/ EmergencyAtMotor \/ RearmAtMotor
        \/ CommandAtMotor \/ ControlTick \/ SendRearm \/ DesktopStops \/ LoseRearm \/ LoseEmergency
        \/ Settle \/ Tick \/ UNCHANGED vars
        => UNCHANGED <<statusQ, mStatus, mRearmed, wdPhase, wdReport, wdLatched>>
    BY DEF HeartbeatAtWatchdog, WdHeartbeat, HeartbeatAtMotor, MotorHeartbeat,
           EmergencyAtMotor, MotorEmergency, RearmAtMotor, MotorRearm, CommandAtMotor,
           MotorCommand, ControlTick, MotorTick, MotorTickFails, SendRearm, DesktopStops, LoseRearm,
           LoseEmergency, Settle, Tick, WdAge, MotorAge, vars, wdVars, mVars, netVars
  <1> QED
    BY <1>1, <1>2, <1>3, <1>4, LevelEvaluate, LevelPublish, LevelRearm, LevelTail DEF Next

(***************************************************************************)
(* The mirrored level of the motor, and with it the latch, falls only      *)
(* after an accepted re-arm, or with the process.                          *)
(***************************************************************************)
THEOREM MirrorFallsAfterRearm == Spec => ClearFollowsRearm
  <1>1. Init => LevelInv
    BY DEF Init, WdInit, MotorBoot, LevelInv, MirrorInv, QueueInv, ReportInv
  <1>2. TypeOK /\ LevelInv /\ [Next]_vars => LevelInv'
    BY LevelStep
  <1>3. TypeOK /\ LevelInv /\ [Next]_vars 
            => [(mStatus /\ ~mStatus') => (mRearmed \/ RestartMotor)]_vars
    <2> SUFFICES ASSUME TypeOK, LevelInv, Next, mStatus, ~mStatus', ~RestartMotor
                 PROVE  mRearmed
      OBVIOUS
    <2>1. StatusAtMotor
      BY DEF Next, HeartbeatAtWatchdog, Evaluate, Publish, PublishFails, RearmAtWatchdog,
             HeartbeatAtMotor, MotorHeartbeat, EmergencyAtMotor, MotorEmergency,
             RearmAtMotor, MotorRearm, CommandAtMotor, MotorCommand, ControlTick, MotorTick,
             MotorTickFails, SendRearm, DesktopStops, LoseRearm, LoseEmergency, LoseStatus,
             Settle, Tick, MotorAge, mVars
    <2>2. /\ statusQ \in Seq(StatusMsgs) /\ statusQ # <<>> /\ mStatus' = Head(statusQ).latched
      BY <2>1 DEF StatusAtMotor, MotorOnStatus, MirrorAfter, TypeOK
    <2>3. 1 \in 1 .. Len(statusQ) /\ ~statusQ[1].latched
      BY <2>2
    <2> QED
      BY <2>3 DEF LevelInv, MirrorInv
  <1> QED
    BY <1>1, <1>2, <1>3, TypeCorrect, PTL DEF Spec, ClearFollowsRearm

===============================================================================
