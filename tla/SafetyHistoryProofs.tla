-------------------------- MODULE SafetyHistoryProofs --------------------------
(***************************************************************************)
(* Proofs about SafetyHistory: how long the motors may be driven, for      *)
(* every timeout, lease, period, queue length and set of command topics.   *)
(***************************************************************************)
EXTENDS SafetyHistory, SafetyLayerProofs

\* The history variables hinder no step, and add none.
LEMMA HistoryStep == ASSUME [HNext]_hVars PROVE [Next]_vars
  BY DEF HNext, hVars, HTick, HCommandAtMotor, HRearmAtWatchdog, HEmergencyAtMotor, HClear,
         HRestartMotor, HOther, Next

(***************************************************************************)
(* SafetyHistory implements SafetyLayer: what is proved of Spec holds of   *)
(* HSpec.                                                                  *)
(***************************************************************************)
THEOREM HistoryOnlyObserves == HSpec => Spec
  <1>1. HInit => Init
    BY DEF HInit
  <1>2. [HNext]_hVars => [Next]_vars
    BY HistoryStep
  <1> QED
    BY <1>1, <1>2, PTL DEF HSpec, Spec

(***************************************************************************)
(* Every variable keeps its type, the histories included.                  *)
(***************************************************************************)
THEOREM HistoryTypeCorrect == HSpec => []HTypeOK
  <1> DEFINE HistOK == /\ wdRearmed \in BOOLEAN /\ stopOwed \in BOOLEAN /\ restarted \in BOOLEAN
                       /\ moveAge \in 0 .. MaxLife + 2 /\ exposure \in 0 .. StatusPeriod + 1
  <1>1. HInit => HistOK
    <2>1. HInit => wdRearmed \in BOOLEAN /\ stopOwed \in BOOLEAN /\ restarted \in BOOLEAN
      BY DEF HInit
    <2>2. HInit => moveAge \in 0 .. MaxLife + 2 /\ exposure \in 0 .. StatusPeriod + 1
      BY ConstantTypes DEF HInit
    <2> QED
      BY <2>1, <2>2
  <1>2. TypeOK /\ HistOK /\ [HNext]_hVars => HistOK'
    <2> SUFFICES ASSUME TypeOK, HistOK, [HNext]_hVars PROVE HistOK'
      OBVIOUS
    <2>1. /\ wdRearmed' \in BOOLEAN /\ stopOwed' \in BOOLEAN /\ restarted' \in BOOLEAN
      BY DEF HNext, hVars, HTick, HCommandAtMotor, HRearmAtWatchdog, HEmergencyAtMotor, HClear,
             HRestartMotor, HOther
    <2>2. moveAge' \in {moveAge, 0, Capped(moveAge, MaxLife + 2)}
      BY DEF HNext, hVars, HTick, HCommandAtMotor, HRearmAtWatchdog, HEmergencyAtMotor, HClear,
             HRestartMotor, HOther
    <2>3. exposure' \in {exposure, 0, Capped(exposure, StatusPeriod + 1)}
      BY DEF HNext, hVars, HTick, HCommandAtMotor, HRearmAtWatchdog, HEmergencyAtMotor, HClear,
             HRestartMotor, HOther
    <2>4. moveAge' \in 0 .. MaxLife + 2
      BY <2>2, ConstantTypes DEF Capped
    <2>5. exposure' \in 0 .. StatusPeriod + 1
      BY <2>3, ConstantTypes DEF Capped
    <2> QED
      BY <2>1, <2>4, <2>5
  <1>3. TypeOK /\ HistOK => HTypeOK
    BY DEF HTypeOK
  <1> HIDE DEF HistOK
  <1> QED
    BY <1>1, <1>2, <1>3, HistoryOnlyObserves, TypeCorrect, PTL DEF HSpec

-------------------------------------------------------------------------------
(* The dead-man limit                                                        *)

(***************************************************************************)
(* What is left of the lease of a moving command and the time since the    *)
(* last one came never exceed the longest lease together.  A control tick  *)
(* drives only for a live command; a unit ends after a control tick only.  *)
(***************************************************************************)
LeaseInv ==
  /\ \A k \in Kinds : cmds[k].move /\ cmds[k].left > 0 => cmds[k].left + moveAge <= MaxLife + 1
  /\ pwm /\ ticked => moveAge <= MaxLife
  /\ pwm => moveAge <= MaxLife + 1

\* A command that has just come, and all others, whatever their leases.
LEMMA LeaseCommand ==
  ASSUME HTypeOK, LeaseInv, HCommandAtMotor
  PROVE  LeaseInv'
  <1>0. /\ cmds \in [Kinds -> Commands] /\ newest \in Kinds /\ moveAge \in Nat
        /\ MinLife \in Nat /\ MaxLife \in Nat /\ MinLife <= MaxLife
    BY ConstantTypes DEF HTypeOK, TypeOK, MotorTypeOK
  <1>1. PICK k \in Kinds, move \in BOOLEAN, asked \in 0 .. MaxLife + 1 : MotorCommand(k, move, asked)
    BY DEF HCommandAtMotor, CommandAtMotor
  <1> DEFINE c == [move |-> move, left |-> Clamped(asked) + 1]
  <1>2. c.move = move /\ c.left \in Nat /\ c.left <= MaxLife + 1
    BY <1>0 DEF Clamped
  <1>3. cmds' = [cmds EXCEPT ![k] = c] /\ newest' = k /\ ~ticked' /\ pwm' = pwm
    BY <1>1 DEF MotorCommand
  <1> HIDE DEF c
  <1>4. cmds'[k] = c /\ \A j \in Kinds \ {k} : cmds'[j] = cmds[j]
    BY <1>0, <1>3
  <1>5. moveAge' = IF move THEN 0 ELSE moveAge
    BY <1>2, <1>3, <1>4 DEF HCommandAtMotor
  <1>6. \A j \in Kinds : cmds[j].left \in Nat /\ cmds[j].left <= MaxLife + 1
    BY <1>0 DEF Commands
  <1>7. ASSUME NEW j \in Kinds, cmds'[j].move, cmds'[j].left > 0
        PROVE  cmds'[j].left + moveAge' <= MaxLife + 1
    <2>1. CASE move
      BY <1>0, <1>2, <1>4, <1>5, <1>6, <2>1
    <2>2. CASE ~move
      <3>1. j # k /\ cmds'[j] = cmds[j]
        BY <1>2, <1>4, <1>7, <2>2
      <3> QED
        BY <1>5, <1>7, <2>2, <3>1 DEF LeaseInv
    <2> QED
      BY <2>1, <2>2
  <1>8. pwm' => moveAge' <= MaxLife + 1
    BY <1>0, <1>3, <1>5 DEF LeaseInv
  <1> QED
    BY <1>3, <1>7, <1>8 DEF LeaseInv

\* The control tick drops what is expired and drives for what is not.
LEMMA LeaseTick ==
  ASSUME HTypeOK, LeaseInv, ControlTick, UNCHANGED moveAge
  PROVE  LeaseInv'
  <1>0. cmds \in [Kinds -> Commands] /\ moveAge \in Nat /\ MaxLife \in Nat
    BY ConstantTypes DEF HTypeOK, TypeOK, MotorTypeOK
  <1>1. CASE MotorTickFails
    BY <1>1 DEF MotorTickFails, LeaseInv
  <1>2. ASSUME NEW stuck \in BOOLEAN, MotorTick(stuck) PROVE LeaseInv'
    <2>1. \A k \in Kinds : cmds'[k] = IF Live(k) THEN cmds[k] ELSE Gone
      BY <1>2 DEF MotorTick
    <2>2. \A k \in Kinds : cmds'[k].move => cmds'[k] = cmds[k]
      BY <2>1 DEF Gone
    <2>3. pwm' => LiveKinds # {} /\ cmds[ActiveKind].move
      BY <1>2, Zenon DEF MotorTick
    <2>4. LiveKinds # {} => ActiveKind \in Kinds /\ cmds[ActiveKind].left > 0
      BY DEF ActiveKind, LiveKinds, Live
    <2>5. pwm' => moveAge <= MaxLife
      <3>1. ASSUME pwm' PROVE moveAge <= MaxLife
        <4>1. /\ ActiveKind \in Kinds /\ cmds[ActiveKind].left > 0
              /\ cmds[ActiveKind].left + moveAge <= MaxLife + 1
          BY <2>3, <2>4, <3>1 DEF LeaseInv
        <4>2. cmds[ActiveKind].left \in Nat
          BY <1>0, <4>1 DEF Commands
        <4> QED
          BY <1>0, <4>1, <4>2
      <3> QED
        BY <3>1
    <2> QED
      BY <1>0, <2>2, <2>5 DEF LeaseInv
  <1> QED
    BY <1>1, <1>2 DEF ControlTick

\* A unit passes: leases get shorter by what the history gets older.
LEMMA LeaseAge ==
  ASSUME HTypeOK, LeaseInv, HTick
  PROVE  LeaseInv'
  <1>0. cmds \in [Kinds -> Commands] /\ moveAge \in Nat /\ MaxLife \in Nat
    BY ConstantTypes DEF HTypeOK, TypeOK, MotorTypeOK
  <1>1. /\ cmds' = [k \in Kinds |-> [cmds[k] EXCEPT !.left = IF @ > 0 THEN @ - 1 ELSE @]]
        /\ ticked /\ ~ticked' /\ pwm' = pwm
    BY DEF HTick, Tick, UnitDone, MotorAge
  <1>2. moveAge' = IF moveAge < MaxLife + 2 THEN moveAge + 1 ELSE moveAge
    BY DEF HTick, Capped
  <1>3. ASSUME NEW k \in Kinds, cmds'[k].move, cmds'[k].left > 0
        PROVE  cmds'[k].left + moveAge' <= MaxLife + 1
    <2>1. cmds[k].left \in Nat /\ cmds[k] \in Commands
      BY <1>0 DEF Commands
    <2>2. /\ cmds'[k].move = cmds[k].move
          /\ cmds'[k].left = IF cmds[k].left > 0 THEN cmds[k].left - 1 ELSE cmds[k].left
      BY <1>1, <2>1 DEF Commands
    <2>3. cmds[k].left > 0 /\ cmds[k].left + moveAge <= MaxLife + 1
      BY <1>3, <2>1, <2>2 DEF LeaseInv
    <2> QED
      BY <1>0, <1>2, <2>1, <2>2, <2>3
  <1>4. pwm' => moveAge' <= MaxLife + 1
    BY <1>0, <1>1, <1>2 DEF LeaseInv
  <1> QED
    BY <1>1, <1>3, <1>4 DEF LeaseInv

(***************************************************************************)
(* The dead-man limit, for every lease, number of command topics, fault    *)
(* and restart: an output needs a non-zero command that came no longer ago *)
(* than the longest lease and the unit in which the tick notices.          *)
(***************************************************************************)
THEOREM OutputIsFresh == HSpec => []OutputNeedsFreshCommand
  <1>1. HInit => LeaseInv
    <2>1. HInit => ~pwm /\ \A k \in Kinds : ~cmds[k].move
      BY DEF HInit, Init, MotorBoot, Gone
    <2> QED
      BY <2>1 DEF LeaseInv
  <1>2. HTypeOK /\ LeaseInv /\ [HNext]_hVars => LeaseInv'
    <2> SUFFICES ASSUME HTypeOK, LeaseInv, [HNext]_hVars PROVE LeaseInv'
      OBVIOUS
    <2>1. CASE HRestartMotor
      <3>1. ~pwm' /\ \A k \in Kinds : ~cmds'[k].move
        BY <2>1 DEF HRestartMotor, RestartMotor, MotorRestart, Gone
      <3> QED
        BY <3>1 DEF LeaseInv
    <2>2. CASE UNCHANGED <<cmds, moveAge, pwm>> /\ (~ticked' \/ ticked' = ticked)
      BY <2>2 DEF LeaseInv
    <2>3. \/ HCommandAtMotor \/ HTick \/ HRestartMotor \/ (ControlTick /\ UNCHANGED moveAge)
          \/ UNCHANGED <<cmds, moveAge, pwm>> /\ (~ticked' \/ ticked' = ticked)
      BY DEF HNext, hVars, HRearmAtWatchdog, HEmergencyAtMotor, HClear, HOther, vars, mVars,
             HeartbeatAtWatchdog, Evaluate, Publish, PublishFails, RearmAtWatchdog,
             HeartbeatAtMotor, MotorHeartbeat, EmergencyAtMotor, MotorEmergency, StatusAtMotor,
             MotorOnStatus, RearmAtMotor, MotorRearm, SendRearm, DesktopStops, LoseRearm, LoseEmergency,
             LoseStatus, Settle
    <2> QED
      BY <2>1, <2>2, <2>3, LeaseCommand, LeaseTick, LeaseAge
  <1>3. LeaseInv => OutputNeedsFreshCommand
    BY DEF LeaseInv, OutputNeedsFreshCommand
  <1> QED
    BY <1>1, <1>2, <1>3, HistoryTypeCorrect, PTL DEF HSpec

-------------------------------------------------------------------------------
(* The latch of the watchdog and the motor's mirror of it                    *)

(***************************************************************************)
(* A loss is noticed with nothing under way to the motor, so while the     *)
(* watchdog is latched every report under way says so.  After a control    *)
(* tick the output agrees with the motor's own e-stop.                     *)
(***************************************************************************)
LatchInv ==
  /\ WdNewlyLost => statusQ = <<>> /\ wdPhase = "wait"
  /\ wdLatched /\ wdPhase = "publish" => wdReport.latched
  /\ wdLatched => \A i \in 1 .. Len(statusQ) : statusQ[i].latched
  /\ ticked /\ pwm => ~MotorEStop

LEMMA LatchStep ==
  ASSUME TypeOK, LatchInv, [Next]_vars
  PROVE  LatchInv'
  <1>0. /\ wdHbAge \in Nat /\ HbTimeout \in Nat /\ HbTimeout > 0
        /\ statusQ \in Seq(StatusMsgs) /\ wdReport \in Reports
    BY ConstantTypes DEF TypeOK, WdTypeOK
  <1>1. CASE HeartbeatAtWatchdog
    <2>1. ~WdNewlyLost'
      BY <1>0, <1>1 DEF HeartbeatAtWatchdog, WdHeartbeat, WdNewlyLost, WdHbOk
    <2>2. UNCHANGED <<wdLatched, wdPhase, wdReport, statusQ, ticked, pwm, mLatched, mStatus>>
      BY <1>1 DEF HeartbeatAtWatchdog, WdHeartbeat, mVars, netVars
    <2> QED
      BY <2>1, <2>2 DEF LatchInv, MotorEStop
  <1>2. CASE Evaluate
    <2>1. /\ ~WdNewlyLost' /\ wdReport'.latched = wdLatched'
          /\ wdLatched' => wdLatched \/ WdNewlyLost
      BY <1>2 DEF Evaluate, WdEvaluate, WdNewlyLost, WdAnnouncedAfter, WdHbOk, WdLevel,
                  WdLatchedAfter, Report
    <2>2. UNCHANGED <<statusQ, ticked, pwm, mLatched, mStatus>>
      BY <1>2 DEF Evaluate, mVars, netVars
    <2> QED
      BY <2>1, <2>2 DEF LatchInv, MotorEStop
  <1>3. CASE Publish \/ PublishFails
    <2>1. /\ wdPhase = "publish" /\ wdPhase' = "wait" /\ (WdNewlyLost' => WdNewlyLost)
          /\ UNCHANGED <<wdLatched, ticked, pwm, mLatched, mStatus>>
      BY <1>3 DEF Publish, PublishFails, WdPublish, mVars, WdNewlyLost, WdHbOk
    <2>2. statusQ' = statusQ \/ statusQ' = Append(statusQ, StatusMsg(wdReport))
      BY <1>3 DEF Publish, PublishFails, netVars
    <2>3. wdLatched' => \A i \in 1 .. Len(statusQ') : statusQ'[i].latched
      <3>1. StatusMsg(wdReport).latched = wdReport.latched
        BY DEF StatusMsg
      <3>2. CASE statusQ' = statusQ
        BY <2>1, <3>2 DEF LatchInv
      <3>3. CASE statusQ' = Append(statusQ, StatusMsg(wdReport))
        <4>1. /\ Len(statusQ') = Len(statusQ) + 1 /\ Len(statusQ) \in Nat
              /\ \A i \in 1 .. Len(statusQ) : statusQ'[i] = statusQ[i]
              /\ statusQ'[Len(statusQ) + 1] = StatusMsg(wdReport)
          BY <1>0, <3>3
        <4> QED
          BY <2>1, <3>1, <4>1 DEF LatchInv
      <3> QED
        BY <2>2, <3>2, <3>3
    <2> QED
      BY <2>1, <2>3 DEF LatchInv, MotorEStop
  <1>4. CASE RearmAtWatchdog
    <2>1. /\ UNCHANGED <<wdPhase, ticked, pwm, mLatched, mStatus>>
          /\ WdNewlyLost' => WdNewlyLost
      BY <1>4 DEF RearmAtWatchdog, WdRearm, mVars, WdNewlyLost, WdHbOk
    <2>2. CASE WdRearmAccepted
      <3>1. ~wdLatched' /\ ~WdNewlyLost'
        BY <1>4, <2>1, <2>2 DEF RearmAtWatchdog, WdRearm, WdRearmAccepted, WdNewlyLost
      <3> QED
        BY <2>1, <3>1 DEF LatchInv, MotorEStop
    <2>3. CASE ~WdRearmAccepted
      <3>1. UNCHANGED <<wdReport, statusQ>> /\ (wdLatched' => wdLatched)
        BY <1>4, <2>3 DEF RearmAtWatchdog, WdRearm
      <3> QED
        BY <2>1, <3>1 DEF LatchInv, MotorEStop
    <2> QED
      BY <2>2, <2>3
  <1>5. CASE StatusAtMotor \/ LoseStatus
    <2>1. /\ statusQ # <<>> /\ statusQ' = Tail(statusQ) /\ UNCHANGED wdVars
          /\ ~ticked' \/ UNCHANGED <<ticked, pwm, mLatched, mStatus>>
      BY <1>5 DEF StatusAtMotor, LoseStatus, MotorOnStatus, mVars
    <2>2. ~WdNewlyLost'
      BY <2>1 DEF LatchInv, WdNewlyLost, WdHbOk, wdVars
    <2>3. \A i \in 1 .. Len(statusQ') : i + 1 \in 1 .. Len(statusQ) /\ statusQ'[i] = statusQ[i + 1]
      BY <1>0, <2>1
    <2> QED
      BY <2>1, <2>2, <2>3 DEF LatchInv, MotorEStop, wdVars
  <1>6. CASE ControlTick
    <2>1. pwm' => ~MotorEStop'
      <3>1. UNCHANGED <<mLatched, mStatus>>
        BY <1>6 DEF ControlTick, MotorTick, MotorTickFails
      <3>2. pwm' => ~MotorEStop
        BY <1>6, Zenon DEF ControlTick, MotorTick, MotorTickFails
      <3> QED
        BY <3>1, <3>2 DEF MotorEStop
    <2>2. UNCHANGED <<wdVars, statusQ>>
      BY <1>6 DEF ControlTick, netVars
    <2> QED
      BY <2>1, <2>2 DEF LatchInv, wdVars, WdNewlyLost, WdHbOk
  <1>7. CASE Tick
    BY <1>7 DEF Tick, UnitDone, WdAge, MotorAge, netVars, LatchInv
  <1>8. CASE UNCHANGED <<wdVars, statusQ>> /\ (~ticked' \/ UNCHANGED <<ticked, pwm, mLatched, mStatus>>)
    BY <1>8 DEF LatchInv, wdVars, WdNewlyLost, WdHbOk, MotorEStop
  <1>9. \/ HeartbeatAtMotor \/ EmergencyAtMotor \/ RearmAtMotor \/ CommandAtMotor \/ RestartMotor
        \/ SendRearm \/ DesktopStops \/ LoseRearm \/ LoseEmergency \/ Settle \/ UNCHANGED vars
        => UNCHANGED <<wdVars, statusQ>> /\ (~ticked' \/ UNCHANGED <<ticked, pwm, mLatched, mStatus>>)
    BY DEF HeartbeatAtMotor, MotorHeartbeat, EmergencyAtMotor, MotorEmergency, RearmAtMotor,
           MotorRearm, CommandAtMotor, MotorCommand, RestartMotor, MotorRestart, SendRearm, DesktopStops,
           LoseRearm, LoseEmergency, Settle, vars, wdVars, mVars, netVars
  <1> QED
    BY <1>1, <1>2, <1>3, <1>4, <1>5, <1>6, <1>7, <1>8, <1>9 DEF Next

(***************************************************************************)
(* While no report is lost: unless the motor controller was restarted, a   *)
(* latch is mirrored or under way; after a restart the units driven so far *)
(* and the units to the next report make up one status period at most.     *)
(***************************************************************************)
ReachInv ==
  /\ wdLatched /\ ~restarted => mStatus \/ statusQ # <<>> \/ wdPhase = "publish"
  /\ exposure <= StatusPeriod
  /\ wdLatched /\ ~mStatus /\ statusQ = <<>> /\ wdPhase = "wait" => exposure + wdDue <= StatusPeriod

LEMMA ReachStep ==
  ASSUME Lossy = FALSE, HTypeOK, LatchInv, ReachInv, [HNext]_hVars
  PROVE  ReachInv'
  <1>0. /\ exposure \in Nat /\ wdDue \in Nat /\ wdDue <= StatusPeriod /\ StatusPeriod \in Nat
        /\ statusQ \in Seq(StatusMsgs) /\ QueueLen \in Nat /\ QueueLen > 0
    BY ConstantTypes DEF HTypeOK, TypeOK, WdTypeOK
  <1>1. CASE HTick
    <2>1. /\ UnitDone /\ UNCHANGED <<wdLatched, wdPhase, statusQ, mStatus, restarted>>
          /\ wdDue' = IF wdDue = 0 THEN 0 ELSE wdDue - 1
          /\ exposure' = IF pwm /\ wdLatched THEN Capped(exposure, StatusPeriod + 1) ELSE 0
      BY <1>1 DEF HTick, Tick, WdAge, MotorAge, netVars
    <2>2. wdPhase = "wait" /\ statusQ = <<>> /\ wdDue # 0 /\ (pwm => ~mStatus)
      BY <2>1 DEF UnitDone, WdReady, LatchInv, MotorEStop
    <2>3. CASE pwm /\ wdLatched
      <3>1. exposure + wdDue <= StatusPeriod
        BY <2>2, <2>3 DEF ReachInv
      <3>2. exposure' = exposure + 1 /\ wdDue' = wdDue - 1
        BY <1>0, <2>1, <2>2, <2>3, <3>1 DEF Capped
      <3> QED
        BY <1>0, <2>1, <2>2, <3>1, <3>2 DEF ReachInv
    <2>4. CASE ~(pwm /\ wdLatched)
      <3>1. exposure' = 0 /\ wdDue' <= StatusPeriod
        BY <1>0, <2>1, <2>4
      <3> QED
        BY <1>0, <2>1, <2>2, <3>1 DEF ReachInv
    <2> QED
      BY <2>3, <2>4
  <1>2. CASE HRearmAtWatchdog
    <2>1. UNCHANGED <<mStatus, wdPhase, wdDue, restarted, exposure>>
      BY <1>2 DEF HRearmAtWatchdog, RearmAtWatchdog, WdRearm, mVars
    <2>2. wdLatched' => wdLatched /\ statusQ' = statusQ
      BY <1>2 DEF HRearmAtWatchdog, RearmAtWatchdog, WdRearm
    <2> QED
      BY <2>1, <2>2 DEF ReachInv
  <1>3. CASE StatusAtMotor /\ UNCHANGED <<restarted, exposure>>
    <2>1. /\ statusQ # <<>> /\ mStatus' = Head(statusQ).latched /\ wdLatched' = wdLatched
      BY <1>3 DEF StatusAtMotor, MotorOnStatus, MirrorAfter, wdVars
    <2>2. wdLatched => mStatus'
      <3>1. Head(statusQ) = statusQ[1] /\ 1 \in 1 .. Len(statusQ)
        BY <1>0, <2>1
      <3> QED
        BY <2>1, <3>1 DEF LatchInv
    <2> QED
      BY <1>3, <2>1, <2>2 DEF ReachInv
  <1>4. CASE Evaluate /\ UNCHANGED <<restarted, exposure>>
    BY <1>4 DEF Evaluate, WdEvaluate, ReachInv
  <1>5. CASE Publish /\ UNCHANGED <<restarted, exposure>>
    <2>1. statusQ' # <<>>
      BY <1>0, <1>5 DEF Publish
    <2> QED
      BY <1>5, <2>1 DEF ReachInv
  <1>6. CASE HRestartMotor
    <2>1. restarted' /\ exposure' = 0 /\ wdDue' = wdDue
      BY <1>6 DEF HRestartMotor, RestartMotor, wdVars
    <2> QED
      BY <1>0, <2>1 DEF ReachInv
  <1>7. CASE UNCHANGED <<wdLatched, wdPhase, wdDue, statusQ, mStatus, restarted, exposure>>
    BY <1>7 DEF ReachInv
  <1>8. \/ HCommandAtMotor \/ HEmergencyAtMotor \/ UNCHANGED hVars
        \/ /\ RearmAtMotor \/ HeartbeatAtWatchdog \/ HeartbeatAtMotor \/ ControlTick
              \/ SendRearm \/ DesktopStops \/ LoseRearm \/ LoseEmergency \/ Settle
           /\ UNCHANGED <<restarted, exposure>>
        => UNCHANGED <<wdLatched, wdPhase, wdDue, statusQ, mStatus, restarted, exposure>>
    BY DEF HCommandAtMotor, HEmergencyAtMotor, hVars, HeartbeatAtWatchdog, WdHeartbeat,
           HeartbeatAtMotor, MotorHeartbeat, EmergencyAtMotor, MotorEmergency, RearmAtMotor,
           MotorRearm, CommandAtMotor, MotorCommand, ControlTick, MotorTick, MotorTickFails,
           SendRearm, DesktopStops, LoseRearm, LoseEmergency, Settle, vars, wdVars, mVars, netVars
  <1>9. ~PublishFails /\ ~LoseStatus
    BY DEF PublishFails, LoseStatus
  <1> QED
    BY <1>1, <1>2, <1>3, <1>4, <1>5, <1>6, <1>7, <1>8, <1>9 DEF HNext, HClear, HOther

(***************************************************************************)
(* While reports are not lost the motors are not driven at the end of a    *)
(* unit with the watchdog latched, and a motor controller that is started  *)
(* again into a latch drives for one status period at most.                *)
(***************************************************************************)
THEOREM LatchReachesMotor ==
  ASSUME Lossy = FALSE
  PROVE  HSpec => [](NeverDrivenWhileLatched /\ DrivenForOneStatusPeriod)
  <1>1. HInit => LatchInv /\ ReachInv
    <2> SUFFICES ASSUME HInit PROVE LatchInv /\ ReachInv
      OBVIOUS
    <2>1. /\ statusQ = <<>> /\ wdPhase = "wait" /\ ~wdLatched /\ ~pwm /\ exposure = 0
      BY DEF HInit, Init, WdInit, MotorBoot
    <2> QED
      BY <2>1, ConstantTypes DEF LatchInv, ReachInv
  <1>2. HTypeOK /\ LatchInv /\ [HNext]_hVars => LatchInv'
    BY HistoryStep, LatchStep DEF HTypeOK
  <1>3. HTypeOK /\ LatchInv /\ ReachInv /\ [HNext]_hVars => ReachInv'
    BY ReachStep
  <1>4. LatchInv /\ ReachInv => NeverDrivenWhileLatched /\ DrivenForOneStatusPeriod
    BY DEF LatchInv, ReachInv, NeverDrivenWhileLatched, DrivenForOneStatusPeriod, UnitDone, MotorEStop
  <1> QED
    BY <1>1, <1>2, <1>3, <1>4, HistoryTypeCorrect, PTL DEF HSpec

===============================================================================
