------------------------------ MODULE HierProofs ------------------------------
(***************************************************************************)
(* Proofs about HierSystem, for every patrol, window, budget and mode.     *)
(***************************************************************************)
EXTENDS HierSystem, NumberLemmas, TLAPS

Moving == {"ALIGNING", "SELECT", "DRIVING", "ADVANCE"}
OnLadder == {"verify", "unstick", "wait"}

RunRecord == [age : Nat, retry : Nat, hold : BOOLEAN]

ControlType ==
  /\ state \in ActiveStates \cup EndStates \cup {"SUSPENDED"}
  /\ hop \in Nat
  /\ rung \in Rungs
  /\ run = NoRun \/ run \in RunRecord

\* A drive that moves has not given up, and teleop lets only a suspended drive tick.
DriveInv ==
  /\ ControlType
  /\ StoppedMeansRevoked
  /\ BlockedIsHandled
  /\ RecoveryInStep
  /\ teleop /\ hop > 0 => state = "SUSPENDED"
  /\ state \in Moving => ~gaveUp /\ rung \notin OnLadder
  /\ rung \in OnLadder => state = "BLOCKED" \/ (state = "SUSPENDED" /\ reason # "pose_lost")

\* What the recovery does to being active.
LEMMA RecoveryPhase ==
  /\ RecCancel => ~Active'
  /\ \A a, b : Begin(a, b) => Active'
  /\ \A a : RecWaits(a) => Active /\ Active'
  /\ \A a : RecResumes(a) => ~Active'
  /\ \A d \in Nat : RecPasses(d) => (Active' <=> Active)
  /\ UNCHANGED recVars => (Active' <=> Active)
  BY DEF RecCancel, Idle, Active, Begin, RecWaits, RecResumes, RecPasses, recVars, Waits,
         LinkLost, GoTo, Relocalize, Backoff, LinkIsStable

\* What the handlers share keeps the types it touches.
LEMMA ControlShared ==
  ASSUME ControlType
  PROVE  /\ \A s \in ActiveStates \cup EndStates \cup {"SUSPENDED"} : To(s) =>
              /\ state' = s /\ hop' \in Nat
              /\ state = "SUSPENDED" \/ s \notin ChainStates => hop' = 0
         /\ NoRun \notin RunRecord /\ FreshRun \in RunRecord
         /\ \A h \in BOOLEAN : run # NoRun => [run EXCEPT !.retry = 0, !.hold = h] \in RunRecord
         /\ run # NoRun => [run EXCEPT !.hold = TRUE] \in RunRecord
         /\ run # NoRun => \A x, y \in Nat : [run EXCEPT !.age = x, !.retry = y] \in RunRecord
  <1>1. \A s \in ActiveStates \cup EndStates \cup {"SUSPENDED"} : To(s) =>
          /\ state' = s /\ hop' \in Nat
          /\ state = "SUSPENDED" \/ s \notin ChainStates => hop' = 0
    BY DEF ControlType, To
  <1>2. NoRun \notin RunRecord
    BY DEF NoRun, RunRecord
  <1> QED
    BY <1>1, <1>2 DEF ControlType, FreshRun, RunRecord

LEMMA DriveStep ==
  ASSUME DriveInv, [Next \/ Inspect]_hierVars
  PROVE  DriveInv'
  <1> USE DEF Moving, OnLadder, ActiveStates, EndStates, ChainStates, Rungs
  <1>0. ControlType /\ (run = NoRun \/ run \in RunRecord)
    BY DEF DriveInv, ControlType
  (* Where a step may lead, and what it has to have done.                    *)
  <1>1. ASSUME state' \in Moving, hop' \in Nat, hop' > 0 => ~teleop', ~gaveUp',
               rung' \in Rungs \ OnLadder, ~Active', run' = NoRun \/ run' \in RunRecord
        PROVE  DriveInv'
    BY <1>1 DEF DriveInv, ControlType, StoppedMeansRevoked, BlockedIsHandled, RecoveryInStep
  <1>2. ASSUME state' \in EndStates, hop' = 0, live' = "none", rung' \in Rungs \ OnLadder,
               ~Active', run' = NoRun \/ run' \in RunRecord
        PROVE  DriveInv'
    BY <1>2 DEF DriveInv, ControlType, StoppedMeansRevoked, BlockedIsHandled, RecoveryInStep
  <1>3. ASSUME state' = "BLOCKED", hop' = 0 \/ (hop' \in Nat /\ ~teleop'), run' \in RunRecord,
               rung' \in Rungs, gaveUp' <=> rung' \in OnLadder, Active' <=> rung' = "verify",
               live' = "none" \/ (live' = "unstick" /\ rung' = "unstick")
        PROVE  DriveInv'
    <2>1. ControlType' /\ run' # NoRun
      <3>1. NoRun \notin RunRecord
        BY <1>0, ControlShared
      <3> QED
        BY <1>3, <3>1 DEF ControlType
    <2>2. BlockedIsHandled'
      BY <1>3, <2>1 DEF BlockedIsHandled
    <2>3. StoppedMeansRevoked'
      BY <1>3 DEF StoppedMeansRevoked
    <2>4. RecoveryInStep'
      BY <1>3 DEF RecoveryInStep
    <2> QED
      BY <1>3, <2>1, <2>2, <2>3, <2>4 DEF DriveInv
  <1>4. ASSUME state' = "SUSPENDED", hop' \in Nat, live' = "none", rung' \in Rungs,
               run' = NoRun \/ run' \in RunRecord, Active' <=> reason' = "pose_lost",
               rung' \in OnLadder => reason' # "pose_lost"
        PROVE  DriveInv'
    BY <1>4 DEF DriveInv, ControlType, StoppedMeansRevoked, BlockedIsHandled, RecoveryInStep
  (* From where a drive moves, it enters BLOCKED and SUSPENDED well.         *)
  <1>5. ASSUME state \in Moving, NEW why, NEW was, EnterBlocked(why, was),
               was = NoRun \/ was \in RunRecord, ~gaveUp', rung' \in {rung, "none"},
               UNCHANGED recVars
        PROVE  DriveInv'
    <2>0. To("BLOCKED") /\ live' = "none" /\ run' = IF was = NoRun THEN FreshRun ELSE was
      BY <1>5 DEF EnterBlocked, Cancel
    <2>1. state' = "BLOCKED" /\ hop' = 0 /\ live' = "none" /\ run' \in RunRecord
      <3>1. state' = "BLOCKED" /\ hop' = 0
        BY <2>0 DEF To
      <3> QED
        BY <1>0, <1>5, <2>0, <3>1, ControlShared
    <2>2. ~Active /\ rung \in Rungs \ OnLadder
      BY <1>5 DEF DriveInv, RecoveryInStep, ControlType
    <2> QED
      BY <1>3, <1>5, <2>1, <2>2, RecoveryPhase
  <1>6. ASSUME EnterSuspended("pose_lost"), rung' \in Rungs \ OnLadder,
               run' = NoRun \/ run' \in RunRecord
        PROVE  DriveInv'
    <2>0. To("SUSPENDED") /\ live' = "none" /\ reason' = "pose_lost"
      BY <1>6 DEF EnterSuspended, Cancel
    <2>1. state' = "SUSPENDED" /\ hop' = 0
      BY <2>0 DEF To
    <2>2. Active'
      BY <1>6, RecoveryPhase DEF EnterSuspended
    <2> QED
      BY <1>4, <1>6, <2>0, <2>1, <2>2
  <1>7. ASSUME state \in Moving, hop > 0, NEW was, SendPath(was),
               was = NoRun \/ was \in RunRecord, ~gaveUp', rung' \in {rung, "none"},
               UNCHANGED teleop
        PROVE  DriveInv'
    <2>1. /\ ~teleop /\ ~Active /\ rung \in Rungs \ OnLadder
      BY <1>7 DEF DriveInv, ControlType, RecoveryInStep
    <2>2. CASE EnterSuspended("pose_lost") /\ run' = was
      BY <1>6, <1>7, <2>1, <2>2
    <2>3. CASE EnterBlocked("other", was) /\ UNCHANGED recVars
      BY <1>5, <1>7, <2>3
    <2>4. CASE run' = was /\ To("DRIVING") /\ UNCHANGED recVars
      <3>1. state' = "DRIVING" /\ hop' \in Nat
        BY <1>0, <2>4, ControlShared
      <3> QED
        BY <1>1, <1>7, <2>1, <2>4, <3>1, RecoveryPhase
    <2> QED
      BY <1>7, <2>2, <2>3, <2>4 DEF SendPath
  (* The handlers of the states in which the drive moves.                    *)
  <1>8. ASSUME state \in Moving, hop > 0, UNCHANGED <<teleop, gaveUp, run>>, rung' \in {rung, "none"},
               NEW s \in Moving, To(s), UNCHANGED recVars
        PROVE  DriveInv'
    <2>1. ~teleop /\ ~Active /\ rung \in Rungs \ OnLadder /\ ~gaveUp
      BY <1>8 DEF DriveInv, ControlType, RecoveryInStep
    <2>2. state' \in Moving /\ hop' \in Nat
      BY <1>0, <1>8, ControlShared
    <2> QED
      BY <1>0, <1>1, <1>8, <2>1, <2>2, RecoveryPhase
  <1>9. ASSUME TickAligning PROVE DriveInv'
    BY <1>8, <1>9 DEF TickAligning, world, runVars, escVars
  <1>10. ASSUME TickSelect PROVE DriveInv'
    <2>0. /\ state \in Moving /\ hop > 0 /\ UNCHANGED teleop /\ ~gaveUp
          /\ rung \in Rungs \ OnLadder
      BY <1>10 DEF TickSelect, world, DriveInv, ControlType
    <2>1. CASE SelectLost
      BY <1>0, <1>6, <2>0, <2>1 DEF SelectLost, runVars, escVars
    <2>2. CASE SelectExpired \/ SelectBlocked
      BY <1>0, <1>5, <2>0, <2>2 DEF SelectExpired, SelectBlocked, escVars
    <2>3. CASE SelectAdvances
      BY <1>8, <2>0, <2>3 DEF SelectAdvances, runVars, escVars
    <2>4. CASE SelectHolds
      <3>1. To(state) /\ UNCHANGED <<gaveUp, run, rung, recVars>>
        BY <2>4 DEF SelectHolds, Hold, Stay, runVars, escVars
      <3> QED
        BY <1>8, <2>0, <3>1
    <2>5. CASE SelectSendsPath
      BY <1>0, <1>7, <2>0, <2>5 DEF SelectSendsPath, escVars
    <2>6. CASE SelectSendsGoto
      <3>1. /\ EnterBlocked("other", run) \/ (To("DRIVING") /\ UNCHANGED run)
            /\ UNCHANGED <<gaveUp, rung, recVars>>
        BY <2>6 DEF SelectSendsGoto, escVars
      <3> QED
        BY <1>0, <1>5, <1>8, <2>0, <3>1
    <2> QED
      BY <1>10, <2>1, <2>2, <2>3, <2>4, <2>5, <2>6 DEF TickSelect
  <1>11. ASSUME TickAdvance PROVE DriveInv'
    <2>0. /\ state \in Moving /\ ~teleop /\ UNCHANGED teleop /\ ~Active
      BY <1>11 DEF TickAdvance, world, DriveInv, ControlType, RecoveryInStep
    <2>1. run' = NoRun /\ ~gaveUp' /\ rung' = "none" /\ ~Active'
      BY <1>11, <2>0, RecoveryPhase DEF TickAdvance, EndRun, EscClear
    <2>2. (To("ARRIVED") /\ live' = "none") \/ To("SELECT")
      BY <1>11 DEF TickAdvance, Cancel
    <2>3. (state' = "ARRIVED" /\ hop' = 0 /\ live' = "none") \/ (state' = "SELECT" /\ hop' \in Nat)
      BY <1>0, <2>2, ControlShared
    <2> QED
      BY <1>1, <1>2, <2>0, <2>1, <2>3
  <1>12. ASSUME TickDriving PROVE DriveInv'
    <2>0. /\ state \in Moving /\ hop > 0 /\ UNCHANGED teleop /\ ~gaveUp
          /\ rung \in Rungs \ OnLadder /\ ~Active
      BY <1>12 DEF TickDriving, world, DriveInv, ControlType, RecoveryInStep
    <2>1. CASE EnterSuspended("pose_lost") /\ UNCHANGED <<rejects, runVars, escVars>>
      BY <1>0, <1>6, <2>0, <2>1 DEF runVars, escVars
    <2>2. CASE DriveReached
      BY <1>8, <2>0, <2>2 DEF DriveReached, runVars, escVars
    <2>3. CASE DriveExpired \/ DriveBlocked
      BY <1>0, <1>5, <2>0, <2>3 DEF DriveExpired, DriveBlocked, escVars
    <2>4. CASE DriveRejected
      <3>1. /\ EnterBlocked("rejected", run) \/ (To("SELECT") /\ UNCHANGED run)
            /\ UNCHANGED <<gaveUp, rung, recVars>>
        BY <2>4 DEF DriveRejected, escVars
      <3> QED
        BY <1>0, <1>5, <1>8, <2>0, <3>1
    <2>5. CASE DriveEnded
      <3>1. ~gaveUp' /\ rung' \in {rung, "none"} /\ ~Active' /\ (run' = run \/ run' = NoRun)
        BY <2>0, <2>5, RecoveryPhase DEF DriveEnded, EndRun, EscClear, runVars
      <3>2. To("ADVANCE") \/ To("SELECT")
        BY <2>5 DEF DriveEnded
      <3>3. state' \in Moving /\ hop' \in Nat
        BY <1>0, <3>2, ControlShared
      <3>4. ~teleop
        BY <2>0 DEF DriveInv
      <3> QED
        BY <1>0, <1>1, <2>0, <3>1, <3>3, <3>4
    <2>6. CASE DriveCanceled
      <3>1. live' = "none" /\ To("FAILED") /\ UNCHANGED <<run, rung, recVars>>
        BY <2>6 DEF DriveCanceled, Cancel, runVars, escVars
      <3>2. state' = "FAILED" /\ hop' = 0
        BY <3>1 DEF To
      <3> QED
        BY <1>0, <1>2, <2>0, <3>1, <3>2, RecoveryPhase
    <2>7. CASE DriveGoesOn
      <3>1. PICK moved \in BOOLEAN :
              LET was == IF moved THEN NoRun ELSE run
              IN /\ gaveUp' = (gaveUp /\ ~moved)
                 /\ rung' = IF moved THEN "none" ELSE rung
                 /\ \/ EnterBlocked("no_route_progress", was) /\ UNCHANGED recVars
                    \/ SendPath(was)
                    \/ (To("SELECT") \/ To("DRIVING")) /\ run' = was /\ UNCHANGED recVars
        BY <1>12, <2>7 DEF DriveGoesOn, Stay, TickDriving
      <3> DEFINE was == IF moved THEN NoRun ELSE run
      <3>2. /\ was = NoRun \/ was \in RunRecord
            /\ ~gaveUp' /\ rung' \in {rung, "none"} /\ ~teleop
        BY <1>0, <2>0, <3>1 DEF DriveInv
      <3>3. CASE EnterBlocked("no_route_progress", was) /\ UNCHANGED recVars
        BY <1>5, <2>0, <3>2, <3>3
      <3>4. CASE SendPath(was)
        BY <1>7, <2>0, <3>2, <3>4
      <3>5. CASE (To("SELECT") \/ To("DRIVING")) /\ run' = was /\ UNCHANGED recVars
        <4>1. state' \in Moving /\ hop' \in Nat
          BY <1>0, <3>5, ControlShared
        <4> QED
          BY <1>1, <2>0, <3>2, <3>5, <4>1, RecoveryPhase
      <3> QED
        BY <3>1, <3>3, <3>4, <3>5
    <2> QED
      BY <1>12, <2>1, <2>2, <2>3, <2>4, <2>5, <2>6, <2>7 DEF TickDriving
  (* BLOCKED: the rungs of the ladder, the skip, the retry.                  *)
  <1>13. ASSUME TickBlocked PROVE DriveInv'
    <2>0. /\ state = "BLOCKED" /\ ~teleop' /\ run \in RunRecord /\ rung \in Rungs
          /\ gaveUp <=> rung \in OnLadder
          /\ Active <=> rung = "verify"
          /\ live = "none" \/ (live = "unstick" /\ rung = "unstick")
      BY <1>0, <1>13 DEF TickBlocked, world, DriveInv, StoppedMeansRevoked, BlockedIsHandled,
                         RecoveryInStep, ControlType
    <2>1. Stay => state' = "BLOCKED" /\ hop' = 0
      BY <2>0 DEF Stay, To
    <2>2. \A s \in {"SELECT", "ADVANCE"} : To(s) => state' = s /\ hop' \in Nat
      BY <1>0, ControlShared
    <2>3. ASSUME EnterReplan, ~Active' PROVE DriveInv'
      <3>1. state' = "SELECT" /\ hop' \in Nat /\ run' = NoRun /\ ~gaveUp' /\ rung' = "replan"
        BY <2>2, <2>3 DEF EnterReplan, EndRun
      <3> QED
        BY <1>1, <2>0, <2>3, <3>1
    <2>4. ASSUME EnterVerify, live' = "none" PROVE DriveInv'
      <3>1. state' = "BLOCKED" /\ hop' = 0 /\ run' = run /\ gaveUp' /\ rung' = "verify" /\ Active'
        BY <2>1, <2>4, RecoveryPhase DEF EnterVerify
      <3> QED
        BY <1>3, <2>0, <2>4, <3>1
    <2>5. ASSUME Stay, UNCHANGED <<goalVars, runVars, escVars>>, Active' <=> Active PROVE DriveInv'
      <3>1. UNCHANGED <<live, run, gaveUp, rung>>
        BY <2>5 DEF goalVars, runVars, escVars
      <3> QED
        BY <1>3, <2>0, <2>1, <2>5, <3>1
    <2>6. CASE gaveUp /\ TickEscalation
      <3>1. ASSUME rung = "verify" PROVE VerifyOver \/ VerifyGoesOn
        BY <2>6, <3>1 DEF TickEscalation
      <3>2. CASE rung = "verify" /\ VerifyOver
        <4>1. ~Active'
          BY <3>2, RecoveryPhase DEF VerifyOver
        <4>2. CASE BacksOff
          <5>1. /\ state' = "BLOCKED" /\ hop' = 0 /\ rung' = "unstick" /\ live' = "unstick"
                /\ gaveUp' /\ run' = run
            BY <2>1, <4>2 DEF BacksOff
          <5> QED
            BY <1>3, <2>0, <4>1, <5>1
        <4> QED
          BY <2>3, <3>2, <4>1, <4>2 DEF VerifyOver
      <3>3. CASE rung = "verify" /\ VerifyGoesOn
        BY <2>5, <3>3, RecoveryPhase DEF VerifyGoesOn
      <3>4. CASE rung # "verify" /\ ~pose
        <4>1. LosesPose
          BY <2>6, <3>4 DEF TickEscalation
        <4> QED
          BY <1>0, <1>6, <4>1 DEF LosesPose, runVars
      <3>5. CASE rung = "unstick" /\ pose
        <4>1. UnstickOver \/ RungGoesOn
          BY <2>6, <3>5 DEF TickEscalation
        <4>2. UNCHANGED recVars
          BY <4>1 DEF UnstickOver, RungGoesOn
        <4> QED
          BY <2>0, <2>3, <2>5, <3>5, <4>1, <4>2, RecoveryPhase DEF UnstickOver, RungGoesOn
      <3>6. CASE rung = "wait" /\ pose
        <4>1. WaitOver \/ RungGoesOn
          BY <2>6, <3>6 DEF TickEscalation
        <4>2. CASE WaitOver
          BY <2>0, <2>4, <3>6, <4>2 DEF WaitOver, goalVars
        <4>3. CASE RungGoesOn
          BY <2>5, <4>3, RecoveryPhase DEF RungGoesOn
        <4> QED
          BY <4>1, <4>2, <4>3
      <3> QED
        BY <2>0, <2>6, <3>1, <3>2, <3>3, <3>4, <3>5, <3>6
    <2>7. CASE ~gaveUp /\ SkipsVia
      <3>1. run' = NoRun /\ ~gaveUp' /\ rung' = rung /\ To("ADVANCE") /\ UNCHANGED recVars
        BY <2>7 DEF SkipsVia, EndRun, escVars
      <3> QED
        BY <1>1, <2>0, <2>2, <2>7, <3>1, RecoveryPhase
    <2>8. CASE ~gaveUp /\ Escalate
      <3>0. live' = "none" /\ ~Active /\ rung \in Rungs \ OnLadder
        BY <2>0, <2>8 DEF Escalate, Cancel
      <3>1. (EnterReplan /\ UNCHANGED recVars) \/ EnterVerify \/ Abandon \/ EnterWait
        BY <2>8 DEF Escalate
      <3>2. CASE Abandon
        <4>1. state' = "FAILED" /\ hop' = 0 /\ rung' = "none" /\ run' = run /\ ~Active'
          BY <3>2, RecoveryPhase DEF Abandon, To
        <4> QED
          BY <1>2, <2>0, <3>0, <4>1
      <3>3. CASE EnterWait
        <4>1. /\ state' = "BLOCKED" /\ hop' = 0 /\ rung' = "wait" /\ gaveUp' /\ run' = run
              /\ ~Active'
          BY <2>1, <3>0, <3>3, RecoveryPhase DEF EnterWait
        <4> QED
          BY <1>3, <2>0, <3>0, <4>1
      <3> QED
        BY <2>3, <2>4, <3>0, <3>1, <3>2, <3>3, RecoveryPhase
    <2>9. CASE ~gaveUp /\ Retry
      <3>1. /\ run' = [run EXCEPT !.retry = 0, !.hold = FALSE] /\ To("SELECT")
            /\ UNCHANGED <<gaveUp, rung, recVars>>
        BY <2>9 DEF Retry, escVars
      <3>2. run' \in RunRecord
        BY <2>0, <3>1 DEF RunRecord
      <3> QED
        BY <1>1, <2>0, <2>2, <2>9, <3>1, <3>2, RecoveryPhase
    <2>10. CASE BlockGoesOn
      BY <2>5, <2>10, RecoveryPhase DEF BlockGoesOn
    <2> QED
      BY <1>13, <2>6, <2>7, <2>8, <2>9, <2>10 DEF TickBlocked
  <1>14. ASSUME TickSuspended PROVE DriveInv'
    <2>0. /\ state = "SUSPENDED" /\ reason = "pose_lost" /\ Active /\ live = "none"
          /\ rung \in Rungs \ OnLadder /\ UNCHANGED <<live, rung>>
      BY <1>14 DEF TickSuspended, DriveInv, ControlType, StoppedMeansRevoked, goalVars, escVars
    <2>1. \A s \in {"SUSPENDED", "ALIGNING"} : To(s) => state' = s /\ hop' = 0
      BY <2>0 DEF To
    <2>2. CASE RecWaits(pose) /\ Stay /\ UNCHANGED <<reason, legVars, runVars>>
      <3>1. state' = "SUSPENDED" /\ hop' = 0 /\ UNCHANGED <<reason, run>> /\ Active'
        BY <2>0, <2>1, <2>2, RecoveryPhase DEF Stay, runVars
      <3> QED
        BY <1>0, <1>4, <2>0, <3>1
    <2>3. CASE RecResumes(pose) /\ EndRun /\ To("ALIGNING")
      <3>1. state' = "ALIGNING" /\ hop' = 0 /\ ~Active' /\ run' = NoRun /\ ~gaveUp'
        BY <2>1, <2>3, RecoveryPhase DEF EndRun
      <3> QED
        BY <1>1, <2>0, <3>1
    <2> QED
      BY <1>14, <2>2, <2>3 DEF TickSuspended
  (* What happens between two ticks.                                         *)
  <1>15. ASSUME TickStarts PROVE DriveInv'
    <2>1. /\ hop' = 1 /\ UNCHANGED <<state, reason, live, gaveUp, rung, teleop>>
          /\ ~Inert /\ ~(teleop /\ state \in TeleopStops)
      BY <1>15 DEF TickStarts, goalVars, escVars, world
    <2>2. teleop => state = "SUSPENDED"
      BY <1>0, <2>1 DEF Inert, TeleopStops, ControlType
    <2>3. Active' <=> Active
      BY <1>15, RecoveryPhase DEF TickStarts
    <2>4. run' = run \/ (run # NoRun /\ run' \in RunRecord)
      <3>1. \A a, b \in Nat : Lower(a, b) \in Nat
        BY DEF Lower
      <3>2. run # NoRun => run.age \in Nat /\ run.retry \in Nat
        BY <1>0 DEF RunRecord
      <3>3. run # NoRun => /\ Lower(run.age + 1, Window + 1) \in Nat
                           /\ Lower(run.retry + 1, Interval) \in Nat
        <4>1. Window + 1 \in Nat /\ Interval \in Nat
          BY HierAssumption DEF HierAssumption
        <4>2. run # NoRun => run.age + 1 \in Nat /\ run.retry + 1 \in Nat
          BY <3>2
        <4> QED
          BY <3>1, <4>1, <4>2
      <3> QED
        BY <1>0, <1>15, <3>3, ControlShared DEF TickStarts
    <2>5. ControlType' /\ (run' = NoRun <=> run = NoRun)
      BY <1>0, <2>1, <2>4, ControlShared DEF ControlType
    <2> QED
      BY <2>1, <2>2, <2>3, <2>5
         DEF DriveInv, StoppedMeansRevoked, BlockedIsHandled, RecoveryInStep
  <1>16. ASSUME TeleopTakes PROVE DriveInv'
    <2>1. /\ To("SUSPENDED") /\ live' = "none" /\ reason' = "teleop" /\ RecCancel
          /\ UNCHANGED <<run, rung>>
      BY <1>16 DEF TeleopTakes, EnterSuspended, Cancel, runVars, escVars
    <2>2. state' = "SUSPENDED" /\ hop' = 0
      BY <2>1 DEF To
    <2> QED
      BY <1>0, <1>4, <2>1, <2>2, RecoveryPhase DEF ControlType
  <1>17. ASSUME PoseDoubted PROVE DriveInv'
    <2>1. EnterSuspended("pose_lost") /\ UNCHANGED <<run, rung>> /\ state \in Moving
      BY <1>17 DEF PoseDoubted, runVars, escVars
    <2>2. rung \in Rungs \ OnLadder
      BY <2>1 DEF DriveInv, ControlType
    <2> QED
      BY <1>0, <1>6, <2>1, <2>2
  <1>18. ASSUME Advise PROVE DriveInv'
    <2>0. /\ hop = 0 /\ run \in RunRecord /\ state \in {"BLOCKED", "SELECT", "DRIVING"}
          /\ UNCHANGED teleop /\ (Active' <=> Active)
      BY <1>0, <1>18, RecoveryPhase DEF Advise, RunIsLive, world
    <2>1. state' = "BLOCKED" /\ hop' = 0
      BY <1>18, <2>0 DEF Advise, To
    <2>2. CASE run' = [run EXCEPT !.hold = TRUE] /\ UNCHANGED <<gaveUp, escVars>>
               /\ IF state = "BLOCKED" THEN UNCHANGED goalVars ELSE Cancel
      <3>1. run' \in RunRecord
        BY <2>0, <2>2 DEF RunRecord
      <3>2. UNCHANGED <<gaveUp, rung>> /\ (live' = "none" \/ (state = "BLOCKED" /\ live' = live))
        BY <2>2 DEF goalVars, escVars, Cancel
      <3>3. /\ rung \in Rungs /\ (gaveUp <=> rung \in OnLadder) /\ (Active <=> rung = "verify")
            /\ state = "BLOCKED" => live = "none" \/ (live = "unstick" /\ rung = "unstick")
        BY <2>0 DEF DriveInv, ControlType, BlockedIsHandled, RecoveryInStep, StoppedMeansRevoked
      <3> QED
        BY <1>3, <2>0, <2>1, <3>1, <3>2, <3>3
    <2>3. CASE ~gaveUp /\ Cancel /\ rung' = "wait" /\ gaveUp' = TRUE /\ run' = run
      <3>1. ~Active
        BY <2>0, <2>3 DEF DriveInv, BlockedIsHandled, RecoveryInStep
      <3> QED
        BY <1>3, <2>0, <2>1, <2>3, <3>1 DEF Cancel
    <2> QED
      BY <1>18, <2>2, <2>3 DEF Advise
  <1>19. ASSUME RequestResume \/ Go PROVE DriveInv'
    <2>1. /\ state' = "ALIGNING" /\ hop' = 0 /\ rung' = "none" /\ run' = NoRun /\ ~gaveUp'
          /\ RecCancel
      BY <1>19 DEF RequestResume, Go, EndRun, To
    <2> QED
      BY <1>1, <2>1, RecoveryPhase
  <1>20. ASSUME Stop PROVE DriveInv'
    <2>1. /\ state' = "IDLE" /\ hop' = 0 /\ live' = "none" /\ rung' = "none" /\ run' = NoRun
          /\ RecCancel
      BY <1>20 DEF Stop, EndRun, To, Cancel
    <2> QED
      BY <1>2, <2>1, RecoveryPhase
  <1>21. ASSUME UNCHANGED <<state, hop, reason, live, run, gaveUp, rung>>, Active' <=> Active,
                hop = 0 \/ UNCHANGED teleop
         PROVE  DriveInv'
    <2>1. ControlType' /\ BlockedIsHandled' /\ StoppedMeansRevoked' /\ RecoveryInStep'
      BY <1>21 DEF DriveInv, ControlType, BlockedIsHandled, StoppedMeansRevoked, RecoveryInStep
    <2> QED
      BY <1>21, <2>1 DEF DriveInv
  <1>22. ASSUME Teleop \/ PoseChanges \/ Inspect \/ UNCHANGED hierVars PROVE DriveInv'
    <2>1. /\ UNCHANGED <<state, hop, reason, live, run, gaveUp, rung, recVars>>
          /\ hop = 0 \/ UNCHANGED teleop
      BY <1>22 DEF Teleop, PoseChanges, Inspect, hierVars, goalVars, runVars, escVars, world
    <2> QED
      BY <1>21, <2>1, RecoveryPhase
  <1>23. ASSUME EStop PROVE DriveInv'
    <2>1. /\ UNCHANGED <<state, hop, reason, live, run, gaveUp, rung, teleop>>
          /\ phase' = phase
      BY <1>23 DEF EStop, Latches, OperatorRearms, goalVars, runVars, escVars, world
    <2> QED
      BY <1>21, <2>1 DEF Active
  <1> QED
    BY <1>9, <1>10, <1>11, <1>12, <1>13, <1>14, <1>15, <1>16, <1>17, <1>18, <1>19, <1>20,
       <1>22, <1>23 DEF Next, Tick, HandlerRuns, User

LEMMA DriveInvHolds == Spec \/ StepSpec => []DriveInv
  <1>1. Init => DriveInv
    BY DEF Init, HierInit, RecInit, DriveInv, ControlType, StoppedMeansRevoked,
           BlockedIsHandled, RecoveryInStep, Active, Moving, OnLadder, ActiveStates,
           EndStates, Rungs
  <1>2. DriveInv /\ [Next \/ Inspect]_hierVars => DriveInv'
    BY DriveStep
  <1>3. [Next]_hierVars => [Next \/ Inspect]_hierVars
    OBVIOUS
  <1> QED
    BY <1>1, <1>2, <1>3, PTL DEF Spec, StepSpec

(***************************************************************************)
(* Whatever the robot reports, the user does and the pose and the e-stop   *)
(* become, at any handler: a drive that is stopped has revoked its goal, a *)
(* block is always being worked on, and the recovery is active exactly     *)
(* while the drive waits for it.                                           *)
(***************************************************************************)
THEOREM DriveIsSafe ==
  Spec \/ StepSpec
    => [](StoppedMeansRevoked /\ BlockedIsHandled /\ RecoveryInStep /\ TeleopOwnsWheels)
  <1>1. DriveInv => StoppedMeansRevoked /\ BlockedIsHandled /\ RecoveryInStep
    BY DEF DriveInv
  <1>2. DriveInv => TeleopOwnsWheels
    BY DEF DriveInv, ControlType, StoppedMeansRevoked, TeleopOwnsWheels
  <1> QED
    BY <1>1, <1>2, DriveInvHolds, PTL

-------------------------------------------------------------------------------
(* Retries                                                                   *)

\* Between two retries lies an interval of the age of the run.
RetryInv ==
  /\ tries \in Nat
  /\ run = NoRun => tries = 0
  /\ run # NoRun =>
       /\ run \in Runs
       /\ tries * Interval <= Window
       /\ run.age <= Window => tries * Interval + run.retry <= run.age

\* What a step may do to the run and to the count of its retries.
RunEnds == run' \in {NoRun, FreshRun} /\ (tries' = 0 \/ (run = NoRun /\ tries' = tries))
RunHolds == run # NoRun /\ run' = [run EXCEPT !.hold = TRUE] /\ tries' = tries
RunRetries ==
  /\ run # NoRun /\ run.age <= Window /\ run.retry >= Interval
  /\ run' = [run EXCEPT !.retry = 0, !.hold = FALSE]
  /\ tries' = tries + 1
RunAges ==
  /\ run # NoRun
  /\ run' = [run EXCEPT !.age = Lower(run.age + 1, Window + 1),
                        !.retry = Lower(run.retry + 1, Interval)]
  /\ tries' = tries

LEMMA RunChanges ==
  ASSUME DriveInv, [Next \/ Inspect]_hierVars, run = NoRun \/ run \in Runs
  PROVE  RunEnds \/ RunHolds \/ RunRetries \/ RunAges \/ UNCHANGED <<run, tries>>
  <1>1. ASSUME NEW why, NEW was, EnterBlocked(why, was), was = run, tries' = tries
        PROVE  RunEnds \/ UNCHANGED <<run, tries>>
    BY <1>1 DEF EnterBlocked, RunEnds
  <1>2. ASSUME NEW was, SendPath(was), was = run, tries' = tries
        PROVE  RunEnds \/ UNCHANGED <<run, tries>>
    BY <1>1, <1>2 DEF SendPath
  <1>3. CASE TickAligning \/ TickSelect
    BY <1>1, <1>2, <1>3 DEF TickAligning, TickSelect, SelectLost, SelectExpired, SelectAdvances,
         SelectBlocked, SelectHolds, SelectSendsPath, SelectSendsGoto, runVars
  <1>4. CASE TickAdvance \/ TickSuspended \/ RequestResume \/ Go \/ Stop
    BY <1>4 DEF TickAdvance, TickSuspended, RequestResume, Go, Stop, EndRun, RunEnds, runVars
  <1>5. CASE TickDriving
    <2>1. CASE DriveGoesOn
      <3>1. PICK moved \in BOOLEAN :
              LET was == IF moved THEN NoRun ELSE run
              IN /\ tries' = IF moved THEN 0 ELSE tries
                 /\ \/ EnterBlocked("no_route_progress", was) \/ SendPath(was)
                    \/ run' = was
        BY <2>1 DEF DriveGoesOn
      <3>2. CASE ~moved
        BY <1>1, <1>2, <3>1, <3>2
      <3>3. CASE moved
        <4>1. tries' = 0 /\ (EnterBlocked("no_route_progress", NoRun) \/ SendPath(NoRun) \/ run' = NoRun)
          BY <3>1, <3>3
        <4>2. run' \in {NoRun, FreshRun}
          BY <4>1 DEF EnterBlocked, SendPath
        <4> QED
          BY <4>1, <4>2 DEF RunEnds
      <3> QED
        BY <3>2, <3>3
    <2>2. CASE DriveEnded
      BY <2>2 DEF DriveEnded, EndRun, RunEnds, runVars
    <2>3. CASE DriveReached \/ DriveExpired \/ DriveRejected \/ DriveBlocked \/ DriveCanceled
      BY <1>1, <2>3 DEF DriveReached, DriveExpired, DriveRejected, DriveBlocked, DriveCanceled, runVars
    <2> QED
      BY <1>5, <2>1, <2>2, <2>3 DEF TickDriving, runVars
  <1>6. CASE TickBlocked
    <2>0. EnterReplan \/ EnterVerify \/ EnterWait \/ Abandon \/ BacksOff
            => RunEnds \/ UNCHANGED <<run, tries>>
      BY DEF EnterReplan, EndRun, RunEnds, EnterVerify, EnterWait, Abandon, BacksOff
    <2>1. CASE gaveUp /\ TickEscalation
      <3>1. rung \in {"verify", "unstick", "wait"}
        BY <1>6, <2>1 DEF TickBlocked, DriveInv, BlockedIsHandled
      <3>2. VerifyOver \/ VerifyGoesOn \/ LosesPose \/ UnstickOver \/ RungGoesOn \/ WaitOver
              => RunEnds \/ UNCHANGED <<run, tries>>
        BY <2>0 DEF VerifyOver, VerifyGoesOn, LosesPose, UnstickOver, RungGoesOn, WaitOver, runVars
      <3> QED
        BY <2>1, <3>1, <3>2 DEF TickEscalation
    <2>2. CASE Escalate
      BY <2>0, <2>2 DEF Escalate
    <2>3. CASE SkipsVia
      BY <2>3 DEF SkipsVia, EndRun, RunEnds
    <2>4. CASE ~Spent /\ Retry /\ run # NoRun
      <3>1. run.age <= Window
        BY <2>4, HierAssumption DEF Spent, Runs, HierAssumption
      <3> QED
        BY <2>4, <3>1 DEF Retry, RunRetries
    <2>5. CASE BlockGoesOn
      BY <2>5 DEF BlockGoesOn, runVars
    <2> QED
      BY <1>6, <2>1, <2>2, <2>3, <2>4, <2>5 DEF TickBlocked
  <1>7. CASE TickStarts
    BY <1>7 DEF TickStarts, RunAges
  <1>8. CASE Advise
    BY <1>8 DEF Advise, RunIsLive, RunHolds
  <1>9. CASE TeleopTakes \/ PoseDoubted \/ Teleop \/ PoseChanges \/ Inspect \/ EStop
    BY <1>9 DEF TeleopTakes, PoseDoubted, Teleop, PoseChanges, Inspect, EStop, runVars
  <1> QED
    BY <1>3, <1>4, <1>5, <1>6, <1>7, <1>8, <1>9 DEF Next, Tick, HandlerRuns, User, hierVars, runVars

\* The sums over plain numbers.
LEMMA RetrySums ==
  ASSUME NEW n \in Nat, NEW every \in Nat, NEW window \in Nat, NEW age \in Nat, NEW retry \in Nat
  PROVE  /\ n * every + retry <= age /\ age <= window /\ retry >= every
              => (n + 1) * every <= window /\ (n + 1) * every + 0 <= age
         /\ n * every + retry <= age => n * every + Lower(retry + 1, every) <= age + 1
  <1>1. n * every \in Nat /\ (n + 1) * every = n * every + every
    <2>1. n * every \in Nat
      OBVIOUS
    <2>2. (n + 1) * every = n * every + every
      OBVIOUS
    <2> QED
      BY <2>1, <2>2
  <1>2. Lower(retry + 1, every) \in {retry + 1, every} /\ (Lower(retry + 1, every) = every => every <= retry + 1)
    BY DEF Lower
  <1>3. n * every + retry <= age /\ age <= window /\ retry >= every
          => (n + 1) * every <= window /\ (n + 1) * every + 0 <= age
    <2> DEFINE all == n * every
    <2>1. all \in Nat /\ (n + 1) * every = all + every
      BY <1>1
    <2> HIDE DEF all
    <2>2. all + retry <= age /\ age <= window /\ retry >= every
            => all + every <= window /\ all + every + 0 <= age
      BY <2>1
    <2> QED
      BY <2>1, <2>2 DEF all
  <1>4. n * every + retry <= age => n * every + Lower(retry + 1, every) <= age + 1
    BY <1>1, <1>2
  <1> QED
    BY <1>3, <1>4

LEMMA RetryStep ==
  ASSUME DriveInv, RetryInv, [Next \/ Inspect]_hierVars
  PROVE  RetryInv'
  <1>0. /\ tries \in Nat /\ Window \in Nat /\ Interval \in Nat
        /\ run # NoRun => run \in Runs /\ run.age \in Nat /\ run.retry \in Nat
    BY HierAssumption DEF HierAssumption, RetryInv, Runs
  <1>1. NoRun \notin Runs /\ FreshRun \in Runs /\ FreshRun.age = 0 /\ FreshRun.retry = 0
    BY <1>0 DEF NoRun, FreshRun, Runs
  <1>2. CASE RunEnds
    <2>1. tries' = 0
      BY <1>2 DEF RunEnds, RetryInv
    <2>2. tries' * Interval = 0 /\ tries' * Interval + 0 = 0
      BY <1>0, <2>1
    <2> QED
      BY <1>0, <1>1, <1>2, <2>1, <2>2 DEF RunEnds, RetryInv
  <1>3. CASE RunHolds
    <2>1. /\ run' \in Runs /\ run'.age = run.age /\ run'.retry = run.retry
      BY <1>0, <1>3 DEF RunHolds, Runs
    <2> QED
      BY <1>1, <1>3, <2>1 DEF RunHolds, RetryInv
  <1>4. CASE RunRetries
    <2>1. /\ run' \in Runs /\ run'.age = run.age /\ run'.retry = 0
      <3>1. run \in Runs /\ run' = [run EXCEPT !.retry = 0, !.hold = FALSE]
        BY <1>0, <1>4 DEF RunRetries
      <3>2. 0 \in 0 .. Interval
        BY <1>0
      <3> QED
        BY <3>1, <3>2 DEF Runs
    <2>2. tries * Interval + run.retry <= run.age /\ tries' = tries + 1 /\ tries' \in Nat
      BY <1>0, <1>4 DEF RunRetries, RetryInv
    <2>3. tries' * Interval <= Window /\ tries' * Interval + 0 <= run.age
      BY <1>0, <1>4, <2>2, RetrySums DEF RunRetries
    <2> QED
      BY <1>1, <2>1, <2>2, <2>3 DEF RetryInv
  <1>5. CASE RunAges
    <2>1. /\ run'.age = Lower(run.age + 1, Window + 1) /\ run'.retry = Lower(run.retry + 1, Interval)
          /\ run' \in Runs /\ tries' = tries
      <3>1. Lower(run.age + 1, Window + 1) \in 0 .. Window + 1 /\ Lower(run.retry + 1, Interval) \in 0 .. Interval
        BY <1>0, <1>5 DEF RunAges, Lower
      <3> QED
        BY <1>0, <1>5, <3>1 DEF RunAges, Runs
    <2>2. run'.age <= Window => run'.age = run.age + 1 /\ run.age <= Window
      BY <1>0, <1>5, <2>1 DEF RunAges, Lower
    <2>3. run.age <= Window => tries * Interval + Lower(run.retry + 1, Interval) <= run.age + 1
      BY <1>0, <1>5, RetrySums DEF RunAges, RetryInv
    <2> QED
      BY <1>0, <1>1, <1>5, <2>1, <2>2, <2>3 DEF RunAges, RetryInv
  <1>6. CASE UNCHANGED <<run, tries>>
    BY <1>6 DEF RetryInv
  <1> QED
    BY <1>2, <1>3, <1>4, <1>5, <1>6, RunChanges DEF RetryInv

(***************************************************************************)
(* For any window and interval, whatever the goals of a blocked drive end  *)
(* in and however its ticks fall: it retries no more often than the window *)
(* has intervals before it makes progress, gives up or gets an order.      *)
(***************************************************************************)
THEOREM RetriesAreBounded == Spec \/ StepSpec => []BoundedRetries
  <1>1. Init => RetryInv
    BY DEF Init, HierInit, RetryInv
  <1>2. DriveInv /\ RetryInv /\ [Next \/ Inspect]_hierVars => RetryInv'
    BY RetryStep
  <1>3. RetryInv => BoundedRetries
    <2> SUFFICES ASSUME RetryInv, Interval > 0 PROVE tries <= Window \div Interval
      BY DEF BoundedRetries
    <2>1. tries \in Nat /\ Window \in Nat /\ Interval \in Nat \ {0}
      BY HierAssumption DEF RetryInv, HierAssumption
    <2>2. tries * Interval <= Window
      <3>1. CASE run = NoRun
        <4>1. tries = 0
          BY <3>1 DEF RetryInv
        <4> QED
          BY <2>1, <4>1
      <3>2. CASE run # NoRun
        BY <3>2 DEF RetryInv
      <3> QED
        BY <3>1, <3>2
    <2> QED
      BY <2>1, <2>2, FitsInto
  <1>4. [Next]_hierVars => [Next \/ Inspect]_hierVars
    OBVIOUS
  <1> QED
    BY <1>1, <1>2, <1>3, <1>4, DriveInvHolds, PTL DEF Spec, StepSpec

-------------------------------------------------------------------------------
(* Types                                                                     *)

LEMMA LargestOfSeq ==
  ASSUME NEW s \in Seq(Nat), s # <<>>
  PROVE  /\ MaxOf(s) \in Nat
         /\ Len(s) \in Nat \ {0} /\ DOMAIN s = 1 .. Len(s)
         /\ \A i \in 1 .. Len(s) : s[i] \in 0 .. MaxOf(s)
  <1>1. Len(s) \in Nat \ {0} /\ DOMAIN s = 1 .. Len(s) /\ \A i \in 1 .. Len(s) : s[i] \in Nat
    OBVIOUS
  <1>2. PICK k \in 1 .. Len(s) : \A i \in 1 .. Len(s) : s[i] <= s[k]
    BY <1>1, ListHasLargest
  <1>3. MaxOf(s) \in {s[i] : i \in DOMAIN s} /\ \A i \in DOMAIN s : s[i] <= MaxOf(s)
    BY <1>1, <1>2 DEF MaxOf
  <1> QED
    BY <1>1, <1>3

LEMMA RecoveryLimits ==
  /\ MaxOf(StableLink) \in Nat /\ \A i \in DOMAIN StableLink : StableLink[i] \in 0 .. MaxOf(StableLink)
  /\ 1 \in DOMAIN StableLink
  /\ MaxOf(Backoffs) \in Nat /\ \A i \in 1 .. Len(Backoffs) : Backoffs[i] \in 0 .. MaxOf(Backoffs)
  /\ Len(Backoffs) \in Nat \ {0}
  /\ VerifyTimeout \in Nat /\ MaxRelocalize \in Nat /\ RearmGap \in Nat
  BY RecoveryAssumption, LargestOfSeq DEF RecoveryAssumption

\* What the drive may ask of the recovery keeps its types.
LEMMA RecoveryTypes ==
  ASSUME RecTypeOK
  PROVE  /\ RecCancel => RecTypeOK'
         /\ \A a, b : Begin(a, b) => RecTypeOK'
         /\ \A a : RecWaits(a) => RecTypeOK'
         /\ \A a : RecResumes(a) => RecTypeOK'
         /\ RecPasses(1) => RecTypeOK'
         /\ UNCHANGED recVars => RecTypeOK'
         /\ (\E c \in Causes : Latches(c)) \/ OperatorRearms => RecTypeOK'
  <1> DEFINE LongLink == MaxOf(StableLink)
             LongWait == VerifyTimeout + MaxOf(Backoffs)
  <1>0. /\ LongLink \in Nat /\ LongWait \in Nat /\ VerifyTimeout \in 0 .. LongWait
        /\ 0 \in 0 .. LongLink /\ 0 \in 0 .. LongWait /\ 0 \in None .. LongLink /\ None \in None .. LongLink
        /\ 0 \in 0 .. Len(Backoffs) - 1 /\ 0 \in 0 .. MaxRelocalize
        /\ RearmGap \in 0 .. RearmGap
    BY RecoveryLimits DEF None
  <1>1. RecCancel => RecTypeOK'
    BY <1>0 DEF RecCancel, Idle, RecTypeOK
  <1>2. ASSUME NEW a, NEW b, Begin(a, b) PROVE RecTypeOK'
    <2>1. stableReq' \in 0 .. LongLink
      BY <1>2, RecoveryLimits DEF Begin
    <2>2. atStart' \in BOOLEAN /\ heard' \in {"none"} \cup Causes /\ latch' \in {"off"} \cup Causes
      BY <1>2 DEF Begin, Causes
    <2> QED
      BY <1>0, <1>2, <2>1, <2>2 DEF Begin, RecTypeOK
  <1>3. Relocalize => /\ phase' \in {"relocalize_wait", "verify"}
                      /\ wait' \in 0 .. LongWait /\ fails' \in 0 .. Len(Backoffs) - 1
                      /\ relocs' \in 0 .. MaxRelocalize
    <2>1. fails \in 0 .. Len(Backoffs) - 1 /\ relocs \in 0 .. MaxRelocalize
      BY DEF RecTypeOK
    <2>2. At(Backoffs, fails) \in 0 .. LongWait /\ Lower(fails + 1, Len(Backoffs) - 1) \in 0 .. Len(Backoffs) - 1
      <3>1. fails + 1 \in 1 .. Len(Backoffs) /\ fails < Len(Backoffs)
        BY <2>1, RecoveryLimits
      <3>2. Backoffs[fails + 1] \in 0 .. MaxOf(Backoffs)
        BY <3>1, RecoveryLimits
      <3>3. At(Backoffs, fails) \in 0 .. LongWait
        BY <3>1, <3>2, RecoveryLimits DEF At
      <3>4. Lower(fails + 1, Len(Backoffs) - 1) \in 0 .. Len(Backoffs) - 1
        BY <3>1, RecoveryLimits DEF Lower
      <3> QED
        BY <3>3, <3>4
    <2>3. Backoff => /\ phase' = "relocalize_wait" /\ wait' \in 0 .. LongWait
                     /\ fails' \in 0 .. Len(Backoffs) - 1
      BY <2>2 DEF Backoff, GoTo
    <2>4. relocs < MaxRelocalize => relocs + 1 \in 0 .. MaxRelocalize
      BY <2>1, RecoveryLimits
    <2>5. 0 \in 0 .. MaxRelocalize
      BY <1>0
    <2>6. relocs >= MaxRelocalize \/ relocs < MaxRelocalize
      BY <2>1, RecoveryLimits
    <2> HIDE DEF LongWait
    <2> QED
      BY <1>0, <2>1, <2>3, <2>4, <2>5, <2>6 DEF Relocalize, GoTo
  <1>4. ASSUME NEW a, RecWaits(a) PROVE RecTypeOK'
    <2>1. /\ gap' \in 0 .. RearmGap /\ latch' \in {"off"} \cup Causes
          /\ UNCHANGED <<stableReq, atStart, heard>>
      BY <1>0, <1>4 DEF RecWaits, TryRearm, RecTypeOK
    <2>2. stable' \in None .. LongLink
      BY <1>0, <1>4 DEF RecWaits, LinkUp, LinkLost, RecTypeOK
    <2>3. /\ phase' \in {"idle", "wait_link", "verify", "relocalize_wait"}
          /\ wait' \in 0 .. LongWait /\ fails' \in 0 .. Len(Backoffs) - 1 /\ relocs' \in 0 .. MaxRelocalize
      <3>1. /\ phase \in {"idle", "wait_link", "verify", "relocalize_wait"}
            /\ wait \in 0 .. LongWait /\ fails \in 0 .. Len(Backoffs) - 1 /\ relocs \in 0 .. MaxRelocalize
        BY DEF RecTypeOK
      <3> HIDE DEF LongWait, LongLink
      <3>2. VerifyTimeout \in 0 .. LongWait /\ 0 \in 0 .. LongWait
        BY <1>0
      <3>3. CASE LinkLost
        BY <3>1, <3>2, <3>3 DEF LinkLost, GoTo
      <3>4. CASE Relocalize
        BY <1>3, <3>4
      <3>5. CASE UNCHANGED <<fails, relocs>> /\ (UNCHANGED <<phase, wait>>
                   \/ GoTo("verify", VerifyTimeout) \/ GoTo("wait_link", 0))
        BY <3>1, <3>2, <3>5 DEF GoTo
      <3> QED
        BY <1>4, <3>3, <3>4, <3>5 DEF RecWaits, Waits
    <2> QED
      BY <2>1, <2>2, <2>3 DEF RecTypeOK
  <1>5. \A a : RecResumes(a) => RecTypeOK'
    BY <1>1 DEF RecResumes
  <1>6. RecPasses(1) => RecTypeOK'
    <2> SUFFICES ASSUME RecPasses(1) PROVE RecTypeOK'
      OBVIOUS
    <2>1. stable' \in None .. LongLink
      BY <1>0 DEF RecPasses, RecTypeOK, Lower, None
    <2>2. wait' \in 0 .. LongWait /\ gap' \in 0 .. RearmGap
      BY <1>0, RecoveryLimits DEF RecPasses, RecTypeOK
    <2> QED
      BY <2>1, <2>2 DEF RecPasses, RecTypeOK
  <1>7. UNCHANGED recVars => RecTypeOK'
    BY DEF recVars, RecTypeOK
  <1>8. (\E c \in Causes : Latches(c)) \/ OperatorRearms => RecTypeOK'
    BY DEF Latches, OperatorRearms, RecTypeOK
  <1> QED
    BY <1>1, <1>2, <1>4, <1>5, <1>6, <1>7, <1>8

LEMMA RecoveryStep ==
  ASSUME DriveInv, RecTypeOK, [Next \/ Inspect]_hierVars
  PROVE  RecTypeOK'
  <1>0. /\ \A why : EnterSuspended(why) => RecTypeOK'
        /\ EscClear => RecTypeOK'
        /\ UNCHANGED recVars => RecTypeOK'
    BY RecoveryTypes DEF EnterSuspended, EscClear
  <1>1. \A was : SendPath(was) => RecTypeOK'
    BY <1>0 DEF SendPath
  <1>2. CASE TickAligning \/ TickSelect
    BY <1>0, <1>1, <1>2 DEF TickAligning, TickSelect, SelectLost, SelectExpired, SelectAdvances,
         SelectBlocked, SelectHolds, SelectSendsPath, SelectSendsGoto
  <1>3. CASE TickAdvance
    BY <1>0, <1>3 DEF TickAdvance
  <1>4. CASE TickDriving
    <2>1. CASE DriveGoesOn
      <3>1. UNCHANGED recVars \/ \E was : SendPath(was)
        BY <2>1 DEF DriveGoesOn
      <3> QED
        BY <1>0, <1>1, <3>1
    <2>2. CASE ~DriveGoesOn
      BY <1>0, <1>4, <2>2 DEF TickDriving, DriveReached, DriveExpired, DriveRejected, DriveEnded,
           DriveBlocked, DriveCanceled
    <2> QED
      BY <2>1, <2>2
  <1>5. CASE TickBlocked
    <2>0. /\ EnterVerify \/ Abandon \/ VerifyOver \/ VerifyGoesOn => RecTypeOK'
          /\ EnterWait => RecTypeOK'
      BY <1>0, RecoveryTypes DEF EnterVerify, Abandon, VerifyOver, VerifyGoesOn, EnterWait
    <2>1. CASE gaveUp /\ TickEscalation
      <3>1. rung \in {"verify", "unstick", "wait"}
        BY <1>5, <2>1 DEF TickBlocked, DriveInv, BlockedIsHandled
      <3>2. LosesPose \/ UnstickOver \/ RungGoesOn \/ WaitOver => RecTypeOK'
        BY <1>0, <2>0 DEF LosesPose, UnstickOver, RungGoesOn, WaitOver
      <3> QED
        BY <2>0, <2>1, <3>1, <3>2 DEF TickEscalation
    <2>2. CASE Escalate
      BY <1>0, <2>0, <2>2 DEF Escalate
    <2>3. CASE SkipsVia \/ Retry \/ BlockGoesOn
      BY <1>0, <2>3 DEF SkipsVia, Retry, BlockGoesOn
    <2> QED
      BY <1>5, <2>1, <2>2, <2>3 DEF TickBlocked
  <1>6. CASE TickSuspended \/ TickStarts
    BY <1>0, <1>6, RecoveryTypes DEF TickSuspended, TickStarts
  <1>7. CASE TeleopTakes \/ PoseDoubted \/ RequestResume \/ Go \/ Stop \/ EStop
    BY <1>0, <1>7, RecoveryTypes DEF TeleopTakes, PoseDoubted, RequestResume, Go, Stop, EStop
  <1>8. CASE Advise \/ Teleop \/ PoseChanges \/ Inspect \/ UNCHANGED hierVars
    BY <1>0, <1>8 DEF Advise, Teleop, PoseChanges, Inspect, hierVars
  <1> QED
    BY <1>2, <1>3, <1>4, <1>5, <1>6, <1>7, <1>8 DEF Next, Tick, HandlerRuns, User

LEMMA RunnerStep ==
  ASSUME RunnerTypeOK, [Next \/ Inspect]_hierVars
  PROVE  RunnerTypeOK'
  <1>1. CASE UNCHANGED patrolVars
    BY <1>1 DEF patrolVars, RunnerTypeOK
  <1>2. patrol \in Patrols /\ patrol.n \in Nat \ {0}
    BY PatrolAssumption DEF PatrolAssumption, RunnerTypeOK
  <1>3. CASE OnArrived
    <2>1. wp' \in 0 .. patrol.n - 1
      BY <1>2, <1>3 DEF OnArrived, RunnerTypeOK, LastIndex
    <2> QED
      BY <1>3, <2>1 DEF OnArrived, RunnerTypeOK
  <1>4. CASE NewPatrol
    <2>1. patrol' \in Patrols /\ patrol'.n \in Nat \ {0}
      BY <1>4, PatrolAssumption DEF PatrolAssumption, NewPatrol
    <2> QED
      BY <1>4, <2>1 DEF NewPatrol, RunnerTypeOK
  <1>5. OnArrived \/ NewPatrol \/ UNCHANGED patrolVars
    BY DEF Next, Tick, HandlerRuns, User, Inspect, TickAligning, TickSelect, TickDriving, TickAdvance,
           TickBlocked, TickSuspended, TickStarts, TeleopTakes, PoseDoubted, Advise, Go, Stop,
           RequestResume, Teleop, PoseChanges, EStop, hierVars
  <1> QED
    BY <1>1, <1>3, <1>4, <1>5

\* Only a goal that is rejected for good is past the limit, until the drive has replanned.
RejectInv ==
  /\ rejects \in 0 .. MaxRejects + 1
  /\ state \in Moving => rejects <= MaxRejects
  /\ state = "BLOCKED" /\ rejects > MaxRejects => reason = "rejected"

LEMMA RejectStep ==
  ASSUME DriveInv, RejectInv, [Next \/ Inspect]_hierVars
  PROVE  RejectInv'
  <1> USE DEF Moving
  <1>0. MaxRejects \in Nat /\ rejects \in Nat
    BY HierAssumption DEF HierAssumption, RejectInv
  <1>1. ASSUME rejects' = 0 PROVE RejectInv'
    BY <1>0, <1>1 DEF RejectInv
  <1>2. ASSUME state \in Moving, rejects' = rejects PROVE RejectInv'
    BY <1>0, <1>2 DEF RejectInv
  <1>3. ASSUME rejects' = rejects, state' = "BLOCKED" => state = "BLOCKED" /\ reason' = reason,
               state' \in Moving => state \in Moving \/ (state = "BLOCKED" /\ reason # "rejected")
        PROVE  RejectInv'
    BY <1>0, <1>3 DEF RejectInv
  <1>4. CASE TickAligning \/ TickSelect
    BY <1>2, <1>4 DEF TickAligning, TickSelect, SelectLost, SelectExpired, SelectAdvances,
         SelectBlocked, SelectHolds, SelectSendsPath, SelectSendsGoto, legVars
  <1>5. CASE TickAdvance \/ TickSuspended
    <2>1. rejects' = 0 \/ (state = "SUSPENDED" /\ rejects' = rejects /\ state' = state)
      BY <1>5 DEF TickAdvance, TickSuspended, Stay, To, legVars
    <2> QED
      BY <1>1, <1>3, <2>1
  <1>6. CASE TickDriving
    <2>1. CASE DriveRejected
      <3>1. rejects' = rejects + 1 /\ rejects <= MaxRejects
        BY <1>0, <1>6, <2>1 DEF DriveRejected, TickDriving, RejectInv
      <3>2. CASE rejects' > MaxRejects
        <4>1. EnterBlocked("rejected", run)
          BY <2>1, <3>2 DEF DriveRejected
        <4>2. state' = "BLOCKED" /\ reason' = "rejected"
          BY <4>1 DEF EnterBlocked, To
        <4> QED
          BY <1>0, <3>1, <4>2 DEF RejectInv
      <3>3. CASE ~(rejects' > MaxRejects)
        BY <1>0, <3>1, <3>3 DEF RejectInv
      <3> QED
        BY <3>2, <3>3
    <2>2. CASE ~DriveRejected
      <3>1. rejects' \in {0, rejects}
        BY <1>6, <2>2 DEF TickDriving, DriveReached, DriveExpired, DriveEnded, DriveBlocked,
             DriveCanceled, DriveGoesOn
      <3> QED
        BY <1>1, <1>2, <1>6, <3>1 DEF TickDriving
    <2> QED
      BY <2>1, <2>2
  <1>7. CASE TickBlocked
    <2>0. state = "BLOCKED" /\ \A s : To(s) => state' = s
      BY <1>7 DEF TickBlocked, To
    <2>1. EnterReplan => rejects' = 0
      BY DEF EnterReplan
    <2>2. EnterVerify \/ EnterWait \/ BacksOff \/ RungGoesOn \/ VerifyGoesOn
            => UNCHANGED <<rejects, reason>> /\ state' = "BLOCKED"
      BY <2>0 DEF EnterVerify, EnterWait, BacksOff, RungGoesOn, VerifyGoesOn, Stay, legVars
    <2>3. LosesPose \/ Abandon => UNCHANGED rejects /\ state' \in {"SUSPENDED", "FAILED"}
      BY <2>0 DEF LosesPose, Abandon, EnterSuspended, legVars
    <2>4. CASE gaveUp /\ TickEscalation
      <3>1. rung \in {"verify", "unstick", "wait"}
        BY <1>7, <2>4 DEF TickBlocked, DriveInv, BlockedIsHandled
      <3>2. EnterReplan \/ EnterVerify \/ BacksOff \/ RungGoesOn \/ VerifyGoesOn \/ LosesPose
        BY <2>4, <3>1 DEF TickEscalation, VerifyOver, UnstickOver, WaitOver
      <3> QED
        BY <1>1, <1>3, <2>0, <2>1, <2>2, <2>3, <3>2
    <2>5. CASE Escalate
      <3>1. EnterReplan \/ EnterVerify \/ Abandon \/ EnterWait
        BY <2>5 DEF Escalate
      <3> QED
        BY <1>1, <1>3, <2>0, <2>1, <2>2, <2>3, <3>1
    <2>6. CASE SkipsVia
      <3>1. rejects' = rejects /\ state' = "ADVANCE" /\ reason # "rejected"
        BY <2>0, <2>6 DEF SkipsVia, MaySkip, Terminal, legVars
      <3> QED
        BY <1>3, <2>0, <3>1
    <2>7. CASE ~Spent /\ Retry
      <3>1. rejects' = rejects /\ state' = "SELECT" /\ reason # "rejected"
        BY <2>0, <2>7 DEF Retry, Spent, Terminal, legVars
      <3> QED
        BY <1>3, <2>0, <3>1
    <2>8. CASE BlockGoesOn
      <3>1. UNCHANGED <<rejects, reason, state>>
        BY <2>0, <2>8 DEF BlockGoesOn, Stay, legVars
      <3> QED
        BY <1>3, <2>0, <3>1
    <2> QED
      BY <1>7, <2>4, <2>5, <2>6, <2>7, <2>8 DEF TickBlocked
  <1>8. CASE TeleopTakes \/ PoseDoubted
    <2>1. rejects' = rejects /\ state' = "SUSPENDED"
      BY <1>8 DEF TeleopTakes, PoseDoubted, EnterSuspended, To, legVars
    <2> QED
      BY <1>3, <2>1
  <1>9. CASE RequestResume \/ Go \/ Stop
    BY <1>1, <1>9 DEF RequestResume, Go, Stop
  <1>10. CASE Advise
    <2>1. rejects' = rejects /\ (state \in Moving \/ (state = "BLOCKED" /\ UNCHANGED <<state, reason>>))
      BY <1>10 DEF Advise, RunIsLive, legVars
    <2> QED
      BY <1>2, <1>3, <2>1
  <1>11. CASE TickStarts \/ Teleop \/ PoseChanges \/ Inspect \/ EStop \/ UNCHANGED hierVars
    <2>1. UNCHANGED <<rejects, state, reason>>
      BY <1>11 DEF TickStarts, Teleop, PoseChanges, Inspect, EStop, hierVars, legVars
    <2> QED
      BY <1>3, <2>1
  <1> QED
    BY <1>4, <1>5, <1>6, <1>7, <1>8, <1>9, <1>10, <1>11 DEF Next, Tick, HandlerRuns, User

\* A drive that goes on has cycles of the ladder left.
CycleInv ==
  /\ cycles \in 0 .. GiveUpAfter
  /\ state \notin EndStates /\ GiveUpAfter > 0 => cycles < GiveUpAfter

LEMMA CycleStep ==
  ASSUME DriveInv, CycleInv, [Next \/ Inspect]_hierVars
  PROVE  CycleInv'
  <1>0. GiveUpAfter \in Nat /\ cycles \in Nat
    BY HierAssumption DEF HierAssumption, CycleInv
  <1>1. ASSUME cycles' = cycles, state \notin EndStates \/ state' = state PROVE CycleInv'
    BY <1>0, <1>1 DEF CycleInv
  <1>2. CASE TickBlocked
    <2>0. state = "BLOCKED" /\ state \notin EndStates
      BY <1>2 DEF TickBlocked, EndStates
    <2>1. CASE Escalate /\ rung # "none"
      <3>1. /\ cycles' = IF GiveUpAfter = 0 THEN cycles ELSE cycles + 1
            /\ GiveUpAfter > 0 /\ cycles' >= GiveUpAfter => state' = "FAILED"
        BY <2>1 DEF Escalate, Abandon, To
      <3> QED
        BY <1>0, <2>0, <3>1 DEF CycleInv, EndStates
    <2>2. CASE gaveUp /\ TickEscalation
      <3>1. rung \in {"verify", "unstick", "wait"}
        BY <1>2, <2>2 DEF TickBlocked, DriveInv, BlockedIsHandled
      <3>2. UNCHANGED cycles
        BY <2>2, <3>1 DEF TickEscalation, VerifyOver, UnstickOver, WaitOver, EnterReplan, EnterVerify,
             BacksOff, VerifyGoesOn, RungGoesOn, LosesPose, escVars
      <3> QED
        BY <1>1, <2>0, <3>2
    <2>3. CASE (Escalate /\ rung = "none") \/ SkipsVia \/ Retry \/ BlockGoesOn
      <3>1. UNCHANGED cycles
        BY <2>3 DEF Escalate, EnterReplan, EnterVerify, SkipsVia, Retry, BlockGoesOn, escVars
      <3> QED
        BY <1>1, <2>0, <3>1
    <2> QED
      BY <1>2, <2>1, <2>2, <2>3 DEF TickBlocked
  <1>3. CASE Go
    BY <1>0, <1>3 DEF Go, CycleInv
  <1>4. CASE TickAligning \/ TickSelect \/ TickAdvance \/ TickSuspended
    <2>1. UNCHANGED cycles
      BY <1>4 DEF TickAligning, TickSelect, SelectLost, SelectExpired, SelectAdvances, SelectBlocked,
           SelectHolds, SelectSendsPath, SelectSendsGoto, TickAdvance, TickSuspended, escVars
    <2> QED
      BY <1>1, <1>4, <2>1 DEF TickAligning, TickSelect, TickAdvance, TickSuspended, EndStates
  <1>5. CASE TickDriving
    <2>1. UNCHANGED cycles
      BY <1>5 DEF TickDriving, DriveReached, DriveExpired, DriveRejected, DriveEnded, DriveBlocked,
           DriveCanceled, DriveGoesOn, escVars
    <2> QED
      BY <1>1, <1>5, <2>1 DEF TickDriving, EndStates
  <1>6. CASE TeleopTakes \/ PoseDoubted \/ RequestResume \/ Stop \/ Advise
    <2>1. UNCHANGED cycles /\ state \notin EndStates
      BY <1>6 DEF TeleopTakes, PoseDoubted, RequestResume, Stop, Advise, RunIsLive, escVars,
           TeleopStops, ActiveStates, EndStates
    <2> QED
      BY <1>1, <2>1
  <1>7. CASE TickStarts \/ Teleop \/ PoseChanges \/ Inspect \/ EStop \/ UNCHANGED hierVars
    <2>1. UNCHANGED <<cycles, state>>
      BY <1>7 DEF TickStarts, Teleop, PoseChanges, Inspect, EStop, hierVars, escVars
    <2> QED
      BY <1>1, <2>1
  <1> QED
    BY <1>2, <1>3, <1>4, <1>5, <1>6, <1>7 DEF Next, Tick, HandlerRuns, User

\* The fields that a handler sets and that bound nothing.
FieldsOK ==
  /\ hop \in 0 .. MaxHops
  /\ reason \in Reasons
  /\ legOn \in BOOLEAN
  /\ live \in {"none", "leg", "unstick"} /\ pathLive \in BOOLEAN
  /\ gaveUp \in BOOLEAN

WorldOK ==
  /\ held \in 0 .. 2 /\ armed \subseteq 1 .. 2 /\ tokens \subseteq 1 .. 2
  /\ pose \in BOOLEAN /\ teleop \in BOOLEAN

LEMMA FieldsStep ==
  ASSUME DriveInv, FieldsOK, [Next \/ Inspect]_hierVars
  PROVE  FieldsOK'
  <1>0. MaxHops \in Nat \ {0} /\ 0 \in 0 .. MaxHops /\ 1 \in 0 .. MaxHops
    BY HierAssumption DEF HierAssumption
  (* What the handlers share.                                                *)
  <1>1. \A s : To(s) => hop' \in 0 .. MaxHops
    BY <1>0 DEF To, FieldsOK
  <1>2. /\ Stay => hop' \in 0 .. MaxHops
        /\ Cancel \/ UNCHANGED goalVars
             => live' \in {"none", "leg", "unstick"} /\ pathLive' \in BOOLEAN
        /\ EndRun \/ UNCHANGED runVars \/ UNCHANGED gaveUp => gaveUp' \in BOOLEAN
        /\ UNCHANGED legVars \/ UNCHANGED legOn => legOn' \in BOOLEAN
        /\ UNCHANGED reason => reason' \in Reasons
    BY <1>1 DEF Stay, Cancel, goalVars, EndRun, runVars, legVars, FieldsOK
  <1> DEFINE Moved == /\ hop' \in 0 .. MaxHops /\ reason' \in Reasons
                      /\ live' \in {"none", "leg", "unstick"} /\ pathLive' \in BOOLEAN
  <1>3. /\ \A why \in Reasons : \A was : EnterBlocked(why, was) => Moved
        /\ \A why \in Reasons : EnterSuspended(why) => Moved
    BY <1>1, <1>2 DEF EnterBlocked, EnterSuspended
  <1>4. \A was : SendPath(was) => Moved
    BY <1>1, <1>3 DEF SendPath, Reasons
  <1>5. SUFFICES ASSUME Next \/ Inspect
                 PROVE  Moved /\ gaveUp' \in BOOLEAN /\ legOn' \in BOOLEAN
    <2>1. CASE UNCHANGED hierVars
      BY <2>1 DEF hierVars, goalVars, runVars, legVars, FieldsOK
    <2> QED
      BY <1>5, <2>1 DEF FieldsOK
  <1> HIDE DEF Moved
  <1>6. \A s : To(s) /\ UNCHANGED reason /\ (Cancel \/ UNCHANGED goalVars) => Moved
    BY <1>1, <1>2 DEF Moved
  <1> USE DEF Reasons
  <1>7. CASE TickAligning \/ TickAdvance \/ TickSuspended
    <2>1. CASE TickAligning
      BY <1>2, <1>6, <2>1 DEF TickAligning
    <2>2. CASE TickAdvance
      BY <1>2, <1>6, <2>2 DEF TickAdvance
    <2>3. CASE TickSuspended
      <3>1. Moved
        BY <1>1, <1>2, <2>3 DEF TickSuspended, Moved
      <3> QED
        BY <1>2, <2>3, <3>1 DEF TickSuspended
    <2> QED
      BY <1>7, <2>1, <2>2, <2>3
  <1>8. CASE TickSelect
    <2>1. CASE SelectLost \/ SelectExpired \/ SelectAdvances \/ SelectBlocked
      BY <1>2, <1>3, <1>6, <2>1 DEF SelectLost, SelectExpired, SelectAdvances, SelectBlocked
    <2>2. CASE SelectHolds
      BY <1>2, <1>6, <2>2 DEF SelectHolds, Hold, Stay
    <2>3. CASE SelectSendsPath
      BY <1>2, <1>4, <2>3 DEF SelectSendsPath
    <2>4. CASE SelectSendsGoto
      <3>1. Moved
        BY <1>1, <1>3, <2>4 DEF SelectSendsGoto, Moved
      <3> QED
        BY <1>2, <2>4, <3>1 DEF SelectSendsGoto
    <2> QED
      BY <1>8, <2>1, <2>2, <2>3, <2>4 DEF TickSelect
  <1>9. CASE TickDriving
    <2>0. legOn' \in BOOLEAN
      BY <1>2, <1>9 DEF TickDriving
    <2>1. CASE EnterSuspended("pose_lost") /\ UNCHANGED runVars
      BY <1>2, <1>3, <2>0, <2>1
    <2>2. CASE DriveReached \/ DriveExpired \/ DriveBlocked \/ DriveCanceled
      BY <1>2, <1>3, <1>6, <2>0, <2>2 DEF DriveReached, DriveExpired, DriveBlocked, DriveCanceled
    <2>3. CASE DriveRejected
      <3>1. Moved
        <4>1. \/ live' \in {live, "none"} /\ pathLive' = FALSE /\ To("SELECT") /\ UNCHANGED reason
              \/ EnterBlocked("rejected", run)
          BY <2>3 DEF DriveRejected
        <4> QED
          BY <1>1, <1>2, <1>3, <4>1 DEF Moved, FieldsOK
      <3> QED
        BY <1>2, <2>0, <2>3, <3>1 DEF DriveRejected
    <2>4. CASE DriveEnded
      <3>1. Moved
        <4>1. live' = "none" /\ pathLive' = FALSE /\ UNCHANGED reason /\ (To("ADVANCE") \/ To("SELECT"))
          BY <2>4 DEF DriveEnded
        <4> QED
          BY <1>1, <1>2, <4>1 DEF Moved
      <3> QED
        BY <1>2, <2>0, <2>4, <3>1 DEF DriveEnded
    <2>5. CASE DriveGoesOn
      <3>1. PICK moved \in BOOLEAN :
              LET was == IF moved THEN NoRun ELSE run
              IN /\ gaveUp' = (gaveUp /\ ~moved)
                 /\ \/ EnterBlocked("no_route_progress", was) \/ SendPath(was)
                    \/ (Stay \/ To("SELECT")) /\ UNCHANGED <<reason, goalVars>>
        BY <2>5 DEF DriveGoesOn
      <3>2. Moved
        BY <1>3, <1>4, <1>6, <3>1 DEF Stay
      <3> QED
        BY <2>0, <3>1, <3>2
    <2> QED
      BY <1>9, <2>1, <2>2, <2>3, <2>4, <2>5 DEF TickDriving
  <1>10. CASE TickBlocked
    <2>1. EnterReplan => Moved /\ gaveUp' \in BOOLEAN /\ legOn' \in BOOLEAN
      BY <1>2, <1>6 DEF EnterReplan
    <2>2. (EnterVerify /\ (Cancel \/ UNCHANGED goalVars)) \/ (EnterWait /\ Cancel)
            => Moved /\ gaveUp' \in BOOLEAN /\ legOn' \in BOOLEAN
      BY <1>2, <1>6 DEF EnterVerify, EnterWait, Stay
    <2>3. Abandon => Moved /\ gaveUp' \in BOOLEAN /\ legOn' \in BOOLEAN
      BY <1>2, <1>6 DEF Abandon
    <2>4. BacksOff => Moved /\ gaveUp' \in BOOLEAN /\ legOn' \in BOOLEAN
      BY <1>2 DEF BacksOff, Moved, FieldsOK
    <2>5. RungGoesOn \/ VerifyGoesOn => Moved /\ gaveUp' \in BOOLEAN /\ legOn' \in BOOLEAN
      BY <1>2, <1>6 DEF RungGoesOn, VerifyGoesOn, Stay
    <2>6. LosesPose => Moved /\ gaveUp' \in BOOLEAN /\ legOn' \in BOOLEAN
      BY <1>2, <1>3 DEF LosesPose
    <2>7. CASE gaveUp /\ TickEscalation
      <3>1. rung \in {"verify", "unstick", "wait"}
        BY <1>10, <2>7 DEF TickBlocked, DriveInv, BlockedIsHandled
      <3>2. \/ EnterReplan \/ (EnterVerify /\ UNCHANGED goalVars) \/ BacksOff
            \/ RungGoesOn \/ VerifyGoesOn \/ LosesPose
        BY <2>7, <3>1 DEF TickEscalation, VerifyOver, UnstickOver, WaitOver
      <3> QED
        BY <2>1, <2>2, <2>4, <2>5, <2>6, <3>2
    <2>8. CASE Escalate
      BY <2>1, <2>2, <2>3, <2>8 DEF Escalate
    <2>9. CASE SkipsVia \/ Retry \/ BlockGoesOn
      BY <1>2, <1>6, <2>9 DEF SkipsVia, Retry, BlockGoesOn, Stay
    <2> QED
      BY <1>10, <2>7, <2>8, <2>9 DEF TickBlocked
  <1>11. CASE TickStarts
    BY <1>0, <1>2, <1>11 DEF TickStarts, Moved
  <1>12. CASE TeleopTakes \/ PoseDoubted
    BY <1>2, <1>3, <1>12 DEF TeleopTakes, PoseDoubted
  <1>13. CASE RequestResume \/ Go \/ Stop
    BY <1>0, <1>1, <1>2, <1>13 DEF RequestResume, Go, Stop, Moved
  <1>14. CASE Advise
    <2>1. /\ (hop' = hop /\ reason' = reason) \/ (To("BLOCKED") /\ reason' \in {reason, "other"})
          /\ Cancel \/ UNCHANGED goalVars
          /\ gaveUp' \in {gaveUp, TRUE} /\ UNCHANGED legVars
      BY <1>14 DEF Advise
    <2>2. Moved
      BY <1>1, <1>2, <2>1 DEF Moved, FieldsOK
    <2>3. gaveUp' \in BOOLEAN
      BY <2>1 DEF FieldsOK
    <2> QED
      BY <1>2, <2>1, <2>2, <2>3
  <1>15. CASE Teleop \/ PoseChanges \/ Inspect \/ EStop
    <2>1. UNCHANGED <<hop, reason, legOn, live, pathLive, gaveUp>>
      BY <1>15 DEF Teleop, PoseChanges, Inspect, EStop, goalVars, runVars, legVars
    <2> QED
      BY <2>1 DEF Moved, FieldsOK
  <1> QED
    BY <1>5, <1>7, <1>8, <1>9, <1>10, <1>11, <1>12, <1>13, <1>14, <1>15
       DEF Next, Tick, HandlerRuns, User

LEMMA WorldStep ==
  ASSUME WorldOK, [Next \/ Inspect]_hierVars
  PROVE  WorldOK'
  <1>1. CASE Inspect
    <2>1. PICK t \in Breakpoints :
            /\ armed' \in {armed, armed \cup {t}, armed \ {t}}
            /\ tokens' \in {tokens, tokens \cup {t}, tokens \ {t}}
      BY <1>1 DEF Inspect
    <2>2. t \in 1 .. 2
      BY SystemAssumption DEF SystemAssumption
    <2> QED
      BY <1>1, <2>1, <2>2 DEF Inspect, world, WorldOK
  <1>2. CASE Teleop \/ PoseChanges
    BY <1>2 DEF Teleop, PoseChanges, gates, WorldOK
  <1>3. CASE TickSelect
    <2>1. UNCHANGED world /\ armed' = armed /\ tokens' \in {tokens, {}} /\ held' \in {held, 0, 1, 2}
      BY <1>3 DEF TickSelect, SelectLost, SelectExpired, SelectAdvances, SelectBlocked, SelectHolds, Hold,
           SelectSendsPath, SelectSendsGoto, gates
    <2> QED
      BY <2>1 DEF world, WorldOK
  <1>4. CASE ~(Inspect \/ Teleop \/ PoseChanges \/ TickSelect)
    <2>1. UNCHANGED <<gates, world>> /\ held' \in {held, 0}
      BY <1>4 DEF Next, Tick, HandlerRuns, User, TickAligning, TickDriving, TickAdvance, TickBlocked,
           TickSuspended, TickStarts, TeleopTakes, PoseDoubted, Advise, Go, Stop, RequestResume,
           EStop, hierVars
    <2> QED
      BY <2>1 DEF gates, world, WorldOK
  <1> QED
    BY <1>1, <1>2, <1>3, <1>4

(***************************************************************************)
(* For any sequence of link, backoff and patrol settings and with any      *)
(* breakpoints: every field keeps its type, every timer and counter its    *)
(* cap.  The limits on rejects and on cycles are reached and not passed.   *)
(***************************************************************************)
THEOREM DriveTypeCorrect == Spec \/ StepSpec => []HierTypeOK
  <1> DEFINE Types == /\ RetryInv /\ RecTypeOK /\ RunnerTypeOK /\ RejectInv /\ CycleInv
                      /\ FieldsOK /\ WorldOK
  <1>1. Init => Types
    <2>1. Init => RetryInv /\ RejectInv /\ CycleInv /\ FieldsOK /\ WorldOK
      <3>1. Init => RetryInv
        BY HierAssumption DEF Init, HierInit, RetryInv, HierAssumption
      <3>2. Init => RejectInv
        <4>1. 0 \in 0 .. MaxRejects + 1
          BY HierAssumption DEF HierAssumption
        <4> QED
          BY <4>1 DEF Init, HierInit, RejectInv, Moving
      <3>3. Init => CycleInv
        <4>1. 0 \in 0 .. GiveUpAfter
          BY HierAssumption DEF HierAssumption
        <4> QED
          BY <4>1 DEF Init, HierInit, CycleInv, EndStates
      <3>4. Init => FieldsOK
        <4>1. 0 \in 0 .. MaxHops /\ "none" \in Reasons
          BY HierAssumption DEF HierAssumption, Reasons
        <4> QED
          BY <4>1 DEF Init, HierInit, FieldsOK
      <3>5. Init => WorldOK
        <4>1. 0 \in 0 .. 2
          OBVIOUS
        <4> QED
          BY <4>1 DEF Init, HierInit, WorldOK
      <3> QED
        BY <3>1, <3>2, <3>3, <3>4, <3>5
    <2>2. Init => RecTypeOK
      BY RecoveryLimits DEF Init, HierInit, RecInit, RecTypeOK, None, Causes
    <2>3. Init => RunnerTypeOK
      BY PatrolAssumption DEF Init, HierInit, RunnerInit, RunnerTypeOK, PatrolAssumption
    <2> QED
      BY <2>1, <2>2, <2>3
  <1>2. DriveInv /\ Types /\ [Next \/ Inspect]_hierVars => Types'
    BY RetryStep, RecoveryStep, RunnerStep, RejectStep, CycleStep, FieldsStep, WorldStep
  <1>3. DriveInv /\ Types => HierTypeOK
    BY DEF DriveInv, ControlType, RetryInv, RejectInv, CycleInv, FieldsOK, WorldOK, HierTypeOK
  <1>4. [Next]_hierVars => [Next \/ Inspect]_hierVars
    OBVIOUS
  <1> HIDE DEF Types
  <1> QED
    BY <1>1, <1>2, <1>3, <1>4, DriveInvHolds, PTL DEF Spec, StepSpec
-------------------------------------------------------------------------------
(* The back-off of the recovery                                              *)

\* What a step may do to the number of failures while the recovery stays active.
FailsOnlyGrow == fails' = fails \/ fails' = Lower(fails + 1, Len(Backoffs) - 1)

LEMMA RecoveryFails ==
  /\ \A a : RecWaits(a) => FailsOnlyGrow
  /\ RecPasses(1) => FailsOnlyGrow
  /\ (\E c \in Causes : Latches(c)) \/ OperatorRearms => FailsOnlyGrow
  /\ UNCHANGED recVars => FailsOnlyGrow
  BY DEF FailsOnlyGrow, RecWaits, Waits, LinkLost, Relocalize, Backoff, RecPasses, Latches,
         OperatorRearms, recVars

\* An active recovery is begun anew by no step: it is waited for, ended, or left alone.
LEMMA BackoffStep ==
  ASSUME DriveInv, [Next \/ Inspect]_hierVars, Active, Active'
  PROVE  FailsOnlyGrow
  <1>1. /\ state \in {"SUSPENDED", "BLOCKED"}
        /\ state = "BLOCKED" => rung = "verify" /\ gaveUp
    BY DEF DriveInv, RecoveryInStep, BlockedIsHandled
  <1>2. ~RecCancel /\ \A a : ~RecResumes(a)
    BY RecoveryPhase
  <1>3. ~TickAligning /\ ~TickSelect /\ ~TickDriving /\ ~TickAdvance /\ ~PoseDoubted
    BY <1>1 DEF TickAligning, TickSelect, TickDriving, TickAdvance, PoseDoubted
  <1>4. CASE TickBlocked
    <2>1. VerifyOver \/ VerifyGoesOn
      BY <1>1, <1>4 DEF TickBlocked, TickEscalation
    <2> QED
      BY <1>2, <2>1, RecoveryFails DEF VerifyOver, VerifyGoesOn
  <1>5. CASE TickSuspended
    BY <1>2, <1>5, RecoveryFails DEF TickSuspended
  <1>6. CASE TickStarts
    BY <1>6, RecoveryFails DEF TickStarts
  <1>7. ~TeleopTakes /\ ~RequestResume /\ ~Go /\ ~Stop
    BY <1>2 DEF TeleopTakes, EnterSuspended, RequestResume, Go, Stop
  <1>8. CASE EStop
    BY <1>8, RecoveryFails DEF EStop
  <1>9. CASE Advise \/ Teleop \/ PoseChanges \/ Inspect \/ UNCHANGED hierVars
    BY <1>9, RecoveryFails DEF Advise, Teleop, PoseChanges, Inspect, hierVars
  <1> QED
    BY <1>3, <1>4, <1>5, <1>6, <1>7, <1>8, <1>9 DEF Next, Tick, HandlerRuns, User

\* The waits are configured in increasing order (RecoveryConfig.relocalize_backoff_s).
BackoffsIncrease ==
  \A i, j \in 1 .. Len(Backoffs) : i <= j => Backoffs[i] <= Backoffs[j]

LEMMA LaterWaitsLonger ==
  ASSUME BackoffsIncrease,
         NEW a \in 0 .. Len(Backoffs) - 1, NEW b \in 0 .. Len(Backoffs) - 1, a <= b
  PROVE  At(Backoffs, b) >= At(Backoffs, a)
  <1>1. Len(Backoffs) \in Nat /\ \A i \in 1 .. Len(Backoffs) : Backoffs[i] \in Nat
    BY RecoveryLimits
  <1>2. a + 1 \in 1 .. Len(Backoffs) /\ b + 1 \in 1 .. Len(Backoffs) /\ a + 1 <= b + 1
    BY <1>1
  <1>3. At(Backoffs, a) = Backoffs[a + 1] /\ At(Backoffs, b) = Backoffs[b + 1]
    BY <1>1 DEF At
  <1>4. Backoffs[a + 1] <= Backoffs[b + 1]
    BY <1>2 DEF BackoffsIncrease
  <1> QED
    BY <1>1, <1>2, <1>3, <1>4

(***************************************************************************)
(* Whatever happens to the link, the e-stop and the pose during a fault,   *)
(* and however many attempts succeed without curing it, the wait for the   *)
(* next attempt does not get shorter.                                      *)
(***************************************************************************)
THEOREM BackoffOnlyGrows ==
  ASSUME BackoffsIncrease
  PROVE  Spec \/ StepSpec => BackoffNeverShrinks
  <1>1. DriveInv /\ HierTypeOK /\ [Next \/ Inspect]_hierVars
          => [Active /\ Active' => At(Backoffs, fails') >= At(Backoffs, fails)]_hierVars
    <2> SUFFICES ASSUME DriveInv, HierTypeOK, [Next \/ Inspect]_hierVars, Active, Active'
                 PROVE  At(Backoffs, fails') >= At(Backoffs, fails)
      OBVIOUS
    <2>1. fails \in 0 .. Len(Backoffs) - 1 /\ Len(Backoffs) \in Nat \ {0}
      BY RecoveryLimits DEF HierTypeOK, RecTypeOK
    <2>2. fails' \in 0 .. Len(Backoffs) - 1 /\ fails <= fails'
      <3>1. FailsOnlyGrow
        BY BackoffStep
      <3> QED
        BY <2>1, <3>1 DEF FailsOnlyGrow, Lower
    <2> QED
      BY <2>1, <2>2, LaterWaitsLonger
  <1>2. [Next]_hierVars => [Next \/ Inspect]_hierVars
    OBVIOUS
  <1> QED
    BY <1>1, <1>2, DriveInvHolds, DriveTypeCorrect, PTL DEF Spec, StepSpec, BackoffNeverShrinks

===============================================================================
