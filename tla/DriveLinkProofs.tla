---------------------------- MODULE DriveLinkProofs ----------------------------
(***************************************************************************)
(* Proofs about DriveLink, for every set of clients, every bound on ids    *)
(* and queues, and every choice of the environment's switches.             *)
(***************************************************************************)
EXTENDS DriveLink, TLAPS

\* What the assumptions on the constants say, in one place.
LEMMA Constants ==
  /\ MaxResends \in Nat /\ CmdKinds \subseteq Kind /\ NoCmd \notin Command
  /\ Seed \in [Clients -> Nat] /\ PiWatermark \in IdOrNone
  BY DriveLinkAssumption DEF DriveLinkAssumption

-------------------------------------------------------------------------------
(* Type correctness                                                          *)

\* A goal or a fault under a type-correct id is type-correct.
LEMMA RecordTypes ==
  /\ NoGoal \in Goal
  /\ NoFault \in Fault
  /\ \A m \in Command : GoalOf(m) \in Goal
  /\ \A id \in IdOrNone, r \in Reason : [id |-> id, reason |-> r] \in Fault
  /\ \A m \in Command : m.id \in Nat /\ m.seq \in Nat
  /\ \A x \in Goal : x.id \in IdOrNone
  /\ \A x \in Fault : x.id \in IdOrNone
  BY DEF NoGoal, Goal, NoFault, Fault, GoalOf, Command, IdOrNone, Ids, NoId, Reason

\* The arbiter's answer to a command keeps its types.
LEMMA OnCommandType ==
  ASSUME ArbTypeOK, NEW m \in Command, NEW e \in BOOLEAN, OnCommand(m, e)
  PROVE  ArbTypeOK'
  <1>0. /\ goal \in Goal /\ watermark \in IdOrNone /\ canceled \in IdOrNone
        /\ fault \in Fault /\ rejects \in Seq(Ids)
    BY DEF ArbTypeOK
  <1>1. goal' \in Goal
    BY <1>0, RecordTypes
       DEF OnCommand, OnCancel, OnRefresh, OnDuplicate, OnStale, OnMalformed, OnGoto, arbVars
  <1>2. watermark' \in IdOrNone
    BY <1>0, RecordTypes
       DEF OnCommand, OnCancel, OnRefresh, OnDuplicate, OnStale, OnMalformed, OnGoto, arbVars,
           Larger, IdOrNone, NoId
  <1>3. canceled' \in IdOrNone
    <2>1. NoId \in IdOrNone
      BY DEF IdOrNone
    <2> QED
      BY <1>0, <2>1, RecordTypes
         DEF OnCommand, OnCancel, OnRefresh, OnDuplicate, OnStale, OnMalformed, OnGoto, arbVars
  <1>4. fault' \in Fault
    <2>1. m.id \in IdOrNone /\ "e_stop" \in Reason
      BY RecordTypes DEF IdOrNone, Ids, Reason
    <2> QED
      BY <1>0, <2>1, RecordTypes
         DEF OnCommand, OnCancel, OnRefresh, OnDuplicate, OnStale, OnMalformed, OnGoto, arbVars
  <1>5. rejects' \in Seq(Ids)
    <2>1. rejects' = rejects \/ rejects' = Append(rejects, m.id)
      BY DEF OnCommand, OnCancel, OnRefresh, OnDuplicate, OnStale, OnMalformed, OnGoto, arbVars
    <2>2. m.id \in Ids
      BY DEF Command
    <2> QED
      BY <1>0, <2>1, <2>2
  <1> QED
    BY <1>1, <1>2, <1>3, <1>4, <1>5 DEF ArbTypeOK

\* The tick's operations on the arbiter keep its types.
LEMMA TickOpType ==
  ASSUME ArbTypeOK,
         \/ TakeRejects \/ IdleStatus \/ UNCHANGED arbVars
         \/ \E r \in Reason : Drop(r)
         \/ \E id \in IdOrNone : Finish(id)
  PROVE  ArbTypeOK'
  <1>0. /\ goal \in Goal /\ watermark \in IdOrNone /\ canceled \in IdOrNone
        /\ fault \in Fault /\ rejects \in Seq(Ids)
    BY DEF ArbTypeOK
  <1>1. goal' \in Goal
    BY <1>0, RecordTypes DEF TakeRejects, IdleStatus, arbVars, Drop, Finish
  <1>2. watermark' \in IdOrNone
    BY <1>0 DEF TakeRejects, IdleStatus, arbVars, Drop, Finish
  <1>3. canceled' \in IdOrNone
    BY <1>0 DEF TakeRejects, IdleStatus, arbVars, Drop, Finish, IdOrNone
  <1>4. fault' \in Fault
    BY <1>0, RecordTypes DEF TakeRejects, IdleStatus, arbVars, Drop, Finish
  <1>5. rejects' \in Seq(Ids)
    <2>1. rejects' = rejects \/ rejects' = <<>>
      BY DEF TakeRejects, IdleStatus, arbVars, Drop, Finish
    <2>2. <<>> \in Seq(Ids)
      OBVIOUS
    <2> QED
      BY <1>0, <2>1, <2>2
  <1> QED
    BY <1>1, <1>2, <1>3, <1>4, <1>5 DEF ArbTypeOK

(***************************************************************************)
(* The tick's copy of the goal names a goal in the phases that report it.  *)
(* This makes the type of the reports inductive.                           *)
(***************************************************************************)
CopyInv == phase \in {"drop", "step", "done"} => g \in Ids

\* Every step of Next, seen by the Tier-3 process alone.
PiStep ==
  \/ \E m \in Command : GotoCallback(m)
  \/ EStopChanges \/ OdomReset
  \/ Snapshot \/ DropOnReset \/ DropOnEStop \/ ReportEStop \/ Idle \/ OdomStale
  \/ Drive \/ Arrive \/ FinishGoal \/ TickFails \/ PiRestart
  \/ UNCHANGED piVars

LEMMA PiArbType == ASSUME PiTypeOK, PiStep PROVE ArbTypeOK'
  <1>0. ArbTypeOK /\ estop \in BOOLEAN /\ g \in IdOrNone
    BY DEF PiTypeOK
  <1>1. CASE \E m \in Command : GotoCallback(m)
    BY <1>0, <1>1, OnCommandType DEF GotoCallback
  <1>2. CASE PiRestart
    <2>1. NoId \in IdOrNone /\ <<>> \in Seq(Ids)
      BY DEF IdOrNone
    <2> QED
      BY <1>2, <2>1, RecordTypes DEF PiRestart, ArbTypeOK
  <1>3. CASE DropOnReset \/ DropOnEStop \/ TickFails
    <2>1. {"odom_reset", "e_stop", "internal_error"} \subseteq Reason
      BY DEF Reason
    <2>2. (\E r \in Reason : Drop(r)) \/ UNCHANGED arbVars
      BY <1>3, <2>1 DEF DropOnReset, DropOnEStop, TickFails
    <2> QED
      BY <1>0, <2>2, TickOpType
  <1>4. CASE Snapshot \/ Idle \/ FinishGoal
    <2>1. TakeRejects \/ IdleStatus \/ Finish(g)
      BY <1>4 DEF Snapshot, Idle, FinishGoal
    <2> QED
      BY <1>0, <2>1, TickOpType
  <1>5. CASE UNCHANGED arbVars
    BY <1>0, <1>5, TickOpType
  <1>6. EStopChanges \/ OdomReset \/ ReportEStop \/ OdomStale \/ Drive \/ Arrive
        \/ UNCHANGED piVars => UNCHANGED arbVars
    BY DEF EStopChanges, OdomReset, ReportEStop, OdomStale, Drive, Arrive, piVars
  <1> QED
    BY <1>1, <1>2, <1>3, <1>4, <1>5, <1>6 DEF PiStep

LEMMA PiStepType ==
  ASSUME PiTypeOK, CopyInv, PiStep
  PROVE  PiTypeOK' /\ CopyInv'
  <1>1. ArbTypeOK'
    BY PiArbType
  <1>2. estop' \in BOOLEAN /\ resetPending' \in BOOLEAN /\ tickEstop' \in BOOLEAN /\ moving' \in BOOLEAN
    BY DEF PiTypeOK, PiStep, piVars, tickVars, arbVars, GotoCallback, EStopChanges, OdomReset,
           Snapshot, DropOnReset, DropOnEStop, ReportEStop, Idle, OdomStale, Drive, Arrive,
           FinishGoal, TickFails, PiRestart, EndTick
  <1>3. phase' \in Phases
    BY DEF PiTypeOK, PiStep, piVars, tickVars, arbVars, GotoCallback, EStopChanges, OdomReset,
           Snapshot, DropOnReset, DropOnEStop, ReportEStop, Idle, OdomStale, Drive, Arrive,
           FinishGoal, TickFails, PiRestart, EndTick, Phases
  <1>4. goal.id \in IdOrNone /\ NoId \in IdOrNone /\ (HasGoal => goal.id \in Ids)
    BY RecordTypes DEF PiTypeOK, ArbTypeOK, IdOrNone, HasGoal, NoId, Ids
  <1>5. g' \in IdOrNone
    BY <1>4 DEF PiTypeOK, PiStep, piVars, tickVars, arbVars, GotoCallback, EStopChanges, OdomReset,
           Snapshot, DropOnReset, DropOnEStop, ReportEStop, Idle, OdomStale, Drive, Arrive,
           FinishGoal, TickFails, PiRestart, EndTick
  <1>6. CopyInv'
    BY <1>4 DEF CopyInv, PiStep, piVars, tickVars, arbVars, GotoCallback, EStopChanges, OdomReset,
           Snapshot, DropOnReset, DropOnEStop, ReportEStop, Idle, OdomStale, Drive, Arrive,
           FinishGoal, TickFails, PiRestart, EndTick
  <1> QED
    BY <1>1, <1>2, <1>3, <1>5, <1>6 DEF PiTypeOK

\* Every step of Next, seen by the clients alone.
ClientStep ==
  \/ \E c \in Clients, m \in Command : Issue(c, m)
  \/ \E c \in Clients, s \in Status : OnStatus(c, s)
  \/ \E c \in Clients : \/ CallerPuts(c) \/ Refresh(c) \/ PumpResend(c)
                        \/ PumpGivesUp(c) \/ PumpPuts(c) \/ ClientRestart(c)
  \/ UNCHANGED clientVars

PendingType == [cmd : Command \cup {NoCmd}, resends : 0 .. MaxResends]

LEMMA ClientStepType ==
  ASSUME ClientTypeOK(Command), ClientStep
  PROVE  ClientTypeOK(Command)'
  <1>0. /\ cmdId \in [Clients -> ClientIds] /\ maxSeen \in [Clients -> ClientIds]
        /\ pending \in [Clients -> PendingType]
        /\ acked \in [Clients -> SUBSET ClientIds] /\ ackFailed \in [Clients -> SUBSET ClientIds]
        /\ callerPut \in [Clients -> Command \cup {NoCmd}]
        /\ resendPut \in [Clients -> Command \cup {NoCmd}]
        /\ route \in [Clients -> [id : ClientIds, seq : Nat]]
    BY DEF ClientTypeOK, PendingType
  <1>1. \A m \in Command : m.id \in Nat /\ m.seq \in Nat
    BY RecordTypes
  <1>2. cmdId' \in [Clients -> ClientIds]
    BY <1>0, <1>1 DEF ClientStep, Issue, OnStatus, CallerPuts, Refresh, PumpResend,
       PumpGivesUp, PumpPuts, ClientRestart, clientVars, ClientIds
  <1>3. maxSeen' \in [Clients -> ClientIds]
    <2>1. \A s \in Status : s.id \in Nat /\ s.wm \in IdOrNone
      BY DEF Status, Ids
    <2>2. \A n \in Nat, i \in IdOrNone : Larger2(n, i) \in Nat
      BY DEF Larger2, IdOrNone, NoId
    <2>3. Nat \subseteq IdOrNone
      BY DEF IdOrNone
    <2>4. ASSUME NEW c \in Clients, NEW s \in Status, OnStatus(c, s)
          PROVE  maxSeen' \in [Clients -> ClientIds]
      BY <1>0, <2>1, <2>2, <2>3, <2>4 DEF OnStatus, ClientIds
    <2>5. ASSUME NEW c \in Clients, ClientRestart(c)
          PROVE  maxSeen' \in [Clients -> ClientIds]
      BY <1>0, <2>5 DEF ClientRestart, ClientIds
    <2> QED
      BY <1>0, <2>4, <2>5 DEF ClientStep, Issue, CallerPuts, Refresh, PumpResend,
         PumpGivesUp, PumpPuts, clientVars
  <1>4. pending' \in [Clients -> PendingType]
    <2>1. NoPending \in PendingType
      BY Constants DEF NoPending, PendingType
    <2>2. \A m \in Command : [cmd |-> m, resends |-> 0] \in PendingType
      BY Constants DEF PendingType
    <2>3. ASSUME NEW p \in PendingType, p.resends < MaxResends
          PROVE  [p EXCEPT !.resends = p.resends + 1] \in PendingType
      <3>1. p.resends + 1 \in 0 .. MaxResends
        BY <2>3, Constants DEF PendingType
      <3> QED
        BY <3>1 DEF PendingType
    <2>4. ASSUME NEW c \in Clients, PumpResend(c)
          PROVE  pending' \in [Clients -> PendingType]
      BY <1>0, <2>3, <2>4 DEF PumpResend, MayResend
    <2> QED
      BY <1>0, <2>1, <2>2, <2>4 DEF ClientStep, Issue, OnStatus, CallerPuts, Refresh,
         PumpGivesUp, PumpPuts, ClientRestart, clientVars
  <1>5. acked' \in [Clients -> SUBSET ClientIds]
    <2>1. ASSUME NEW c \in Clients, NEW s \in Status, OnStatus(c, s)
          PROVE  acked' \in [Clients -> SUBSET ClientIds]
      <3>1. pending[c].cmd # NoCmd => pending[c].cmd.id \in ClientIds
        BY <1>0, <1>1 DEF PendingType, ClientIds
      <3> QED
        BY <1>0, <2>1, <3>1 DEF OnStatus
    <2> QED
      BY <1>0, <2>1 DEF ClientStep, Issue, CallerPuts, Refresh, PumpResend,
         PumpGivesUp, PumpPuts, ClientRestart, clientVars
  <1>6. ackFailed' \in [Clients -> SUBSET ClientIds]
    <2>1. ASSUME NEW c \in Clients, PumpGivesUp(c)
          PROVE  ackFailed' \in [Clients -> SUBSET ClientIds]
      <3>1. pending[c].cmd.id \in ClientIds
        BY <1>0, <1>1, <2>1 DEF PumpGivesUp, PendingType, ClientIds
      <3> QED
        BY <1>0, <2>1, <3>1 DEF PumpGivesUp, FailedAfter
    <2> QED
      BY <1>0, <2>1 DEF ClientStep, Issue, OnStatus, CallerPuts, Refresh, PumpResend,
         PumpPuts, ClientRestart, clientVars
  <1>7. callerPut' \in [Clients -> Command \cup {NoCmd}]
    BY <1>0 DEF ClientStep, Issue, OnStatus, CallerPuts, Refresh, PumpResend,
       PumpGivesUp, PumpPuts, ClientRestart, clientVars
  <1>8. resendPut' \in [Clients -> Command \cup {NoCmd}]
    <2>1. \A c \in Clients : pending[c].cmd \in Command \cup {NoCmd}
      BY <1>0 DEF PendingType
    <2> QED
      BY <1>0, <2>1 DEF ClientStep, Issue, OnStatus, CallerPuts, Refresh, PumpResend,
         PumpGivesUp, PumpPuts, ClientRestart, clientVars
  <1>9. route' \in [Clients -> [id : ClientIds, seq : Nat]]
    <2>1. NoRoute \in [id : ClientIds, seq : Nat]
      BY DEF NoRoute, ClientIds
    <2>2. \A m \in Command : [id |-> m.id, seq |-> m.seq] \in [id : ClientIds, seq : Nat]
      BY <1>1 DEF ClientIds
    <2>3. \A r \in [id : ClientIds, seq : Nat] :
            [r EXCEPT !.seq = r.seq + 1] \in [id : ClientIds, seq : Nat]
      OBVIOUS
    <2> QED
      BY <1>0, <2>1, <2>2, <2>3 DEF ClientStep, Issue, OnStatus, CallerPuts, Refresh, PumpResend,
         PumpGivesUp, PumpPuts, ClientRestart, clientVars
  <1> QED
    BY <1>2, <1>3, <1>4, <1>5, <1>6, <1>7, <1>8, <1>9 DEF ClientTypeOK, PendingType

\* The messages at the heads of the queues are commands and statuses, and the next id
\* is one.
LEMMA HeadTypes ==
  ASSUME TypeOK, NEW c \in Clients
  PROVE  /\ gotoQ[c] \in Seq(Command) /\ (gotoQ[c] # <<>> => Head(gotoQ[c]) \in Command)
         /\ statusQ[c] \in Seq(Status) /\ (statusQ[c] # <<>> => Head(statusQ[c]) \in Status)
         /\ NextId(c) \in Nat /\ NextId(c) > 0
  <1>1. gotoQ[c] \in Seq(Command) /\ statusQ[c] \in Seq(Status)
    BY DEF TypeOK
  <1>2. NextId(c) \in Nat /\ NextId(c) > 0
    BY DEF TypeOK, ClientTypeOK, ClientIds, NextId, Larger2
  <1> QED
    BY <1>1, <1>2

\* A step of the system is a step of the Tier-3 process, or leaves it alone.
LEMMA NextIsPiStep == ASSUME TypeOK, [Next]_vars PROVE PiStep
  <1>1. ASSUME NEW c \in Clients, ReceiveCmd(c) PROVE PiStep
    BY <1>1, HeadTypes DEF ReceiveCmd, PiStep
  <1>2. CASE OtherCallback \/ PiTick \/ RestartPi
    BY <1>2 DEF OtherCallback, PiTick, SilentStep, PublishingStep, ArrivingStep, RestartPi, PiStep
  <1>3. CASE UNCHANGED piVars
    BY <1>3 DEF PiStep
  <1>4. \A c \in Clients : IssueCmd(c) \/ PutCmd(c) \/ RefreshPath(c) \/ ReceiveStatus(c)
          \/ Resend(c) \/ PutResend(c) \/ RestartDesktop(c) \/ LoseCmd(c) \/ LoseStatus(c)
          => UNCHANGED piVars
    BY DEF IssueCmd, PutCmd, RefreshPath, ReceiveStatus, Resend, PutResend, RestartDesktop,
           LoseCmd, LoseStatus
  <1>5. UNCHANGED vars => UNCHANGED piVars
    BY DEF vars
  <1> QED
    BY <1>1, <1>2, <1>3, <1>4, <1>5 DEF Next

\* And a step of the clients, or leaves them alone.
LEMMA NextIsClientStep == ASSUME TypeOK, [Next]_vars PROVE ClientStep
  <1>1. ASSUME NEW c \in Clients, IssueCmd(c) PROVE ClientStep
    <2>1. PICK kind \in CmdKinds, ok \in {TRUE, ~Malformed} :
            Issue(c, [kind |-> kind, id |-> NextId(c),
                      seq |-> IF kind = "path" THEN 1 ELSE 0, ok |-> ok])
      BY <1>1 DEF IssueCmd
    <2>2. kind \in Kind /\ ok \in BOOLEAN /\ NextId(c) \in Nat
      BY Constants, HeadTypes
    <2>3. [kind |-> kind, id |-> NextId(c),
           seq |-> IF kind = "path" THEN 1 ELSE 0, ok |-> ok] \in Command
      BY <2>2 DEF Command, Ids
    <2> QED
      BY <2>1, <2>3 DEF ClientStep
  <1>2. ASSUME NEW c \in Clients, ReceiveStatus(c) PROVE ClientStep
    BY <1>2, HeadTypes DEF ReceiveStatus, ClientStep
  <1>3. \A c \in Clients : PutCmd(c) \/ RefreshPath(c) \/ Resend(c) \/ PutResend(c)
          \/ RestartDesktop(c) => ClientStep
    BY DEF PutCmd, RefreshPath, Resend, PutResend, RestartDesktop, ClientStep
  <1>4. CASE UNCHANGED clientVars
    BY <1>4 DEF ClientStep
  <1>5. (\E c \in Clients : LoseCmd(c) \/ LoseStatus(c) \/ ReceiveCmd(c))
        \/ OtherCallback \/ PiTick \/ RestartPi \/ UNCHANGED vars
        => UNCHANGED clientVars
    BY DEF LoseCmd, LoseStatus, ReceiveCmd, OtherCallback, PiTick, SilentStep, PublishingStep,
           ArrivingStep, RestartPi, vars
  <1> QED
    BY <1>1, <1>2, <1>3, <1>4, <1>5 DEF Next

\* Everything the Tier-3 process publishes is a status.
LEMMA PublishedType ==
  ASSUME PiTypeOK, CopyInv
  PROVE  /\ RejectMsgs \in Seq(Status) /\ EStopMsgs \in Seq(Status)
         /\ IdleMsgs \in Seq(Status) /\ FailMsgs \in Seq(Status)
         /\ phase \in {"step", "done"} =>
              \A st \in States : <<Msg(st, g)>> \in Seq(Status)
  <1>0. /\ goal.id \in IdOrNone /\ watermark \in IdOrNone /\ canceled \in IdOrNone
        /\ fault.id \in IdOrNone /\ rejects \in Seq(Nat)
    BY RecordTypes DEF PiTypeOK, ArbTypeOK, Ids
  <1>1. \A id \in Nat, st \in States : Msg(st, id) \in Status
    BY DEF Msg, Status, Ids, IdOrNone
  <1>2. \A id \in Nat, st \in States : <<Msg(st, id)>> \in Seq(Status)
    BY <1>1
  <1>3. Larger(0, watermark) \in Nat
    BY <1>0 DEF Larger, IdOrNone, NoId
  <1>4. /\ goal.id # NoId => goal.id \in Nat
        /\ canceled # NoId => canceled \in Nat
        /\ fault.id # NoId => fault.id \in Nat
    BY <1>0 DEF IdOrNone, Ids
  <1>5. /\ IdleId \in Nat
        /\ (IF fault.id # NoId THEN fault.id ELSE Larger(0, watermark)) \in Nat
        /\ (IF HasGoal THEN goal.id ELSE Larger(0, watermark)) \in Nat
    BY <1>3, <1>4 DEF IdleId, HasGoal
  <1>6. IdleState \in States /\ "FAULT" \in States
    BY DEF IdleState, States
  <1>7. RejectMsgs \in Seq(Status)
    <2>1. \A i \in 1 .. Len(rejects) :
            [state |-> "REJECTED", id |-> rejects[i], wm |-> watermark] \in Status
      BY <1>0 DEF Status, States, Ids
    <2>2. DOMAIN rejects = 1 .. Len(rejects) /\ Len(rejects) \in Nat
      BY <1>0
    <2> QED
      BY <2>1, <2>2 DEF RejectMsgs
  <1>8. EStopMsgs \in Seq(Status) /\ IdleMsgs \in Seq(Status) /\ FailMsgs \in Seq(Status)
    BY <1>2, <1>5, <1>6 DEF EStopMsgs, IdleMsgs, FailMsgs
  <1>9. phase \in {"step", "done"} => \A st \in States : <<Msg(st, g)>> \in Seq(Status)
    BY <1>2 DEF CopyInv, Ids
  <1> QED
    BY <1>7, <1>8, <1>9

\* Some message is published, or the status queues lose one or stay.
LEMMA StatusQueueStep ==
  ASSUME TypeOK, CopyInv, [Next]_vars
  PROVE  \/ \E msgs \in Seq(Status) : Publish(msgs)
         \/ \E c \in Clients : /\ statusQ[c] # <<>>
                               /\ statusQ' = [statusQ EXCEPT ![c] = Tail(@)]
         \/ statusQ' = statusQ
  <1>0. PiTypeOK
    BY DEF TypeOK
  <1>1. CASE PublishingStep
    <2>1. OdomStale \/ Drive => phase = "step"
      BY DEF OdomStale, Drive
    <2>2. "FAULT" \in States /\ "DRIVING" \in States
      BY DEF States
    <2> QED
      BY <1>0, <1>1, <2>1, <2>2, PublishedType DEF PublishingStep
  <1>2. CASE ArrivingStep
    <2>1. "ARRIVED" \in States /\ phase = "step"
      BY <1>2 DEF ArrivingStep, Arrive, States
    <2> QED
      BY <1>0, <1>2, <2>1, PublishedType DEF ArrivingStep
  <1>3. ASSUME NEW c \in Clients, ReceiveStatus(c) \/ LoseStatus(c)
        PROVE  statusQ[c] # <<>> /\ statusQ' = [statusQ EXCEPT ![c] = Tail(@)]
    BY <1>3 DEF ReceiveStatus, LoseStatus
  <1>4. \A c \in Clients : IssueCmd(c) \/ PutCmd(c) \/ RefreshPath(c) \/ Resend(c) \/ PutResend(c)
          \/ RestartDesktop(c) \/ LoseCmd(c) \/ ReceiveCmd(c) => statusQ' = statusQ
    BY DEF IssueCmd, PutCmd, RefreshPath, Resend, PutResend, RestartDesktop, LoseCmd, ReceiveCmd
  <1>5. OtherCallback \/ SilentStep \/ RestartPi \/ UNCHANGED vars => statusQ' = statusQ
    BY DEF OtherCallback, SilentStep, RestartPi, vars
  <1> QED
    BY <1>1, <1>2, <1>3, <1>4, <1>5 DEF Next, PiTick

LEMMA StatusQueueType ==
  ASSUME TypeOK, CopyInv, [Next]_vars
  PROVE  statusQ' \in [Clients -> Seq(Status)]
  <1>0. statusQ \in [Clients -> Seq(Status)]
    BY DEF TypeOK
  <1>1. ASSUME NEW msgs \in Seq(Status), Publish(msgs)
        PROVE  statusQ' \in [Clients -> Seq(Status)]
    <2>1. \A c \in Clients : statusQ[c] \o msgs \in Seq(Status)
      BY <1>0
    <2> QED
      BY <1>0, <1>1, <2>1 DEF Publish
  <1>2. ASSUME NEW c \in Clients, statusQ[c] # <<>>, statusQ' = [statusQ EXCEPT ![c] = Tail(@)]
        PROVE  statusQ' \in [Clients -> Seq(Status)]
    <2>1. Tail(statusQ[c]) \in Seq(Status)
      BY <1>0, <1>2
    <2> QED
      BY <1>0, <1>2, <2>1
  <1> QED
    BY <1>0, <1>1, <1>2, StatusQueueStep

LEMMA GotoQueueType ==
  ASSUME TypeOK, [Next]_vars
  PROVE  gotoQ' \in [Clients -> Seq(Command)]
  <1>0. /\ gotoQ \in [Clients -> Seq(Command)]
        /\ callerPut \in [Clients -> Command \cup {NoCmd}]
        /\ resendPut \in [Clients -> Command \cup {NoCmd}]
        /\ route \in [Clients -> [id : Nat, seq : Nat]]
    BY DEF TypeOK, ClientTypeOK, ClientIds
  <1>1. ASSUME NEW c \in Clients, NEW m \in Command, gotoQ' = [gotoQ EXCEPT ![c] = Append(@, m)]
        PROVE  gotoQ' \in [Clients -> Seq(Command)]
    <2>1. Append(gotoQ[c], m) \in Seq(Command)
      BY <1>0
    <2> QED
      BY <1>0, <1>1, <2>1
  <1>2. ASSUME NEW c \in Clients, PutCmd(c) PROVE gotoQ' \in [Clients -> Seq(Command)]
    BY <1>0, <1>1, <1>2 DEF PutCmd, CallerPuts
  <1>3. ASSUME NEW c \in Clients, PutResend(c) PROVE gotoQ' \in [Clients -> Seq(Command)]
    BY <1>0, <1>1, <1>3 DEF PutResend, PumpPuts
  <1>4. ASSUME NEW c \in Clients, RefreshPath(c) PROVE gotoQ' \in [Clients -> Seq(Command)]
    <2>1. route[c].id \in Nat /\ route'[c].seq \in Nat
      BY <1>0, <1>4 DEF RefreshPath, Refresh
    <2>2. [kind |-> "path", id |-> route[c].id, seq |-> route'[c].seq, ok |-> TRUE] \in Command
      BY <2>1 DEF Command, Kind, Ids
    <2> QED
      BY <1>1, <1>4, <2>2 DEF RefreshPath
  <1>5. ASSUME NEW c \in Clients, LoseCmd(c) \/ ReceiveCmd(c)
        PROVE  gotoQ' \in [Clients -> Seq(Command)]
    <2>1. gotoQ[c] # <<>> /\ gotoQ' = [gotoQ EXCEPT ![c] = Tail(@)]
      BY <1>5 DEF LoseCmd, ReceiveCmd
    <2>2. Tail(gotoQ[c]) \in Seq(Command)
      BY <1>0, <2>1
    <2> QED
      BY <1>0, <2>1, <2>2
  <1>7. \A c \in Clients : IssueCmd(c) \/ ReceiveStatus(c) \/ Resend(c) \/ RestartDesktop(c)
          \/ LoseStatus(c) => gotoQ' = gotoQ
    BY DEF IssueCmd, ReceiveStatus, Resend, RestartDesktop, LoseStatus
  <1>8. OtherCallback \/ PiTick \/ RestartPi \/ UNCHANGED vars => gotoQ' = gotoQ
    BY DEF OtherCallback, PiTick, SilentStep, PublishingStep, ArrivingStep, RestartPi, vars
  <1> QED
    BY <1>0, <1>2, <1>3, <1>4, <1>5, <1>7, <1>8 DEF Next

LEMMA HistoryType ==
  ASSUME TypeOK, [Next]_vars
  PROVE  /\ ended' \in SUBSET Ids /\ arrived' \in SUBSET IdOrNone /\ stray' \in SUBSET IdOrNone
         /\ cancels' \in [Clients -> SUBSET Ids]
  <1>0. /\ ended \in SUBSET Ids /\ arrived \in SUBSET IdOrNone /\ stray \in SUBSET IdOrNone
        /\ cancels \in [Clients -> SUBSET Ids]
        /\ g \in IdOrNone /\ goal.id \in IdOrNone /\ fault.id \in IdOrNone
    BY RecordTypes DEF TypeOK, PiTypeOK, ArbTypeOK
  <1>1. ended' \in SUBSET Ids
    <2>1. \A r \in SUBSET Ids : Ends(r) => ended' \in SUBSET Ids
      BY <1>0 DEF Ends, IdOrNone, Ids
    <2>2. ASSUME NEW c \in Clients, ReceiveCmd(c) PROVE ended' \in SUBSET Ids
      <3>1. Head(gotoQ[c]).id \in Ids
        BY <2>2, HeadTypes DEF ReceiveCmd, Command
      <3> QED
        BY <2>1, <2>2, <3>1 DEF ReceiveCmd
    <2>3. CASE SilentStep \/ PublishingStep
      BY <2>1, <2>3 DEF SilentStep, PublishingStep
    <2>4. \A c \in Clients : IssueCmd(c) \/ PutCmd(c) \/ RefreshPath(c) \/ ReceiveStatus(c) \/ Resend(c)
            \/ PutResend(c) \/ RestartDesktop(c) \/ LoseCmd(c) \/ LoseStatus(c) => ended' = ended
      BY DEF IssueCmd, PutCmd, RefreshPath, ReceiveStatus, Resend, PutResend, RestartDesktop,
             LoseCmd, LoseStatus, hist
    <2>5. OtherCallback \/ ArrivingStep \/ RestartPi \/ UNCHANGED vars => ended' = ended \/ ended' = {}
      BY DEF OtherCallback, ArrivingStep, RestartPi, vars, hist
    <2> QED
      BY <1>0, <2>2, <2>3, <2>4, <2>5 DEF Next, PiTick
  <1>2. arrived' \in SUBSET IdOrNone
    BY <1>0 DEF Next, vars, hist, IssueCmd, PutCmd, RefreshPath, ReceiveStatus, Resend, PutResend,
           RestartDesktop, LoseCmd, LoseStatus, ReceiveCmd, OtherCallback, PiTick, SilentStep,
           PublishingStep, ArrivingStep, RestartPi
  <1>3. cancels' \in [Clients -> SUBSET Ids]
    <2>1. ASSUME NEW c \in Clients, IssueCmd(c) PROVE cancels' \in [Clients -> SUBSET Ids]
      <3>1. \/ cancels' = [cancels EXCEPT ![c] = @ \cup {NextId(c)}]
            \/ cancels' = [cancels EXCEPT ![c] = @]
        BY <2>1 DEF IssueCmd
      <3> QED
        BY <1>0, <3>1, HeadTypes DEF Ids
    <2> QED
      BY <1>0, <2>1 DEF Next, vars, hist, PutCmd, RefreshPath, ReceiveStatus, Resend, PutResend,
           RestartDesktop, LoseCmd, LoseStatus, ReceiveCmd, OtherCallback, PiTick, SilentStep,
           PublishingStep, ArrivingStep, RestartPi
  <1>4. stray' \in SUBSET IdOrNone
    <2>1. ASSUME NEW c \in Clients, ReceiveCmd(c) PROVE stray' \in SUBSET IdOrNone
      <3>1. Head(gotoQ[c]).id \in IdOrNone
        BY <2>1, HeadTypes, RecordTypes DEF ReceiveCmd, IdOrNone
      <3>2. Strays(Head(gotoQ[c])) \subseteq IdOrNone
        BY <1>0, <3>1 DEF Strays
      <3> QED
        BY <1>0, <2>1, <3>2 DEF ReceiveCmd
    <2>2. \A c \in Clients : IssueCmd(c) \/ PutCmd(c) \/ RefreshPath(c) \/ ReceiveStatus(c) \/ Resend(c)
            \/ PutResend(c) \/ RestartDesktop(c) \/ LoseCmd(c) \/ LoseStatus(c) => stray' = stray
      BY DEF IssueCmd, PutCmd, RefreshPath, ReceiveStatus, Resend, PutResend, RestartDesktop,
             LoseCmd, LoseStatus, hist
    <2>3. OtherCallback \/ PiTick \/ RestartPi \/ UNCHANGED vars => stray' = stray \/ stray' = {}
      BY DEF OtherCallback, PiTick, SilentStep, PublishingStep, ArrivingStep, RestartPi, vars, hist
    <2> QED
      BY <1>0, <2>1, <2>2, <2>3 DEF Next
  <1> QED
    BY <1>1, <1>2, <1>3, <1>4

LEMMA InitType == Init => TypeOK /\ CopyInv
  <1> SUFFICES ASSUME Init PROVE TypeOK /\ CopyInv
    OBVIOUS
  <1>0. NoId \in IdOrNone /\ <<>> \in Seq(Ids) /\ PiWatermark \in IdOrNone
    BY Constants DEF IdOrNone
  <1>1. PiTypeOK /\ CopyInv
    BY <1>0, RecordTypes
       DEF Init, PiInit, ArbInit, PiTypeOK, ArbTypeOK, Phases, CopyInv
  <1>2. ClientTypeOK(Command)
    <2>1. NoPending \in [cmd : Command \cup {NoCmd}, resends : 0 .. MaxResends]
      BY Constants DEF NoPending
    <2>2. NoRoute \in [id : ClientIds, seq : Nat]
      BY DEF NoRoute, ClientIds
    <2> QED
      BY <2>1, <2>2, Constants DEF Init, ClientInit, ClientTypeOK, ClientIds
  <1>3. gotoQ \in [Clients -> Seq(Command)] /\ statusQ \in [Clients -> Seq(Status)]
    BY DEF Init
  <1>4. /\ ended \in SUBSET Ids /\ arrived \in SUBSET IdOrNone /\ stray \in SUBSET IdOrNone
        /\ cancels \in [Clients -> SUBSET Ids]
    BY DEF Init
  <1> QED
    BY <1>1, <1>2, <1>3, <1>4 DEF TypeOK

LEMMA StepType ==
  ASSUME TypeOK, CopyInv, [Next]_vars
  PROVE  TypeOK' /\ CopyInv'
  <1>1. PiTypeOK' /\ CopyInv'
    BY NextIsPiStep, PiStepType DEF TypeOK
  <1>2. ClientTypeOK(Command)'
    BY NextIsClientStep, ClientStepType DEF TypeOK
  <1> QED
    BY <1>1, <1>2, StatusQueueType, GotoQueueType, HistoryType DEF TypeOK

(***************************************************************************)
(* Every variable keeps its type; in particular no status is published     *)
(* under the id of a goal that does not exist.                             *)
(***************************************************************************)
THEOREM TypeCorrect == Spec => [](TypeOK /\ CopyInv)
  <1>1. (TypeOK /\ CopyInv) /\ [Next]_vars => (TypeOK /\ CopyInv)'
    BY StepType
  <1> QED
    BY InitType, <1>1, PTL DEF Spec

-------------------------------------------------------------------------------
(* A goal that ended                                                         *)

(***************************************************************************)
(* The watermark is what keeps an ended goal from coming back: it is never *)
(* below an id that ended or is the goal, and a new goal is above it.      *)
(***************************************************************************)
EndedInv ==
  /\ goal.id <= watermark
  /\ \A id \in ended : id <= watermark
  /\ goal.id \notin ended

\* What on_command may do to the goal and the watermark.
LEMMA OnCommandGoal ==
  ASSUME ArbTypeOK, NEW m \in Command, NEW e \in BOOLEAN, OnCommand(m, e),
         goal.id <= watermark
  PROVE  /\ watermark <= watermark' /\ goal'.id <= watermark'
         /\ goal'.id = goal.id \/ goal'.id = NoId \/ (goal'.id = m.id /\ m.id > watermark)
         /\ m.kind # "cancel" /\ m.id > watermark => m.id <= watermark'
  <1>0. /\ watermark \in IdOrNone /\ goal.id \in IdOrNone /\ m.id \in Nat
        /\ NoGoal.id = NoId /\ GoalOf(m).id = m.id
    BY RecordTypes DEF ArbTypeOK, NoGoal, GoalOf
  <1>1. CASE OnCancel(m)
    BY <1>0, <1>1 DEF OnCancel, Larger, IdOrNone, NoId
  <1>2. CASE OnRefresh(m) \/ OnDuplicate(m) \/ OnStale(m)
    BY <1>0, <1>2 DEF OnRefresh, IsRefresh, OnDuplicate, OnStale, arbVars, IdOrNone, NoId
  <1>3. CASE OnMalformed(m)
    BY <1>0, <1>3 DEF OnMalformed, IdOrNone, NoId
  <1>4. CASE OnGoto(m, e)
    <2>1. watermark' = m.id /\ m.id > watermark /\ (goal' = NoGoal \/ goal' = GoalOf(m))
      BY <1>4 DEF OnGoto
    <2> QED
      BY <1>0, <2>1 DEF IdOrNone, NoId
  <1> QED
    BY <1>1, <1>2, <1>3, <1>4 DEF OnCommand

\* The tick keeps the watermark, and its goal is the old one or none.
LEMMA TickGoal ==
  ASSUME SilentStep \/ PublishingStep \/ ArrivingStep
  PROVE  watermark' = watermark /\ (goal' = goal \/ goal' = NoGoal)
  BY DEF SilentStep, PublishingStep, ArrivingStep, DropOnReset, DropOnEStop, FinishGoal,
         Snapshot, ReportEStop, Idle, OdomStale, Drive, TickFails, Arrive, TakeRejects,
         IdleStatus, Drop, Finish, arbVars

LEMMA EndedStep ==
  ASSUME TypeOK, EndedInv, [Next]_vars
  PROVE  EndedInv'
  <1>0. /\ ArbTypeOK /\ estop \in BOOLEAN /\ watermark \in IdOrNone /\ goal.id \in IdOrNone
        /\ ended \subseteq Nat /\ NoGoal.id = NoId /\ NoId \notin Nat
    BY RecordTypes DEF TypeOK, PiTypeOK, ArbTypeOK, NoGoal, NoId, Ids
  <1>1. ASSUME NEW c \in Clients, ReceiveCmd(c) PROVE EndedInv'
    <2> DEFINE m == Head(gotoQ[c])
    <2>1. m \in Command /\ m.id \in Nat
      BY <1>1, HeadTypes, RecordTypes DEF ReceiveCmd
    <2>2. OnCommand(m, estop)
      BY <1>1 DEF ReceiveCmd, GotoCallback
    <2>3. Ends(IF m.kind # "cancel" /\ m.id > watermark /\ goal'.id # m.id THEN {m.id} ELSE {})
      BY <1>1 DEF ReceiveCmd
    <2> HIDE DEF m
    <2>4. /\ watermark <= watermark' /\ goal'.id <= watermark'
          /\ goal'.id = goal.id \/ goal'.id = NoId \/ (goal'.id = m.id /\ m.id > watermark)
          /\ m.kind # "cancel" /\ m.id > watermark => m.id <= watermark'
      BY <1>0, <2>1, <2>2, OnCommandGoal DEF EndedInv
    <2>5. watermark' \in IdOrNone
      BY <1>0, <2>1, <2>2, OnCommandType DEF ArbTypeOK
    <2>6. \A id \in ended' : \/ id \in ended
                             \/ id = goal.id /\ id # goal'.id
                             \/ id = m.id /\ m.kind # "cancel" /\ m.id > watermark /\ goal'.id # m.id
      BY <2>3 DEF Ends
    <2>7. \A id \in ended' : id \in Nat
      BY <1>0, <2>1, <2>3 DEF Ends, IdOrNone
    <2>8. \A id \in ended' : id <= watermark'
      BY <1>0, <2>1, <2>4, <2>5, <2>6, <2>7 DEF EndedInv, IdOrNone, NoId
    <2>9. goal'.id \notin ended'
      BY <1>0, <2>1, <2>4, <2>6, <2>7 DEF EndedInv, IdOrNone, NoId
    <2> QED
      BY <2>4, <2>8, <2>9 DEF EndedInv
  <1>2. CASE SilentStep \/ PublishingStep
    <2>1. watermark' = watermark /\ (goal' = goal \/ goal' = NoGoal)
      BY <1>2, TickGoal
    <2>2. ended' = ended \cup ({goal.id} \ {goal'.id, NoId})
      BY <1>2 DEF SilentStep, PublishingStep, Ends
    <2> QED
      BY <1>0, <2>1, <2>2 DEF EndedInv, IdOrNone, NoId
  <1>3. CASE RestartPi
    BY <1>0, <1>3 DEF RestartPi, PiRestart, EndedInv, NoId
  <1>4. CASE UNCHANGED <<goal, watermark, ended>>
    BY <1>4 DEF EndedInv
  <1>5. \A c \in Clients : IssueCmd(c) \/ PutCmd(c) \/ RefreshPath(c) \/ ReceiveStatus(c) \/ Resend(c)
          \/ PutResend(c) \/ RestartDesktop(c) \/ LoseCmd(c) \/ LoseStatus(c)
          => UNCHANGED <<goal, watermark, ended>>
    BY DEF IssueCmd, PutCmd, RefreshPath, ReceiveStatus, Resend, PutResend, RestartDesktop,
           LoseCmd, LoseStatus, piVars, arbVars, hist
  <1>6. OtherCallback \/ ArrivingStep \/ UNCHANGED vars => UNCHANGED <<goal, watermark, ended>>
    BY DEF OtherCallback, EStopChanges, OdomReset, ArrivingStep, Arrive, vars, piVars, arbVars, hist
  <1> QED
    BY <1>1, <1>2, <1>3, <1>4, <1>5, <1>6 DEF Next, PiTick

(***************************************************************************)
(* However commands are resent, delayed, duplicated or lost, a goal that   *)
(* was revoked, reached, faulted or refused is never driven to again.      *)
(***************************************************************************)
THEOREM GoalsEndOnce == Spec => []EndedStaysEnded
  <1>1. Init => EndedInv
    <2>1. PiWatermark \in IdOrNone /\ NoGoal.id = NoId
      BY Constants DEF NoGoal
    <2> QED
      BY <2>1 DEF Init, PiInit, ArbInit, EndedInv, IdOrNone, NoId
  <1>2. TypeOK /\ EndedInv /\ [Next]_vars => EndedInv'
    BY EndedStep
  <1>3. EndedInv => EndedStaysEnded
    BY DEF EndedInv, EndedStaysEnded
  <1> QED
    BY <1>1, <1>2, <1>3, TypeCorrect, PTL DEF Spec

-------------------------------------------------------------------------------
(* Refinement                                                                *)

\* A goal that stays is a stutter of the service, one that goes is its end.
LEMMA KeepsOrEnds ==
  ASSUME TypeOK, goal'.id \in {goal.id, NoId},
         ended' = ended \cup ({goal.id} \ {goal'.id, NoId})
  PROVE  [Service!Next]_(Service!serviceVars)
  <1>1. CASE goal'.id = goal.id
    <2>1. ended' = ended
      BY <1>1
    <2> QED
      BY <1>1, <2>1 DEF Service!serviceVars
  <1>2. CASE goal'.id = NoId /\ goal.id # NoId
    <2>1. ended' \cup ({goal'.id} \ {NoId}) = ended \cup ({goal.id} \ {NoId})
      BY <1>2
    <2>2. Service!End
      BY <1>2, <2>1 DEF Service!End
    <2> QED
      BY <2>2 DEF Service!Next
  <1> QED
    BY <1>1, <1>2

\* A command above the watermark is above every id the service has taken.
LEMMA TakesNewer ==
  ASSUME TypeOK, EndedInv, NEW id \in Nat, id > watermark,
         goal'.id \in {id, goal.id, NoId},
         ended' = ended \cup ({goal.id} \ {goal'.id, NoId})
                        \cup (IF goal'.id # id THEN {id} ELSE {})
  PROVE  Service!Next
  <1>0. /\ watermark \in IdOrNone /\ goal.id \in IdOrNone /\ ended \subseteq Nat
        /\ NoId \notin Nat
    BY RecordTypes DEF TypeOK, PiTypeOK, ArbTypeOK, NoId, Ids
  <1> DEFINE used == ended \cup ({goal.id} \ {NoId})
             usedN == ended' \cup ({goal'.id} \ {NoId})
  <1>1. \A i \in used : i < id
    BY <1>0 DEF EndedInv, IdOrNone, NoId
  <1>2. usedN = used \cup {id}
    BY <1>0
  <1>3. Service!Take(id)
    BY <1>1, <1>2 DEF Service!Take
  <1> QED
    BY <1>2, <1>3 DEF Service!Next

LEMMA ServiceStep ==
  ASSUME TypeOK, EndedInv, [Next]_vars
  PROVE  [Service!Next]_(Service!serviceVars)
  <1>0. ArbTypeOK /\ estop \in BOOLEAN /\ NoGoal.id = NoId
    BY DEF TypeOK, PiTypeOK, NoGoal
  <1>1. ASSUME NEW c \in Clients, ReceiveCmd(c)
        PROVE  [Service!Next]_(Service!serviceVars)
    <2> DEFINE m == Head(gotoQ[c])
    <2>1. m \in Command /\ m.id \in Nat
      BY <1>1, HeadTypes, RecordTypes DEF ReceiveCmd
    <2>2. OnCommand(m, estop)
      BY <1>1 DEF ReceiveCmd, GotoCallback
    <2>3. Ends(IF m.kind # "cancel" /\ m.id > watermark /\ goal'.id # m.id THEN {m.id} ELSE {})
      BY <1>1 DEF ReceiveCmd
    <2> HIDE DEF m
    <2>4. goal'.id = goal.id \/ goal'.id = NoId \/ (goal'.id = m.id /\ m.id > watermark)
      BY <1>0, <2>1, <2>2, OnCommandGoal DEF EndedInv
    <2>5. CASE m.kind # "cancel" /\ m.id > watermark
      <3>1. ended' = ended \cup ({goal.id} \ {goal'.id, NoId})
                           \cup (IF goal'.id # m.id THEN {m.id} ELSE {})
        BY <2>3, <2>5 DEF Ends
      <3> QED
        BY <2>1, <2>4, <2>5, <3>1, TakesNewer
    <2>6. CASE ~(m.kind # "cancel" /\ m.id > watermark)
      <3>1. ended' = ended \cup ({goal.id} \ {goal'.id, NoId})
        BY <2>3, <2>6 DEF Ends
      <3>2. m.kind = "cancel" => goal'.id = NoId
        BY <1>0, <2>2
           DEF OnCommand, OnCancel, OnRefresh, OnDuplicate, OnStale, OnMalformed, OnGoto
      <3> QED
        BY <2>4, <2>6, <3>1, <3>2, KeepsOrEnds
    <2> QED
      BY <2>5, <2>6
  <1>2. CASE SilentStep \/ PublishingStep
    <2>1. goal' = goal \/ goal' = NoGoal
      BY <1>2, TickGoal
    <2>2. ended' = ended \cup ({goal.id} \ {goal'.id, NoId})
      BY <1>2 DEF SilentStep, PublishingStep, Ends
    <2> QED
      BY <1>0, <2>1, <2>2, KeepsOrEnds
  <1>3. CASE RestartPi
    <2>1. goal'.id = NoId /\ ended' = {}
      BY <1>0, <1>3 DEF RestartPi, PiRestart
    <2>2. Service!Restart
      BY <2>1 DEF Service!Restart
    <2> QED
      BY <2>2 DEF Service!Next
  <1>4. CASE UNCHANGED <<goal, ended>>
    BY <1>4 DEF Service!serviceVars
  <1>5. \A c \in Clients : IssueCmd(c) \/ PutCmd(c) \/ RefreshPath(c) \/ ReceiveStatus(c) \/ Resend(c)
          \/ PutResend(c) \/ RestartDesktop(c) \/ LoseCmd(c) \/ LoseStatus(c)
          => UNCHANGED <<goal, ended>>
    BY DEF IssueCmd, PutCmd, RefreshPath, ReceiveStatus, Resend, PutResend, RestartDesktop,
           LoseCmd, LoseStatus, piVars, arbVars, hist
  <1>6. OtherCallback \/ ArrivingStep \/ UNCHANGED vars => UNCHANGED <<goal, ended>>
    BY DEF OtherCallback, EStopChanges, OdomReset, ArrivingStep, Arrive, vars, piVars, arbVars, hist
  <1> QED
    BY <1>1, <1>2, <1>3, <1>4, <1>5, <1>6 DEF Next, PiTick

(***************************************************************************)
(* The link implements the one-goal service: for any number of clients,    *)
(* bounds and losses, commands are taken in ascending order of their ids   *)
(* and a goal that was left is not driven to again before a restart.       *)
(***************************************************************************)
THEOREM LinkIsService == Spec => ImplementsService
  <1>1. Init => Service!Init /\ EndedInv
    <2>1. PiWatermark \in IdOrNone /\ NoGoal.id = NoId
      BY Constants DEF NoGoal
    <2> QED
      BY <2>1 DEF Init, PiInit, ArbInit, EndedInv, IdOrNone, NoId, Service!Init
  <1>2. TypeOK /\ EndedInv /\ [Next]_vars => EndedInv'
    BY EndedStep
  <1>3. TypeOK /\ EndedInv /\ [Next]_vars => [Service!Next]_(Service!serviceVars)
    BY ServiceStep
  <1> QED
    BY <1>1, <1>2, <1>3, TypeCorrect, PTL DEF Spec, ImplementsService, Service!Spec

-------------------------------------------------------------------------------
(* Acknowledgements                                                          *)

(***************************************************************************)
(* No id the Tier-3 process holds, and none it reports, is above its       *)
(* watermark; a pending command has a positive id, so the 0 that is        *)
(* reported before the first command acknowledges nothing.                 *)
(***************************************************************************)
HeldInv ==
  /\ goal.id <= watermark /\ g <= watermark
  /\ canceled <= watermark /\ fault.id <= watermark
  /\ \A i \in 1 .. Len(rejects) : rejects[i] <= watermark

ReportedInv ==
  \A c \in Clients : \A i \in 1 .. Len(statusQ[c]) : statusQ[c][i].id <= Larger(0, watermark)

PendingInv == \A c \in Clients : pending[c].cmd # NoCmd => pending[c].cmd.id > 0

AckInv == HeldInv /\ ReportedInv /\ PendingInv /\ AckedMeansHandled

\* The numbers among the variables of the Tier-3 process.
LEMMA PiNumbers ==
  ASSUME PiTypeOK
  PROVE  /\ watermark \in Int /\ watermark >= NoId /\ NoId \in Int /\ NoId < 0
         /\ goal.id \in Int /\ g \in Int /\ canceled \in Int /\ fault.id \in Int
         /\ rejects \in Seq(Int)
         /\ NoGoal.id = NoId /\ NoFault.id = NoId
  <1>1. /\ goal.id \in IdOrNone /\ fault.id \in IdOrNone /\ rejects \in Seq(Nat)
        /\ watermark \in IdOrNone /\ g \in IdOrNone /\ canceled \in IdOrNone
    BY RecordTypes DEF PiTypeOK, ArbTypeOK, Ids
  <1>2. rejects \in Seq(Int)
    BY <1>1
  <1> QED
    BY <1>1, <1>2 DEF IdOrNone, NoId, NoGoal, NoFault

\* The goto callback raises the watermark with what it takes.
LEMMA HeldCallback ==
  ASSUME PiTypeOK, HeldInv, NEW m \in Command, GotoCallback(m)
  PROVE  HeldInv' /\ watermark <= watermark' /\ watermark' \in Int
  <1>0. m.id \in Nat /\ GoalOf(m).id = m.id
    BY RecordTypes DEF GoalOf
  <1>1. OnCommand(m, estop) /\ g' = g
    BY DEF GotoCallback, tickVars
  <1>2. CASE OnCancel(m)
    <2>1. /\ watermark' = Larger(watermark, m.id) /\ goal'.id = NoId /\ fault'.id = NoId
          /\ canceled' = goal.id \/ canceled' = canceled
          /\ rejects' = rejects
      BY <1>2, PiNumbers DEF OnCancel
    <2>2. watermark' \in Int /\ watermark <= watermark'
      BY <1>0, <2>1, PiNumbers DEF Larger
    <2> QED
      BY <1>1, <2>1, <2>2, PiNumbers DEF HeldInv
  <1>3. CASE OnRefresh(m)
    <2>1. goal'.id = goal.id /\ UNCHANGED <<watermark, canceled, fault, rejects>>
      BY <1>0, <1>3 DEF OnRefresh, IsRefresh
    <2> QED
      BY <1>1, <2>1, PiNumbers DEF HeldInv
  <1>4. CASE OnDuplicate(m)
    BY <1>1, <1>4, PiNumbers DEF OnDuplicate, arbVars, HeldInv
  <1>5. CASE OnStale(m) \/ OnMalformed(m)
    <2>1. /\ rejects' = Append(rejects, m.id) /\ m.id <= watermark' /\ watermark <= watermark'
          /\ watermark' \in Int /\ UNCHANGED <<goal, canceled, fault>>
      BY <1>0, <1>5, PiNumbers DEF OnStale, OnMalformed
    <2>2. /\ Len(rejects') = Len(rejects) + 1 /\ rejects'[Len(rejects) + 1] = m.id
          /\ \A i \in 1 .. Len(rejects) : rejects'[i] = rejects[i] /\ rejects[i] \in Int
          /\ Len(rejects) \in Nat
      BY <1>0, <2>1, PiNumbers
    <2>3. \A i \in 1 .. Len(rejects') : rejects'[i] <= watermark'
      BY <2>1, <2>2, PiNumbers DEF HeldInv
    <2>4. /\ goal'.id <= watermark' /\ g' <= watermark'
          /\ canceled' <= watermark' /\ fault'.id <= watermark'
      <3>1. /\ goal.id <= watermark /\ g <= watermark
            /\ canceled <= watermark /\ fault.id <= watermark
        BY DEF HeldInv
      <3>2. \A n \in Int : n <= watermark => n <= watermark'
        BY <2>1, PiNumbers
      <3> QED
        BY <1>1, <2>1, <3>1, <3>2, PiNumbers
    <2> QED
      BY <2>1, <2>3, <2>4 DEF HeldInv
  <1>6. CASE OnGoto(m, estop)
    <2>1. /\ watermark' = m.id /\ watermark <= m.id /\ canceled' = NoId /\ rejects' = rejects
          /\ goal'.id \in {NoId, m.id} /\ fault'.id \in {NoId, m.id}
      BY <1>0, <1>6, PiNumbers DEF OnGoto
    <2>2. \A i \in 1 .. Len(rejects) : rejects[i] \in Int
      BY PiNumbers
    <2> QED
      BY <1>0, <1>1, <2>1, <2>2, PiNumbers DEF HeldInv
  <1> QED
    BY <1>1, <1>2, <1>3, <1>4, <1>5, <1>6 DEF OnCommand

\* The steps of the tick.
TickStep == SilentStep \/ PublishingStep \/ ArrivingStep

LEMMA HeldTick ==
  ASSUME PiTypeOK, HeldInv, TickStep
  PROVE  HeldInv' /\ watermark' = watermark
  <1>1. watermark' = watermark
    BY TickGoal DEF TickStep
  <1>2. g' \in {g, NoId, goal.id}
    BY DEF TickStep, SilentStep, PublishingStep, ArrivingStep, DropOnReset, DropOnEStop,
           FinishGoal, Snapshot, ReportEStop, Idle, OdomStale, Drive, TickFails, Arrive, EndTick
  <1>3. goal'.id \in {goal.id, NoId}
    BY TickGoal, PiNumbers DEF TickStep
  <1>4. canceled' \in {canceled, NoId}
    BY DEF TickStep, SilentStep, PublishingStep, ArrivingStep, DropOnReset, DropOnEStop,
           FinishGoal, Snapshot, ReportEStop, Idle, OdomStale, Drive, TickFails, Arrive,
           TakeRejects, IdleStatus, Drop, Finish, arbVars
  <1>5. fault'.id \in {fault.id, goal.id}
    BY DEF TickStep, SilentStep, PublishingStep, ArrivingStep, DropOnReset, DropOnEStop,
           FinishGoal, Snapshot, ReportEStop, Idle, OdomStale, Drive, TickFails, Arrive,
           TakeRejects, IdleStatus, Drop, Finish, arbVars
  <1>6. rejects' \in {rejects, <<>>}
    BY DEF TickStep, SilentStep, PublishingStep, ArrivingStep, DropOnReset, DropOnEStop,
           FinishGoal, Snapshot, ReportEStop, Idle, OdomStale, Drive, TickFails, Arrive,
           TakeRejects, IdleStatus, Drop, Finish, arbVars
  <1>7. \A i \in 1 .. Len(rejects') : rejects'[i] <= watermark
    BY <1>6 DEF HeldInv
  <1> QED
    BY <1>1, <1>2, <1>3, <1>4, <1>5, <1>7, PiNumbers DEF HeldInv

\* Every id that a tick publishes is one it holds.
LEMMA PublishedHeld ==
  ASSUME PiTypeOK, CopyInv, HeldInv, TickStep
  PROVE  \/ statusQ' = statusQ
         \/ \E msgs \in Seq(Status) :
              Publish(msgs) /\ \A i \in 1 .. Len(msgs) : msgs[i].id <= Larger(0, watermark)
  <1> DEFINE Held(msgs) == \A i \in 1 .. Len(msgs) : msgs[i].id <= Larger(0, watermark)
  <1>1. Larger(0, watermark) \in Nat /\ watermark <= Larger(0, watermark)
    BY PiNumbers DEF Larger
  <1>2. \A id \in Int, st \in States : id <= Larger(0, watermark) => Held(<<Msg(st, id)>>)
    BY DEF Msg
  <1>3. /\ g <= Larger(0, watermark) /\ goal.id <= Larger(0, watermark)
        /\ canceled <= Larger(0, watermark) /\ fault.id <= Larger(0, watermark)
    BY <1>1, PiNumbers DEF HeldInv
  <1>4. IdleState \in States /\ {"FAULT", "DRIVING", "ARRIVED"} \subseteq States
    BY DEF IdleState, States
  <1>5. Held(EStopMsgs) /\ Held(IdleMsgs) /\ Held(FailMsgs)
    <2>1. IdleId \in {canceled, fault.id, Larger(0, watermark)}
      BY DEF IdleId
    <2> QED
      BY <1>1, <1>2, <1>3, <1>4, <2>1, PiNumbers DEF EStopMsgs, IdleMsgs, FailMsgs
  <1>6. Held(RejectMsgs)
    <2>1. \A i \in 1 .. Len(rejects) : rejects[i] <= Larger(0, watermark)
      BY <1>1, PiNumbers DEF HeldInv
    <2>2. DOMAIN rejects = 1 .. Len(rejects) /\ Len(rejects) \in Nat
      BY PiNumbers
    <2>3. Len(RejectMsgs) = Len(rejects) /\ \A i \in 1 .. Len(rejects) : RejectMsgs[i].id = rejects[i]
      BY <2>2 DEF RejectMsgs
    <2> QED
      BY <2>1, <2>3
  <1>7. \A st \in {"FAULT", "DRIVING", "ARRIVED"} : Held(<<Msg(st, g)>>)
    BY <1>2, <1>3, <1>4, PiNumbers
  <1> HIDE DEF Held
  <1>8. CASE PublishingStep
    <2>1. OdomStale \/ Drive => phase = "step"
      BY DEF OdomStale, Drive
    <2> QED
      BY <1>4, <1>5, <1>6, <1>7, <1>8, <2>1, PublishedType DEF PublishingStep, Held
  <1>9. CASE ArrivingStep
    <2>1. phase = "step"
      BY <1>9 DEF ArrivingStep, Arrive
    <2> QED
      BY <1>4, <1>7, <1>9, <2>1, PublishedType DEF ArrivingStep, Held
  <1>10. CASE SilentStep
    BY <1>10 DEF SilentStep
  <1> QED
    BY <1>8, <1>9, <1>10 DEF TickStep

\* The watermark rises only with what the Tier-3 process holds.
LEMMA HeldStep ==
  ASSUME PiRestarts = FALSE, TypeOK, HeldInv, [Next]_vars
  PROVE  HeldInv' /\ watermark <= watermark' /\ watermark' \in Int
  <1>0. PiTypeOK /\ watermark \in Int
    BY PiNumbers DEF TypeOK
  <1>1. ASSUME NEW c \in Clients, ReceiveCmd(c)
        PROVE  HeldInv' /\ watermark <= watermark' /\ watermark' \in Int
    <2>1. Head(gotoQ[c]) \in Command /\ GotoCallback(Head(gotoQ[c]))
      BY <1>1, HeadTypes DEF ReceiveCmd
    <2> QED
      BY <1>0, <2>1, HeldCallback
  <1>2. CASE TickStep
    BY <1>0, <1>2, HeldTick
  <1>3. CASE UNCHANGED <<arbVars, g>>
    BY <1>0, <1>3 DEF HeldInv, arbVars
  <1>4. \A c \in Clients : IssueCmd(c) \/ PutCmd(c) \/ RefreshPath(c) \/ ReceiveStatus(c) \/ Resend(c)
          \/ PutResend(c) \/ RestartDesktop(c) \/ LoseCmd(c) \/ LoseStatus(c)
          => UNCHANGED <<arbVars, g>>
    BY DEF IssueCmd, PutCmd, RefreshPath, ReceiveStatus, Resend, PutResend, RestartDesktop,
           LoseCmd, LoseStatus, piVars, tickVars
  <1>5. OtherCallback \/ UNCHANGED vars => UNCHANGED <<arbVars, g>>
    BY DEF OtherCallback, EStopChanges, OdomReset, vars, piVars, tickVars
  <1>6. ~RestartPi
    BY DEF RestartPi
  <1> QED
    BY <1>1, <1>2, <1>3, <1>4, <1>5, <1>6 DEF Next, PiTick, TickStep

\* The ids in a queue of statuses are natural numbers.
LEMMA StatusIds ==
  ASSUME NEW q \in Seq(Status)
  PROVE  \A i \in 1 .. Len(q) : q[i].id \in Nat
  <1>1. \A i \in 1 .. Len(q) : q[i] \in Status
    OBVIOUS
  <1>2. \A m \in Status : m.id \in Nat
    BY DEF Status, Ids
  <1> QED
    BY <1>1, <1>2

LEMMA ReportedStep ==
  ASSUME PiRestarts = FALSE, TypeOK, CopyInv, HeldInv, ReportedInv, [Next]_vars
  PROVE  ReportedInv'
  <1>0. PiTypeOK /\ statusQ \in [Clients -> Seq(Status)]
    BY DEF TypeOK
  <1>a. \A c \in Clients : \A i \in 1 .. Len(statusQ[c]) : statusQ[c][i].id \in Nat
    BY <1>0, StatusIds
  <1>1. watermark \in Int /\ watermark' \in Int /\ watermark <= watermark'
    BY <1>0, HeldStep, PiNumbers
  <1>2. /\ Larger(0, watermark) \in Int /\ Larger(0, watermark') \in Int
        /\ Larger(0, watermark) <= Larger(0, watermark')
    BY <1>1 DEF Larger
  <1>b. \A n \in Nat : n <= Larger(0, watermark) => n <= Larger(0, watermark')
    BY <1>2
  <1>c. (Larger(0, watermark))' = Larger(0, watermark')
    BY DEF Larger
  <1>3. CASE statusQ' = statusQ
    BY <1>a, <1>b, <1>c, <1>3 DEF ReportedInv
  <1>4. ASSUME NEW msgs \in Seq(Status), Publish(msgs),
               \A i \in 1 .. Len(msgs) : msgs[i].id <= Larger(0, watermark)
        PROVE  ReportedInv'
    <2> SUFFICES ASSUME NEW c \in Clients, NEW i \in 1 .. Len(statusQ'[c])
                 PROVE  statusQ'[c][i].id <= Larger(0, watermark')
      BY <1>c DEF ReportedInv
    <2>1. statusQ'[c] = statusQ[c] \o msgs \/ statusQ'[c] = statusQ[c]
      BY <1>4 DEF Publish
    <2>2. \/ i \in 1 .. Len(statusQ[c]) /\ statusQ'[c][i] = statusQ[c][i]
          \/ /\ i - Len(statusQ[c]) \in 1 .. Len(msgs)
             /\ statusQ'[c][i] = msgs[i - Len(statusQ[c])]
      BY <1>0, <2>1
    <2>3. \A j \in 1 .. Len(msgs) : msgs[j].id \in Nat
      BY StatusIds
    <2>4. statusQ'[c][i].id <= Larger(0, watermark) /\ statusQ'[c][i].id \in Nat
      BY <1>a, <1>4, <2>2, <2>3 DEF ReportedInv
    <2> QED
      BY <1>b, <2>4
  <1>5. ASSUME NEW d \in Clients, statusQ[d] # <<>>, statusQ' = [statusQ EXCEPT ![d] = Tail(@)]
        PROVE  ReportedInv'
    <2> SUFFICES ASSUME NEW c \in Clients, NEW i \in 1 .. Len(statusQ'[c])
                 PROVE  statusQ'[c][i].id <= Larger(0, watermark')
      BY <1>c DEF ReportedInv
    <2>1. \E j \in 1 .. Len(statusQ[c]) : statusQ'[c][i] = statusQ[c][j]
      <3>1. CASE c # d
        BY <1>0, <1>5, <3>1
      <3>2. CASE c = d
        <4>1. statusQ'[c] = Tail(statusQ[c]) /\ statusQ[c] \in Seq(Status) /\ statusQ[c] # <<>>
          BY <1>0, <1>5, <3>2
        <4>2. i + 1 \in 1 .. Len(statusQ[c]) /\ statusQ'[c][i] = statusQ[c][i + 1]
          BY <4>1
        <4> QED
          BY <4>2
      <3> QED
        BY <3>1, <3>2
    <2>2. statusQ'[c][i].id <= Larger(0, watermark) /\ statusQ'[c][i].id \in Nat
      BY <1>a, <2>1 DEF ReportedInv
    <2> QED
      BY <1>b, <2>2
  <1>6. CASE TickStep
    BY <1>0, <1>3, <1>4, <1>6, PublishedHeld
  <1>7. ASSUME NEW c \in Clients, ReceiveStatus(c) \/ LoseStatus(c)
        PROVE  ReportedInv'
    <2>1. statusQ[c] # <<>> /\ statusQ' = [statusQ EXCEPT ![c] = Tail(@)]
      BY <1>7 DEF ReceiveStatus, LoseStatus
    <2> QED
      BY <1>5, <2>1
  <1>8. \A c \in Clients : IssueCmd(c) \/ PutCmd(c) \/ RefreshPath(c) \/ Resend(c) \/ PutResend(c)
          \/ RestartDesktop(c) \/ LoseCmd(c) \/ ReceiveCmd(c) => statusQ' = statusQ
    BY DEF IssueCmd, PutCmd, RefreshPath, Resend, PutResend, RestartDesktop, LoseCmd, ReceiveCmd
  <1>9. OtherCallback \/ RestartPi \/ UNCHANGED vars => statusQ' = statusQ
    BY DEF OtherCallback, RestartPi, vars
  <1> QED
    BY <1>3, <1>6, <1>7, <1>8, <1>9 DEF Next, PiTick, TickStep

LEMMA PendingStep ==
  ASSUME TypeOK, PendingInv, [Next]_vars
  PROVE  PendingInv'
  <1>0. pending \in [Clients -> PendingType] /\ NoPending.cmd = NoCmd
    BY DEF TypeOK, ClientTypeOK, PendingType, NoPending
  <1>1. ASSUME NEW c \in Clients, IssueCmd(c) PROVE PendingInv'
    <2>1. PICK cmd : pending' = [pending EXCEPT ![c] = [cmd |-> cmd, resends |-> 0]] /\ cmd.id = NextId(c)
      BY <1>1 DEF IssueCmd, Issue
    <2> QED
      BY <1>0, <2>1, HeadTypes DEF PendingInv
  <1>2. ASSUME NEW c \in Clients, PumpResend(c) PROVE PendingInv'
    <2>1. \A p \in PendingType : [p EXCEPT !.resends = p.resends + 1].cmd = p.cmd
      BY DEF PendingType
    <2>2. \A d \in Clients : pending'[d].cmd = pending[d].cmd
      BY <1>0, <1>2, <2>1 DEF PumpResend
    <2> QED
      BY <2>2 DEF PendingInv
  <1>3. ASSUME NEW c \in Clients, NEW s, OnStatus(c, s) PROVE PendingInv'
    <2>1. \A d \in Clients : pending'[d] = pending[d] \/ pending'[d] = NoPending
      BY <1>0, <1>3 DEF OnStatus
    <2> QED
      BY <1>0, <2>1 DEF PendingInv
  <1>4. ASSUME NEW c \in Clients, PumpGivesUp(c) \/ ClientRestart(c) PROVE PendingInv'
    <2>1. \A d \in Clients : pending'[d] = pending[d] \/ pending'[d] = NoPending
      BY <1>0, <1>4 DEF PumpGivesUp, ClientRestart
    <2> QED
      BY <1>0, <2>1 DEF PendingInv
  <1>5. CASE pending' = pending
    BY <1>5 DEF PendingInv
  <1>6. \A c \in Clients : PutCmd(c) \/ RefreshPath(c) \/ PutResend(c) \/ LoseCmd(c) \/ LoseStatus(c)
          \/ ReceiveCmd(c) => pending' = pending
    BY DEF PutCmd, CallerPuts, RefreshPath, Refresh, PutResend, PumpPuts, LoseCmd, LoseStatus,
           ReceiveCmd, clientVars
  <1>7. OtherCallback \/ PiTick \/ RestartPi \/ UNCHANGED vars => pending' = pending
    BY DEF OtherCallback, PiTick, SilentStep, PublishingStep, ArrivingStep, RestartPi, vars, clientVars
  <1> QED
    BY <1>1, <1>2, <1>3, <1>4, <1>5, <1>6, <1>7 DEF Next, ReceiveStatus, Resend, RestartDesktop

LEMMA AckedStep ==
  ASSUME PiRestarts = FALSE, TypeOK, AckInv, [Next]_vars
  PROVE  AckedMeansHandled'
  <1>0. /\ PiTypeOK /\ acked \in [Clients -> SUBSET Nat] /\ statusQ \in [Clients -> Seq(Status)]
        /\ pending \in [Clients -> PendingType]
    BY DEF TypeOK, ClientTypeOK, ClientIds, PendingType
  <1>1. watermark \in Int /\ watermark' \in Int /\ watermark <= watermark'
    BY <1>0, HeldStep, PiNumbers DEF AckInv
  <1>2. CASE \A c \in Clients : acked'[c] \subseteq acked[c]
    BY <1>0, <1>1, <1>2 DEF AckInv, AckedMeansHandled
  <1>3. ASSUME NEW c \in Clients, ReceiveStatus(c) PROVE AckedMeansHandled'
    <2> DEFINE s == Head(statusQ[c])
               p == pending[c].cmd
    <2>1. /\ OnStatus(c, s) /\ s \in Status /\ 1 \in 1 .. Len(statusQ[c]) /\ s = statusQ[c][1]
      BY <1>0, <1>3 DEF ReceiveStatus
    <2>2. s.id <= Larger(0, watermark) /\ s.id \in Nat
      BY <2>1 DEF AckInv, ReportedInv, Status, Ids
    <2>3. p # NoCmd => p.id \in Nat /\ p.id > 0
      BY <1>0, RecordTypes DEF PendingType, AckInv, PendingInv
    <2>4. p # NoCmd /\ Answers(s, p.id) => p.id <= watermark
      BY <1>1, <2>2, <2>3 DEF Answers, Larger
    <2>5. acked' = [acked EXCEPT ![c] = IF p # NoCmd /\ Answers(s, p.id) THEN acked[c] \cup {p.id}
                                        ELSE acked[c]]
      BY <2>1 DEF OnStatus
    <2>6. \A d \in Clients : \A id \in acked'[d] : id \in acked[d] \/ (id = p.id /\ p # NoCmd /\ Answers(s, p.id))
      BY <1>0, <2>5
    <2>7. \A d \in Clients : \A id \in acked'[d] : id \in Nat /\ id <= watermark
      BY <1>0, <2>3, <2>4, <2>6 DEF AckInv, AckedMeansHandled
    <2> QED
      BY <1>1, <2>7 DEF AckedMeansHandled
  <1>4. \A c \in Clients : IssueCmd(c) \/ PutCmd(c) \/ RefreshPath(c) \/ Resend(c) \/ PutResend(c)
          \/ LoseCmd(c) \/ LoseStatus(c) \/ ReceiveCmd(c) => acked' = acked
    BY DEF IssueCmd, Issue, PutCmd, CallerPuts, RefreshPath, Refresh, Resend, PumpResend,
           PumpGivesUp, PutResend, PumpPuts, LoseCmd, LoseStatus, ReceiveCmd, clientVars
  <1>5. ASSUME NEW c \in Clients, RestartDesktop(c)
        PROVE  \A d \in Clients : acked'[d] \subseteq acked[d]
    BY <1>0, <1>5 DEF RestartDesktop, ClientRestart
  <1>6. OtherCallback \/ PiTick \/ RestartPi \/ UNCHANGED vars => acked' = acked
    BY DEF OtherCallback, PiTick, SilentStep, PublishingStep, ArrivingStep, RestartPi, vars, clientVars
  <1>7. CASE acked' = acked
    BY <1>2, <1>7
  <1> QED
    BY <1>2, <1>3, <1>4, <1>5, <1>6, <1>7 DEF Next

(***************************************************************************)
(* While the Tier-3 process lives, a command that a client believes        *)
(* acknowledged has been taken, or one with a higher id has.               *)
(***************************************************************************)
THEOREM AcksAreTrue ==
  ASSUME PiRestarts = FALSE
  PROVE  Spec => []AckedMeansHandled
  <1>1. Init => AckInv
    <2> SUFFICES ASSUME Init PROVE AckInv
      OBVIOUS
    <2>1. PiWatermark \in Int /\ NoId <= PiWatermark /\ NoGoal.id = NoId /\ NoFault.id = NoId
      BY Constants DEF IdOrNone, NoId, NoGoal, NoFault
    <2>2. HeldInv
      BY <2>1 DEF Init, PiInit, ArbInit, HeldInv
    <2>3. ReportedInv
      BY DEF Init, ReportedInv
    <2>4. PendingInv /\ AckedMeansHandled
      BY DEF Init, ClientInit, PendingInv, NoPending, AckedMeansHandled
    <2> QED
      BY <2>2, <2>3, <2>4 DEF AckInv
  <1>2. TypeOK /\ CopyInv /\ AckInv /\ [Next]_vars => AckInv'
    BY HeldStep, ReportedStep, PendingStep, AckedStep DEF AckInv
  <1>3. AckInv => AckedMeansHandled
    BY DEF AckInv
  <1> QED
    BY <1>1, <1>2, <1>3, TypeCorrect, PTL DEF Spec

===============================================================================
