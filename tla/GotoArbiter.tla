------------------------------ MODULE GotoArbiter ------------------------------
(***************************************************************************)
(* body/lib/local_drive_core.py, class GotoArbiter: which body/drive/goto  *)
(* command is the goal of Tier-3, and what stands in for a status while    *)
(* there is none.  Every operation runs under the lock of local_drive, so  *)
(* each is one step.  Ids are natural numbers; NoId stands for None and    *)
(* for the initial watermark.                                              *)
(***************************************************************************)
EXTENDS Integers, Sequences

VARIABLES
  goal,         \* the goal, NoGoal when there is none
  watermark,    \* highest cmd_id taken
  canceled,     \* pending_canceled: revoked goal still to be reported
  fault,        \* the latched fault of a dropped or refused goal
  rejects       \* ids still to be reported REJECTED

arbVars == <<goal, watermark, canceled, fault, rejects>>

NoId == -1
Ids == Nat
IdOrNone == Nat \cup {NoId}

Kind == {"goto", "path", "cancel"}
Reason == {"e_stop", "odom_reset", "internal_error", "none"}

\* A command: seq is path_seq (0 for a goto), ok says whether it parses.
Command == [kind : Kind, id : Ids, seq : Nat, ok : BOOLEAN]

NoGoal == [id |-> NoId, path |-> FALSE, seq |-> 0]
Goal == [id : IdOrNone, path : BOOLEAN, seq : Nat]
HasGoal == goal.id # NoId

NoFault == [id |-> NoId, reason |-> "none"]
Fault == [id : IdOrNone, reason : Reason]

ArbTypeOK ==
  /\ goal \in Goal
  /\ watermark \in IdOrNone
  /\ canceled \in IdOrNone
  /\ fault \in Fault
  /\ rejects \in Seq(Ids)

ArbInit(wm) ==
  /\ goal = NoGoal
  /\ watermark = wm
  /\ canceled = NoId
  /\ fault = NoFault
  /\ rejects = <<>>

Larger(a, b) == IF a >= b THEN a ELSE b

GoalOf(m) == [id |-> m.id, path |-> (m.kind = "path"), seq |-> m.seq]

-------------------------------------------------------------------------------
(* on_command, one action for each way it can return.                        *)

\* cancel and stop: whatever their id, the goal is dropped and the fault cleared.
OnCancel(m) ==
  /\ m.kind = "cancel"
  /\ watermark' = Larger(watermark, m.id)
  /\ goal' = NoGoal
  /\ fault' = NoFault
  /\ canceled' = IF HasGoal THEN goal.id ELSE canceled
  /\ UNCHANGED rejects

\* The same cmd_id with a higher path_seq is a refresh of the active path.
IsRefresh(m) ==
  /\ m.kind = "path" /\ m.ok
  /\ goal.id = m.id /\ goal.path
  /\ m.seq > goal.seq

OnRefresh(m) ==
  /\ m.kind # "cancel" /\ m.id = watermark
  /\ IsRefresh(m)
  /\ goal' = GoalOf(m)
  /\ UNCHANGED <<watermark, canceled, fault, rejects>>

\* Any other command with the id already taken is absorbed.
OnDuplicate(m) ==
  /\ m.kind # "cancel" /\ m.id = watermark
  /\ ~IsRefresh(m)
  /\ UNCHANGED arbVars

OnStale(m) ==
  /\ m.kind # "cancel" /\ m.id < watermark
  /\ rejects' = Append(rejects, m.id)
  /\ UNCHANGED <<goal, watermark, canceled, fault>>

\* A new id that does not parse is taken and rejected; the goal stays.
OnMalformed(m) ==
  /\ m.kind # "cancel" /\ m.id > watermark /\ ~m.ok
  /\ watermark' = m.id
  /\ rejects' = Append(rejects, m.id)
  /\ UNCHANGED <<goal, canceled, fault>>

\* Fault: an id already taken is taken again.
OnGoto_Again(m, estop) ==
  /\ m.kind # "cancel" /\ m.id >= watermark /\ m.ok
  /\ watermark' = m.id
  /\ canceled' = NoId
  /\ goal' = IF estop THEN NoGoal ELSE GoalOf(m)
  /\ fault' = IF estop THEN [id |-> m.id, reason |-> "e_stop"] ELSE NoFault
  /\ UNCHANGED rejects

OnGoto(m, estop) ==
  /\ m.kind # "cancel" /\ m.id > watermark /\ m.ok
  /\ watermark' = m.id
  /\ canceled' = NoId
  /\ goal' = IF estop THEN NoGoal ELSE GoalOf(m)
  /\ fault' = IF estop THEN [id |-> m.id, reason |-> "e_stop"] ELSE NoFault
  /\ UNCHANGED rejects

OnCommand(m, estop) ==
  \/ OnCancel(m) \/ OnRefresh(m) \/ OnDuplicate(m)
  \/ OnStale(m) \/ OnMalformed(m) \/ OnGoto(m, estop)

-------------------------------------------------------------------------------
(* The operations of the control tick.                                       *)

TakeRejects ==
  /\ rejects' = <<>>
  /\ UNCHANGED <<goal, watermark, canceled, fault>>

\* Fault: the goal is dropped and the fault not latched.
Drop_NoFault(reason) ==
  /\ goal' = NoGoal
  /\ UNCHANGED <<watermark, canceled, fault, rejects>>

\* drop(reason): the goal of that moment, whichever it is.
Drop(reason) ==
  /\ IF HasGoal
       THEN /\ goal' = NoGoal
            /\ fault' = [id |-> goal.id, reason |-> reason]
       ELSE UNCHANGED <<goal, fault>>
  /\ UNCHANGED <<watermark, canceled, rejects>>

\* finish(cmd_id): only the goal that ended.
Finish(id) ==
  /\ goal' = IF goal.id = id THEN NoGoal ELSE goal
  /\ UNCHANGED <<watermark, canceled, fault, rejects>>

\* idle_status: CANCELED once, else the fault, else IDLE at the watermark.
IdleState == IF canceled # NoId THEN "CANCELED"
             ELSE IF fault.id # NoId THEN "FAULT" ELSE "IDLE"
IdleId == IF canceled # NoId THEN canceled
          ELSE IF fault.id # NoId THEN fault.id ELSE Larger(0, watermark)

IdleStatus ==
  /\ canceled' = NoId
  /\ UNCHANGED <<goal, watermark, fault, rejects>>

===============================================================================
