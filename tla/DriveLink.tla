------------------------------- MODULE DriveLink -------------------------------
(***************************************************************************)
(* The goto link: the desktop clients, the topics body/drive/goto and      *)
(* body/drive/status, and the Tier-3 process that obeys one and fills the  *)
(* other.  Each client's commands stay in order but the link may lose any  *)
(* of them; a put waits while its queue is full (BLOCK).  A status is      *)
(* dropped when the queue of its reader is full (DROP), and may be lost.   *)
(***************************************************************************)
EXTENDS LocalDrive, DriveClient

CONSTANTS
  CmdKinds,        \* the kinds of command the clients send
  MaxId,           \* bound: ids a client may give
  MaxSeq,          \* bound: path_seq
  GotoLen,         \* commands of one client in flight before a put waits
  StatusLen,       \* statuses in flight to one client before one is dropped
  Seed,            \* the clients' id seeds
  PiWatermark,     \* watermark the Tier-3 process has from an earlier session
  AtomicPuts,      \* no other thread of a client runs between lock and put
  OdomResets,      \* the odometry frame may be reset
  Malformed,       \* some commands do not parse
  PiRestarts,      \* local_drive may crash and be started again
  DesktopRestarts  \* so may a client

ASSUME DriveLinkAssumption ==
  /\ MaxResends \in Nat
  /\ CmdKinds \subseteq Kind
  /\ NoCmd \notin Command
  /\ Seed \in [Clients -> Nat]
  /\ PiWatermark \in IdOrNone
  /\ {AtomicPuts, OdomResets, Malformed, PiRestarts, DesktopRestarts} \subseteq BOOLEAN
  /\ {MaxId, MaxSeq, GotoLen, StatusLen} \subseteq Nat

VARIABLES
  gotoQ,      \* body/drive/goto in flight from each client
  statusQ,    \* body/drive/status in flight to each client
  ended,      \* history: ids that were the goal and are not, or were refused
  arrived,    \* history: ids that ARRIVED was published for
  stray,      \* history: ids whose end the arbiter does not remember: see Strays
  cancels     \* history: the ids each client gave to a cancel

hist == <<ended, arrived, stray, cancels>>
vars == <<piVars, clientVars, gotoQ, statusQ, hist>>

TypeOK ==
  /\ PiTypeOK
  /\ ClientTypeOK(Command)
  /\ gotoQ \in [Clients -> Seq(Command)]
  /\ statusQ \in [Clients -> Seq(Status)]
  /\ ended \in SUBSET Ids
  /\ arrived \in SUBSET IdOrNone
  /\ stray \in SUBSET IdOrNone
  /\ cancels \in [Clients -> SUBSET Ids]

Init ==
  /\ PiInit(PiWatermark)
  /\ ClientInit(Seed)
  /\ gotoQ = [c \in Clients |-> <<>>]
  /\ statusQ = [c \in Clients |-> <<>>]
  /\ ended = {}
  /\ arrived = {}
  /\ stray = {}
  /\ cancels = [c \in Clients |-> {}]

-------------------------------------------------------------------------------
(* Desktop                                                                   *)

\* A put is pending: with AtomicPuts the client's other threads wait for it.
Putting(c) == AtomicPuts /\ (callerPut[c] # NoCmd \/ resendPut[c] # NoCmd)

IssueCmd(c) ==
  /\ ~Putting(c)
  /\ NextId(c) <= MaxId
  /\ \E kind \in CmdKinds, ok \in {TRUE, ~Malformed} :
       /\ kind = "cancel" => ok
       /\ Issue(c, [kind |-> kind, id |-> NextId(c),
                    seq |-> IF kind = "path" THEN 1 ELSE 0, ok |-> ok])
       /\ cancels' = [cancels EXCEPT ![c] =
                        IF kind = "cancel" THEN @ \cup {NextId(c)} ELSE @]
  /\ UNCHANGED <<piVars, gotoQ, statusQ, ended, arrived, stray>>

PutCmd(c) ==
  /\ Len(gotoQ[c]) < GotoLen
  /\ gotoQ' = [gotoQ EXCEPT ![c] = Append(@, callerPut[c])]
  /\ CallerPuts(c)
  /\ UNCHANGED <<piVars, statusQ, hist>>

RefreshPath(c) ==
  /\ ~Putting(c)
  /\ route[c].seq < MaxSeq
  /\ Len(gotoQ[c]) < GotoLen
  /\ Refresh(c)
  /\ gotoQ' = [gotoQ EXCEPT ![c] = Append(@,
                 [kind |-> "path", id |-> route[c].id, seq |-> route'[c].seq, ok |-> TRUE])]
  /\ UNCHANGED <<piVars, statusQ, hist>>

ReceiveStatus(c) ==
  /\ ~Putting(c)
  /\ statusQ[c] # <<>>
  /\ statusQ' = [statusQ EXCEPT ![c] = Tail(@)]
  /\ OnStatus(c, Head(statusQ[c]))
  /\ UNCHANGED <<piVars, gotoQ, hist>>

Resend(c) ==
  /\ ~Putting(c)
  /\ PumpResend(c) \/ PumpGivesUp(c)
  /\ UNCHANGED <<piVars, gotoQ, statusQ, hist>>

PutResend(c) ==
  /\ Len(gotoQ[c]) < GotoLen
  /\ gotoQ' = [gotoQ EXCEPT ![c] = Append(@, resendPut[c])]
  /\ PumpPuts(c)
  /\ UNCHANGED <<piVars, statusQ, hist>>

RestartDesktop(c) ==
  /\ DesktopRestarts
  /\ ClientRestart(c)
  /\ UNCHANGED <<piVars, gotoQ, statusQ, hist>>

-------------------------------------------------------------------------------
(* Network                                                                   *)

LoseCmd(c) ==
  /\ gotoQ[c] # <<>>
  /\ gotoQ' = [gotoQ EXCEPT ![c] = Tail(@)]
  /\ UNCHANGED <<piVars, clientVars, statusQ, hist>>

LoseStatus(c) ==
  /\ statusQ[c] # <<>>
  /\ statusQ' = [statusQ EXCEPT ![c] = Tail(@)]
  /\ UNCHANGED <<piVars, clientVars, gotoQ, hist>>

-------------------------------------------------------------------------------
(* Robot                                                                     *)

\* An id joins ended when it stops being the goal, or is refused.
Ends(refused) == ended' = ended \cup ({goal.id} \ {goal'.id, NoId}) \cup refused

\* A command that does not parse is taken; a cancel that is not newer ends the goal, or
\* clears its fault, and leaves the watermark where it was.
Strays(m) ==
  IF m.kind = "cancel" /\ m.id <= watermark THEN {goal.id, fault.id} \ {NoId}
  ELSE IF m.kind # "cancel" /\ m.id > watermark /\ ~m.ok THEN {m.id} ELSE {}

ReceiveCmd(c) ==
  /\ gotoQ[c] # <<>>
  /\ gotoQ' = [gotoQ EXCEPT ![c] = Tail(@)]
  /\ LET m == Head(gotoQ[c])
     IN /\ GotoCallback(m)
        /\ Ends(IF m.kind # "cancel" /\ m.id > watermark /\ goal'.id # m.id
                THEN {m.id} ELSE {})
        /\ stray' = stray \cup Strays(m)
  /\ UNCHANGED <<clientVars, statusQ, arrived, cancels>>

\* A reader whose queue is full misses what is published.
Publish(msgs) ==
  statusQ' = [c \in Clients |->
                IF Len(statusQ[c]) < StatusLen THEN statusQ[c] \o msgs ELSE statusQ[c]]

OtherCallback ==
  /\ EStopChanges \/ (OdomResets /\ OdomReset)
  /\ UNCHANGED <<clientVars, gotoQ, statusQ, hist>>

SilentStep ==
  /\ DropOnReset \/ DropOnEStop \/ FinishGoal
  /\ Ends({})
  /\ UNCHANGED <<clientVars, gotoQ, statusQ, arrived, stray, cancels>>

PublishingStep ==
  /\ \/ Snapshot /\ Publish(RejectMsgs)
     \/ ReportEStop /\ Publish(EStopMsgs)
     \/ Idle /\ Publish(IdleMsgs)
     \/ OdomStale /\ Publish(<<Msg("FAULT", g)>>)
     \/ Drive /\ Publish(<<Msg("DRIVING", g)>>)
     \/ TickFails /\ Publish(FailMsgs)
  /\ Ends({})
  /\ UNCHANGED <<clientVars, gotoQ, arrived, stray, cancels>>

ArrivingStep ==
  /\ Arrive
  /\ Publish(<<Msg("ARRIVED", g)>>)
  /\ arrived' = arrived \cup {g}
  /\ UNCHANGED <<clientVars, gotoQ, ended, stray, cancels>>

\* What was on its way to the old process may reach the new one, or be lost
\* (LoseCmd); statuses of the old one still arrive.  What it knew is gone.
RestartPi ==
  /\ PiRestarts
  /\ PiRestart
  /\ ended' = {} /\ arrived' = {} /\ stray' = {}
  /\ UNCHANGED <<clientVars, gotoQ, statusQ, cancels>>

PiTick == SilentStep \/ PublishingStep \/ ArrivingStep

-------------------------------------------------------------------------------

Next ==
  \/ \E c \in Clients :
       \/ IssueCmd(c) \/ PutCmd(c) \/ RefreshPath(c) \/ ReceiveStatus(c)
       \/ Resend(c) \/ PutResend(c) \/ RestartDesktop(c)
       \/ LoseCmd(c) \/ LoseStatus(c) \/ ReceiveCmd(c)
  \/ OtherCallback \/ PiTick \/ RestartPi

Spec == Init /\ [][Next]_vars

-------------------------------------------------------------------------------
(* Safety                                                                    *)

(***************************************************************************)
(* A goal that ended, or was refused, is never the goal again in the life  *)
(* of the Tier-3 process: not by a resend that arrives late, a duplicate,  *)
(* or a refresh of a path that was revoked (on_command's watermark).       *)
(***************************************************************************)
EndedStaysEnded == goal.id \notin ended

(***************************************************************************)
(* An acknowledged id has been reached by the watermark of the Tier-3      *)
(* process (while that has not been restarted): no status that was dropped,*)
(* delayed or meant for an older command acknowledges a lost one.          *)
(***************************************************************************)
AckedMeansHandled == \A c \in Clients : \A id \in acked[c] : id <= watermark

(***************************************************************************)
(* Once a cancel is acknowledged to its client, the goal it revoked, and   *)
(* every older one, is gone and stays gone, also over a restart of the     *)
(* Tier-3 process.  Only a newer command drives the robot again.           *)
(***************************************************************************)
AckedCancelStops ==
  \A c \in Clients : \A id \in acked[c] \cap cancels[c] : goal.id \notin 0 .. id

(***************************************************************************)
(* The desktop reads IDLE under a goto's id as "arrived" (ARRIVED lasts    *)
(* one tick).  When IDLE is published under an id that is over, that id    *)
(* has arrived: a goal that was dropped for an e-stop, an odometry reset   *)
(* or an exception, refused, or revoked by a newer cancel does not decay   *)
(* into an arrival, wherever in a tick the commands come.  The exceptions  *)
(* are the ids that did not parse and the goals of a cancel that is not    *)
(* newer (idle_status, docs/tier_contract.md I4).                          *)
(***************************************************************************)
IdleMeansArrived ==
  [][\A c \in Clients : \A i \in Len(statusQ[c]) + 1 .. Len(statusQ'[c]) :
       statusQ'[c][i].state = "IDLE" /\ statusQ'[c][i].id \in ended
         => statusQ'[c][i].id \in arrived \cup stray]_vars

(***************************************************************************)
(* docs/tier_contract.md I4: "ARRIVED for one tick -> IDLE (consumers treat *)
(* IDLE@cmd_id as done)".  IDLE never names the goal that is active.       *)
(***************************************************************************)
IdleIsNotActive ==
  \A c \in Clients : \A i \in DOMAIN statusQ[c] :
    statusQ[c][i].state = "IDLE" => statusQ[c][i].id # goal.id

(***************************************************************************)
(* A goal is revoked by a newer command only (drive_client.py:72-73, "a    *)
(* newer command supersedes the older on the Pi anyway").                  *)
(***************************************************************************)
RevokedByNewer ==
  canceled # NoId => \E c \in Clients : \E id \in cancels[c] : id > canceled

-------------------------------------------------------------------------------
(* Refinement                                                                *)

Service == INSTANCE GotoService WITH
  active <- goal.id,
  used   <- ended \cup ({goal.id} \ {NoId}),
  None   <- NoId

(***************************************************************************)
(* Seen from outside, the link with its losses, resends and threads is one *)
(* server that takes commands in the order of their ids, each at most      *)
(* once, and never goes back to a goal it left (GotoArbiter, tier_contract *)
(* I7).                                                                    *)
(***************************************************************************)
ImplementsService == Service!Spec

-------------------------------------------------------------------------------
(* Liveness                                                                  *)

(***************************************************************************)
(* Threads run and the control loop ticks; the link may lose everything.   *)
(***************************************************************************)
Fairness ==
  /\ WF_vars(PiTick)
  /\ \A c \in Clients :
       /\ WF_vars(PutCmd(c)) /\ WF_vars(PutResend(c)) /\ WF_vars(Resend(c))
       /\ WF_vars(ReceiveStatus(c)) /\ WF_vars(ReceiveCmd(c))

FairSpec == Spec /\ Fairness

(***************************************************************************)
(* A cancel takes effect or the desktop knows that it may not have: the    *)
(* goals it revokes are gone, or it, or a command after it, is reported as *)
(* never acknowledged (pump_resends, ack_failed).                          *)
(***************************************************************************)
CancelStopsOrIsReported ==
  \A c \in Clients : \A i \in 1 .. MaxId :
    (pending[c].cmd # NoCmd /\ pending[c].cmd.id = i /\ i \in cancels[c])
      ~> (goal.id \notin 0 .. i \/ \E j \in ackFailed[c] : j >= i)

(***************************************************************************)
(* A robot whose goal is gone, or that is e-stopped, is commanded to stop  *)
(* by the ticks that follow unless it gets a goal it may drive to (I5).    *)
(***************************************************************************)
StopsWithoutGoal ==
  (moving /\ (~HasGoal \/ estop)) ~> (~moving \/ (HasGoal /\ ~estop))

===============================================================================
