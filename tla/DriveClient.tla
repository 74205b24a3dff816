------------------------------ MODULE DriveClient -------------------------------
(***************************************************************************)
(* desktop/pi_drive/drive_client.py: the desktop end of body/drive/goto.   *)
(* A client gives each command an id, keeps the newest one as pending and  *)
(* resends it until a status answers it.  Three threads touch it: the      *)
(* caller (send_goto, send_path, cancel), the status callback and the ack  *)
(* thread (pump_resends).  They share a lock, but the caller and the ack   *)
(* thread put on the topic after they have released it.                    *)
(*                                                                         *)
(* There is one client per desktop program, hence the set Clients; every   *)
(* variable is a function on it.                                           *)
(***************************************************************************)
EXTENDS Naturals

CONSTANTS
  Clients,     \* the programs that drive the robot
  MaxResends,  \* DriveClient.MAX_RESENDS
  NoCmd        \* no command

VARIABLES
  cmdId,       \* _cmd_id: the newest id given
  maxSeen,     \* _max_seen_cmd_id
  pending,     \* _pending: the newest command and how often it was resent
  acked,       \* _acked
  ackFailed,   \* _ack_failed
  callerPut,   \* a command the caller is about to put
  resendPut,   \* a command the ack thread is about to put again
  route        \* the path the caller refreshes: its id and last path_seq

clientVars == <<cmdId, maxSeen, pending, acked, ackFailed, callerPut, resendPut, route>>

ClientIds == Nat
NoRoute == [id |-> 0, seq |-> 0]
NoPending == [cmd |-> NoCmd, resends |-> 0]

ClientTypeOK(Commands) ==
  /\ cmdId \in [Clients -> ClientIds]
  /\ maxSeen \in [Clients -> ClientIds]
  /\ pending \in [Clients -> [cmd : Commands \cup {NoCmd}, resends : 0 .. MaxResends]]
  /\ acked \in [Clients -> SUBSET ClientIds]
  /\ ackFailed \in [Clients -> SUBSET ClientIds]
  /\ callerPut \in [Clients -> Commands \cup {NoCmd}]
  /\ resendPut \in [Clients -> Commands \cup {NoCmd}]
  /\ route \in [Clients -> [id : ClientIds, seq : Nat]]

\* seed[c] stands for the wall clock that c seeds its ids from.
ClientInit(seed) ==
  /\ cmdId = seed
  /\ maxSeen = [c \in Clients |-> 0]
  /\ pending = [c \in Clients |-> NoPending]
  /\ acked = [c \in Clients |-> {}]
  /\ ackFailed = [c \in Clients |-> {}]
  /\ callerPut = [c \in Clients |-> NoCmd]
  /\ resendPut = [c \in Clients |-> NoCmd]
  /\ route = [c \in Clients |-> NoRoute]

Larger2(a, b) == IF a >= b THEN a ELSE b

\* _next_cmd_id_locked
NextId(c) == Larger2(cmdId[c], maxSeen[c]) + 1

(***************************************************************************)
(* send_goto_from_body, send_path (of a new path) and cancel: the id, then *)
(* _publish_tracked up to the release of the lock.  The only state read in *)
(* between is the caller's own, and callers are the one GUI thread.        *)
(***************************************************************************)
Issue(c, cmd) ==
  /\ callerPut[c] = NoCmd
  /\ cmd.id = NextId(c)
  /\ cmdId' = [cmdId EXCEPT ![c] = cmd.id]
  /\ pending' = [pending EXCEPT ![c] = [cmd |-> cmd, resends |-> 0]]
  /\ callerPut' = [callerPut EXCEPT ![c] = cmd]
  /\ route' = [route EXCEPT ![c] =
                 IF cmd.kind = "path" THEN [id |-> cmd.id, seq |-> cmd.seq] ELSE NoRoute]
  /\ UNCHANGED <<maxSeen, acked, ackFailed, resendPut>>

\* control_put at the end of _publish_tracked.
CallerPuts(c) ==
  /\ callerPut[c] # NoCmd
  /\ callerPut' = [callerPut EXCEPT ![c] = NoCmd]
  /\ UNCHANGED <<cmdId, maxSeen, pending, acked, ackFailed, resendPut, route>>

\* send_path with a cmd_id: the same id, the next path_seq, not tracked.
Refresh(c) ==
  /\ callerPut[c] = NoCmd
  /\ route[c] # NoRoute
  /\ route' = [route EXCEPT ![c].seq = @ + 1]
  /\ UNCHANGED <<cmdId, maxSeen, pending, acked, ackFailed, callerPut, resendPut>>

\* Fault: any status but a rejection answers the pending command.
Answers_Any(s, id) == s.id = id \/ s.state # "REJECTED"

\* _on_status with _note_status_locked.
Answers(s, id) == s.id = id \/ (s.id > id /\ s.state # "REJECTED")

OnStatus(c, s) ==
  LET p == pending[c].cmd
      answered == p # NoCmd /\ Answers(s, p.id)
  IN /\ maxSeen' = [maxSeen EXCEPT ![c] =
                      Larger2(@, IF s.state = "REJECTED" THEN s.wm ELSE s.id)]
     /\ acked' = [acked EXCEPT ![c] = IF answered THEN @ \cup {p.id} ELSE @]
     /\ pending' = [pending EXCEPT ![c] = IF answered THEN NoPending ELSE @]
     /\ UNCHANGED <<cmdId, ackFailed, callerPut, resendPut, route>>

\* Fault: one resend too many.
MayResend_OneMore(c) == pending[c].resends <= MaxResends

MayResend(c) == pending[c].resends < MaxResends

\* pump_resends under the lock, the pending command unanswered for ACK_TIMEOUT_S.
PumpResend(c) ==
  /\ resendPut[c] = NoCmd
  /\ pending[c].cmd # NoCmd
  /\ MayResend(c)
  /\ pending' = [pending EXCEPT ![c].resends = @ + 1]
  /\ resendPut' = [resendPut EXCEPT ![c] = pending[c].cmd]
  /\ UNCHANGED <<cmdId, maxSeen, acked, ackFailed, callerPut, route>>

\* Fault: the client gives up without a word.
FailedAfter_Silent(c) == ackFailed[c]

FailedAfter(c) == ackFailed[c] \cup {pending[c].cmd.id}

PumpGivesUp(c) ==
  /\ resendPut[c] = NoCmd
  /\ pending[c].cmd # NoCmd
  /\ ~MayResend(c)
  /\ ackFailed' = [ackFailed EXCEPT ![c] = FailedAfter(c)]
  /\ pending' = [pending EXCEPT ![c] = NoPending]
  /\ UNCHANGED <<cmdId, maxSeen, acked, callerPut, resendPut, route>>

\* control_put at the end of pump_resends.
PumpPuts(c) ==
  /\ resendPut[c] # NoCmd
  /\ resendPut' = [resendPut EXCEPT ![c] = NoCmd]
  /\ UNCHANGED <<cmdId, maxSeen, pending, acked, ackFailed, callerPut, route>>

\* The program is started again: its clock-seeded ids go on above the old ones.
ClientRestart(c) ==
  /\ cmdId[c] > 0
  /\ maxSeen' = [maxSeen EXCEPT ![c] = 0]
  /\ pending' = [pending EXCEPT ![c] = NoPending]
  /\ acked' = [acked EXCEPT ![c] = {}]
  /\ ackFailed' = [ackFailed EXCEPT ![c] = {}]
  /\ callerPut' = [callerPut EXCEPT ![c] = NoCmd]
  /\ resendPut' = [resendPut EXCEPT ![c] = NoCmd]
  /\ route' = [route EXCEPT ![c] = NoRoute]
  /\ UNCHANGED cmdId

===============================================================================
