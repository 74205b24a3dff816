-------------------------------- MODULE Recovery -------------------------------
(***************************************************************************)
(* desktop/nav/recovery.py: the supervisor that gets a drive going again   *)
(* after a fault, with the hooks main_window.py gives it.  The e-stop of   *)
(* the robot belongs to it here, as only a recovery looks at it: while     *)
(* none is active its state is of no interest and is reset.                *)
(***************************************************************************)
EXTENDS Integers, Sequences

CONSTANTS
  StableLink,      \* stable_link_s: how long the link must be up, by recent faults
  VerifyTimeout,   \* verify_timeout_s
  Backoffs,        \* relocalize_backoff_s
  MaxRelocalize,   \* max_relocalize_per_fault
  RearmGap         \* _rearm_gap_s

ASSUME RecoveryAssumption ==
  /\ StableLink \in Seq(Nat) /\ StableLink # <<>>
  /\ Backoffs \in Seq(Nat) /\ Backoffs # <<>>
  /\ {VerifyTimeout, MaxRelocalize, RearmGap} \subseteq Nat

VARIABLES
  phase,
  stableReq,
  stable,      \* time since _stable_since, as far as it matters; None: not up
  wait,        \* time until verify_timeout_s or _next_try, whichever is running
  fails,       \* _reloc_fails, as far as it matters
  relocs,
  gap,         \* time until the next re-arm may be tried
  latch,       \* the robot's e-stop: off, or what latched it
  atStart,     \* LinkEStopGuard._active_at_start
  heard        \* the reason of the last emergency_stop heard during the fault

recVars == <<phase, stableReq, stable, wait, fails, relocs, gap, latch, atStart, heard>>

None == -1
MaxOf(s) == CHOOSE m \in {s[i] : i \in DOMAIN s} : \A i \in DOMAIN s : s[i] <= m
At(s, i) == s[IF i < Len(s) THEN i + 1 ELSE Len(s)]
Lower(a, b) == IF a <= b THEN a ELSE b

Causes == {"link", "other"}

RecTypeOK ==
  /\ phase \in {"idle", "wait_link", "verify", "relocalize_wait"}
  /\ stableReq \in 0 .. MaxOf(StableLink)
  /\ stable \in None .. MaxOf(StableLink)
  /\ wait \in 0 .. VerifyTimeout + MaxOf(Backoffs)
  /\ fails \in 0 .. Len(Backoffs) - 1
  /\ relocs \in 0 .. MaxRelocalize
  /\ gap \in 0 .. RearmGap
  /\ latch \in {"off"} \cup Causes
  /\ atStart \in BOOLEAN
  /\ heard \in {"none"} \cup Causes

\* What the fields hold while no recovery is active decides nothing.
Idle ==
  /\ phase' = "idle"
  /\ stableReq' = 0 /\ stable' = None /\ wait' = 0
  /\ fails' = 0 /\ relocs' = 0
  /\ latch' = "off" /\ atStart' = TRUE /\ heard' = "none"

RecInit ==
  /\ phase = "idle"
  /\ stableReq = 0 /\ stable = None /\ wait = 0
  /\ fails = 0 /\ relocs = 0 /\ gap = 0
  /\ latch = "off" /\ atStart = TRUE /\ heard = "none"

RecCancel == Idle /\ UNCHANGED gap

Active == phase # "idle"

\* The e-stop may be latched already, by what the desktop knows or, if the link is
\* down, does not know.  The number of recent faults is any.
Begin(linkFault, linkOk) ==
  /\ phase' = "wait_link"
  /\ stableReq' \in IF linkFault THEN {StableLink[i] : i \in DOMAIN StableLink}
                    ELSE {StableLink[1]}
  /\ stable' = None /\ wait' = 0
  /\ fails' = 0 /\ relocs' = 0
  /\ latch' \in {"off"} \cup Causes
  /\ atStart' \in IF linkOk THEN {latch' # "off"} ELSE {FALSE, latch' # "off"}
  /\ heard' \in {"none", latch'} \ {"off"}
  /\ UNCHANGED gap

-------------------------------------------------------------------------------
(* step                                                                      *)

\* LinkEStopGuard.may_rearm
MayRearm == latch # "off" /\ ~atStart /\ heard \in {"none", "link"}

\* Fault: the gap is not waited out, and the wait for the link starts it again.
RearmDue_Never(linkOk) == FALSE

RearmDue(linkOk) ==
  linkOk /\ stable # None /\ stable >= StableLink[1] /\ gap = 0 /\ latch # "off"

\* A re-arm that is sent may be lost, or refused by the robot.
TryRearm(linkOk) ==
  IF RearmDue(linkOk)
  THEN gap' = RearmGap /\ latch' \in IF MayRearm THEN {latch, "off"} ELSE {latch}
  ELSE UNCHANGED <<gap, latch>>

GoTo(ph, w) == phase' = ph /\ wait' = w

Backoff ==
  /\ GoTo("relocalize_wait", At(Backoffs, fails))
  /\ fails' = Lower(fails + 1, Len(Backoffs) - 1)

\* Fault: a budget that is spent stays spent.
Relocalize_Spent ==
  IF relocs >= MaxRelocalize
  THEN Backoff /\ UNCHANGED relocs
  ELSE relocs' = relocs + 1 /\ (Backoff \/ (GoTo("verify", VerifyTimeout) /\ UNCHANGED fails))

\* Fault: an attempt that succeeds starts the back-off anew.
Relocalize_Forgets ==
  IF relocs >= MaxRelocalize
  THEN relocs' = 0 /\ Backoff
  ELSE /\ relocs' = relocs + 1
       /\ Backoff \/ (GoTo("verify", VerifyTimeout) /\ fails' = 0)

Relocalize ==
  IF relocs >= MaxRelocalize
  THEN relocs' = 0 /\ Backoff
  ELSE /\ relocs' = relocs + 1
       /\ \/ Backoff                                               \* it failed
          \/ GoTo("verify", VerifyTimeout) /\ UNCHANGED fails

LinkUp == stable' = IF stable = None THEN 0 ELSE stable

\* The wait for the link ends: the pose check starts and is polled at once.
LinkIsStable == phase = "wait_link" /\ stable' >= stableReq /\ latch = "off"

Checks == phase = "verify" \/ LinkIsStable

\* One step that does not resume.
Waits ==
  \/ /\ phase = "wait_link" /\ ~LinkIsStable
     /\ UNCHANGED <<phase, wait, fails, relocs>>
  \/ /\ LinkIsStable
     /\ GoTo("verify", VerifyTimeout)                             \* pending
     /\ UNCHANGED <<fails, relocs>>
  \/ /\ phase = "verify" /\ wait > 0                               \* pending
     /\ UNCHANGED <<phase, wait, fails, relocs>>
  \/ Checks /\ Relocalize                                          \* bad
  \/ /\ phase = "verify" /\ latch # "off"                          \* ok or unknown
     /\ GoTo("wait_link", 0)
     /\ UNCHANGED <<fails, relocs>>
  \/ /\ phase = "relocalize_wait"
     /\ IF wait > 0 THEN UNCHANGED <<phase, wait, fails, relocs>> ELSE Relocalize

LinkLost ==
  /\ stable' = None
  /\ GoTo("wait_link", 0)
  /\ UNCHANGED <<fails, relocs>>

\* The e-stop is asked for before a re-arm sent in the same step can have arrived.
RecWaits(linkOk) ==
  /\ Active
  /\ TryRearm(linkOk)
  /\ IF linkOk THEN LinkUp /\ Waits ELSE LinkLost
  /\ UNCHANGED <<stableReq, atStart, heard>>

\* The pose is ok or, when all checks are in, unknown.  A link that has just come back
\* may be stable enough at once.
MayResume ==
  /\ latch = "off"
  /\ \/ phase = "verify"
     \/ phase = "wait_link" /\ stableReq <= IF stable = None THEN 0 ELSE stable

RecResumes(linkOk) == linkOk /\ MayResume /\ RecCancel

\* d of time passes.
RecPasses(d) ==
  /\ stable' = IF stable = None THEN None ELSE Lower(stable + d, MaxOf(StableLink))
  /\ wait' = IF wait > d THEN wait - d ELSE 0
  /\ gap' = IF gap > d THEN gap - d ELSE 0
  /\ UNCHANGED <<phase, stableReq, fails, relocs, latch, atStart, heard>>

\* The watchdog latches when it misses the heartbeat, others when they like; what
\* they say may not be heard.
Latches(cause) ==
  /\ Active /\ latch = "off"
  /\ latch' = cause
  /\ heard' \in {heard, cause}
  /\ UNCHANGED <<phase, stableReq, stable, wait, fails, relocs, gap, atStart>>

OperatorRearms ==
  /\ Active /\ latch # "off"
  /\ latch' = "off"
  /\ UNCHANGED <<phase, stableReq, stable, wait, fails, relocs, gap, atStart, heard>>

===============================================================================
