------------------------------- MODULE Watchdog -------------------------------
(***************************************************************************)
(* body/watchdog.py: the process that turns a lost desktop heartbeat into  *)
(* a latched e-stop.  It keeps one latch (EStopState), a periodic loop     *)
(* that evaluates the heartbeat under a lock and publishes the outcome     *)
(* after releasing it, and two callbacks (heartbeat, re-arm) that run on   *)
(* other threads, hence between any two of those steps.                    *)
(*                                                                         *)
(* Time is counted in whole units.  Ages are capped where the code stops   *)
(* telling them apart, so no counter needs a bound.                        *)
(***************************************************************************)
EXTENDS Naturals

CONSTANTS
  HbTimeout,     \* watchdog.heartbeat_timeout_ms, in units
  StatusPeriod   \* 1 / watchdog.status_publish_hz, in units

ASSUME WatchdogAssumption ==
  /\ HbTimeout \in Nat \ {0}
  /\ StatusPeriod \in Nat \ {0}

VARIABLES
  wdLatched,     \* EStopState.e_stop_active
  wdAnnounced,   \* EStopState.hb_lost_announced
  wdHbAge,       \* units since last_hb; HbTimeout also stands for "never"
  wdDue,         \* units until next_status
  wdWake,        \* the publish_now event
  wdPhase,       \* "wait": in the inner wait; "publish": lock released, not yet published
  wdReport       \* what the loop body computed under the lock

wdVars == <<wdLatched, wdAnnounced, wdHbAge, wdDue, wdWake, wdPhase, wdReport>>

(***************************************************************************)
(* A report carries e_stop_active and whether an emergency_stop goes out   *)
(* with it.  rearmed is a history field that the code does not have: it    *)
(* becomes TRUE when the watchdog accepts a re-arm after taking the report.*)
(***************************************************************************)
Report(emergency, latched) ==
  [emergency |-> emergency, latched |-> latched, rearmed |-> FALSE]

NoReport == Report(FALSE, FALSE)

Reports == [emergency : BOOLEAN, latched : BOOLEAN, rearmed : BOOLEAN]

WdTypeOK ==
  /\ wdLatched \in BOOLEAN
  /\ wdAnnounced \in BOOLEAN
  /\ wdHbAge \in 0 .. HbTimeout
  /\ wdDue \in 0 .. StatusPeriod
  /\ wdWake \in BOOLEAN
  /\ wdPhase \in {"wait", "publish"}
  /\ wdReport \in Reports

\* The process has just started: nothing latched, no heartbeat seen.
WdInit ==
  /\ wdLatched = FALSE
  /\ wdAnnounced = FALSE
  /\ wdHbAge = HbTimeout
  /\ wdDue = 0
  /\ wdWake = FALSE
  /\ wdPhase = "wait"
  /\ wdReport = NoReport

WdHbOk == wdHbAge < HbTimeout

\* The inner loop's test for an early evaluation.
WdNewlyLost == ~WdHbOk /\ ~wdAnnounced

\* on_heartbeat
WdHeartbeat ==
  /\ wdHbAge' = 0
  /\ UNCHANGED <<wdLatched, wdAnnounced, wdDue, wdWake, wdPhase, wdReport>>

\* Fault: a re-arm is accepted without a heartbeat.
WdRearmAccepted_NoHeartbeat == wdLatched

\* EStopState.rearm accepted or refused; publish_now is set when it cleared.
WdRearmAccepted == wdLatched /\ WdHbOk

WdRearm ==
  /\ wdLatched' = (wdLatched /\ ~WdRearmAccepted)
  /\ wdWake' = (wdWake \/ WdRearmAccepted)
  /\ wdReport' = IF WdRearmAccepted /\ wdPhase = "publish"
                   THEN [wdReport EXCEPT !.rearmed = TRUE]
                   ELSE wdReport
  /\ UNCHANGED <<wdAnnounced, wdHbAge, wdDue, wdPhase>>

\* The loop has something to do: status due, woken by a re-arm, heartbeat just lost.
WdReady == wdDue = 0 \/ wdWake \/ WdNewlyLost

\* Fault: the flag is never cleared.
WdAnnouncedAfter_Sticky == wdAnnounced \/ ~WdHbOk

\* update_heartbeat: what hb_lost_announced and e_stop_active become.
WdAnnouncedAfter == ~WdHbOk

\* Fault: the latch follows the heartbeat.
WdLatchedAfter_Unlatches == ~WdHbOk

WdLatchedAfter == wdLatched \/ WdNewlyLost

\* Fault: the event is reported instead of the level.
WdLevel_Event == WdNewlyLost

\* e_stop_active as body/status carries it.
WdLevel == WdLatchedAfter

(***************************************************************************)
(* The locked half of the loop body: update_heartbeat, then the snapshot   *)
(* of the latch that will be published.  publish_now is consumed where the *)
(* wait returned because of it; it stays set where the inner loop ended    *)
(* with the period, or on a heartbeat just lost.                           *)
(***************************************************************************)
WdEvaluate ==
  /\ wdPhase = "wait"
  /\ \/ wdWake /\ wdDue # 0 /\ wdWake' = FALSE
     \/ wdDue = 0 /\ UNCHANGED wdWake
     \/ WdNewlyLost /\ UNCHANGED wdWake
  /\ wdLatched' = WdLatchedAfter
  /\ wdAnnounced' = WdAnnouncedAfter
  /\ wdReport' = Report(WdNewlyLost, WdLevel)
  /\ wdPhase' = "publish"
  /\ wdDue' = StatusPeriod
  /\ UNCHANGED wdHbAge

\* The unlocked half: the report leaves the process (SafetyLayer sends it).
WdPublish ==
  /\ wdPhase = "publish"
  /\ wdPhase' = "wait"
  /\ wdReport' = NoReport
  /\ UNCHANGED <<wdLatched, wdAnnounced, wdHbAge, wdDue, wdWake>>

\* One unit of time passes.
WdAge ==
  /\ wdHbAge' = IF WdHbOk THEN wdHbAge + 1 ELSE wdHbAge
  /\ wdDue' = IF wdDue = 0 THEN 0 ELSE wdDue - 1
  /\ UNCHANGED <<wdLatched, wdAnnounced, wdWake, wdPhase, wdReport>>

===============================================================================
