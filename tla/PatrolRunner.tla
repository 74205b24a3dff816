----------------------------- MODULE PatrolRunner ------------------------------
(***************************************************************************)
(* desktop/nav/patrol.py, PatrolRunner: which waypoint of a patrol comes   *)
(* next.  Of the count of legs only none, one or more is ever asked for.   *)
(***************************************************************************)
EXTENDS Integers

CONSTANTS Patrols   \* records [n, loop, laps, must]; laps = 0: None; must: must_visit

ASSUME PatrolAssumption ==
  \A p \in Patrols : /\ p.n \in Nat \ {0} /\ p.laps \in Nat
                     /\ p.loop \in BOOLEAN
                     /\ p.must \subseteq 0 .. p.n - 1

VARIABLES patrol, wp, lap, legs

patrolVars == <<patrol, wp, lap, legs>>

RunnerTypeOK ==
  /\ patrol \in Patrols
  /\ wp \in 0 .. patrol.n - 1
  /\ lap \in Nat
  /\ legs \in 0 .. 2

RunnerInit ==
  /\ patrol \in Patrols
  /\ wp = 0 /\ lap = 0 /\ legs = 0

NewPatrol ==
  /\ patrol' \in Patrols
  /\ wp' = 0 /\ lap' = 0 /\ legs' = 0

LastIndex == patrol.n - 1

IsTerminalLeg ==
  IF patrol.loop THEN legs >= 1 /\ wp = 0 /\ patrol.laps # 0 /\ lap + 1 >= patrol.laps
  ELSE wp = LastIndex

\* Arriving at the first waypoint for the first time closes no lap.
ClosesLap == patrol.loop /\ legs >= 1 /\ wp = 0

Ends == IF patrol.loop THEN ClosesLap /\ patrol.laps # 0 /\ lap + 1 >= patrol.laps
        ELSE wp = LastIndex

OnArrived ==
  /\ legs' = IF legs = 2 THEN 2 ELSE legs + 1
  /\ lap' = IF ClosesLap THEN lap + 1 ELSE lap
  /\ wp' = IF Ends THEN wp ELSE IF wp = LastIndex /\ patrol.n > 1 THEN 0
           ELSE IF patrol.n > 1 THEN wp + 1 ELSE 0
  /\ UNCHANGED patrol

===============================================================================
