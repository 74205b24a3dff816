------------------------------- MODULE Tier3Proofs ------------------------------
(***************************************************************************)
(* Proofs about Tier3Drive, for all limits, goals and lengths of a tick.   *)
(***************************************************************************)
EXTENDS Tier3Drive, TLAPS

Counted ==
  /\ clk \in [start : Nat, move : Nat, prog : Nat, rx : Nat]
  /\ {spun, unfed, stuck, aged, sent, zeros} \subseteq Nat
  /\ credit \in Int /\ token \in BOOLEAN
  /\ want \in Goal \cup {NoGoal} /\ terminal \in Terminals

\* Each history is bounded by the clock of the controller that stands for it.
ClocksCover ==
  /\ spun <= clk.move /\ spun <= RotateTimeout + 1
  /\ stuck <= clk.prog
  /\ ctl.path => unfed <= clk.rx
  /\ HasGoal(ctl) /\ ~ctl.path => aged <= clk.start

\* The zeros of a terminal block are those that were sent since.
TerminalInv ==
  /\ sent = zeros /\ zeros <= TerminalZeros
  /\ terminal = "none" => zeros = 0
  /\ terminal # "none" => motion = "stop"

\* A goal that is let pass is not late, and a token is a continue that nobody has used.
PassInv ==
  /\ at = "go" => terminal = "none" /\ ~DeadlineHit /\ ~PathStale
  /\ token /\ at # "go" => credit = 1
  /\ credit >= 0
  /\ isRefreshed => want.path

Bounded == RotationBounded /\ GotoEndsByDeadline /\ StalePathStops /\ StuckIsNoticed

Tier3Inv == Counted /\ ClocksCover /\ TerminalInv /\ PassInv /\ Bounded

\* Between two ticks nothing of what the controller promises is touched.
LEMMA Others ==
  ASSUME Tier3Inv, NewGoal \/ Refresh \/ Cancel \/ Inspector \/ UNCHANGED vars
  PROVE  Tier3Inv'
  <1>1. UNCHANGED <<ctlVars, spun, unfed, stuck, aged, sent>>
    BY DEF NewGoal, Refresh, Cancel, Inspector, vars, hist
  <1>2. want' \in Goal \cup {NoGoal} /\ (isRefreshed' => want'.path)
    <2>1. CASE NewGoal
      BY <2>1, DriveAssumption DEF NewGoal, DriveAssumption
    <2>2. CASE Refresh
      <3>1. want \in Goal
        BY <2>2 DEF Refresh, Tier3Inv, Counted, NoGoal
      <3>2. PICK last \in BOOLEAN : want' = [want EXCEPT !.last = last]
        BY <2>2 DEF Refresh
      <3> QED
        BY <2>2, <3>1, <3>2 DEF Refresh, Goal
    <2>3. CASE Cancel
      BY <2>3 DEF Cancel
    <2>4. CASE UNCHANGED wantVars
      BY <2>4 DEF wantVars, Tier3Inv, Counted, PassInv
    <2> QED
      BY <2>1, <2>2, <2>3, <2>4 DEF Inspector, vars
  <1>3. /\ token' /\ at # "go" => credit' = 1
        /\ credit' \in Int /\ credit' >= 0 /\ token' \in BOOLEAN
    <2>1. credit \in Int /\ credit >= 0 /\ token \in BOOLEAN /\ (token /\ at # "go" => credit = 1)
      BY DEF Tier3Inv, PassInv, Counted
    <2>2. CASE Inspector
      <3>1. CASE \E lease \in MsgLeases : Arm(lease) /\ silent' = 0 /\ UNCHANGED credit
        BY <2>1, <3>1 DEF Arm
      <3>2. CASE Disarm /\ credit' = Least(credit, 0)
        <4>1. ~token' /\ token' \in BOOLEAN
          BY <3>2 DEF Disarm
        <4>2. credit' = 0
          BY <2>1, <3>2 DEF Least
        <4> QED
          BY <4>1, <4>2
      <3>3. CASE Continue /\ credit' = 1
        BY <2>1, <3>3 DEF Continue
      <3> QED
        BY <2>2, <3>1, <3>2, <3>3, Zenon DEF Inspector
    <2>3. CASE UNCHANGED <<token, credit>>
      BY <2>1, <2>3
    <2> QED
      BY <2>2, <2>3 DEF NewGoal, Refresh, Cancel, gateVars, hist, vars
  <1>4. Counted' /\ ClocksCover' /\ TerminalInv' /\ Bounded'
    BY <1>1, <1>2, <1>3 DEF Tier3Inv, Counted, ClocksCover, TerminalInv, Bounded, ctlVars,
          RotationBounded, GotoEndsByDeadline, StalePathStops, StuckIsNoticed
  <1>5. PassInv'
    BY <1>1, <1>2, <1>3 DEF Tier3Inv, PassInv, DeadlineHit, PathStale, ctlVars
  <1> QED
    BY <1>4, <1>5 DEF Tier3Inv

\* A step of the controller stops, turns, goes, ends in a terminal block or is let pass.
Stops ==
  /\ motion' = "stop" /\ report' \notin {"adopt", "follow"}
  /\ clk' = clk \/ clk' = ProgReset
     \/ (clk' = [clk EXCEPT !.prog = 0, !.move = 0] /\ report' \in {"held", "starved"})
  /\ ctl' = NoGoal \/ (ctl' = ctl /\ ~DeadlineHit)

Turns ==
  /\ motion' = "turn" /\ report' = "turn" /\ ~RotationSpent
  /\ clk' = clk \/ clk' = ProgReset
  /\ ctl' = ctl /\ ~DeadlineHit

Goes ==
  /\ motion' = Speed /\ ctl' = ctl /\ ~DeadlineHit /\ ~PathStale
  /\ \/ report' = "gain" /\ clk' = ProgReset
     \/ report' = "adopt" /\ clk' = clk
     \/ report' = "follow" /\ clk' = clk /\ clk.prog <= NoProgress

Outcome ==
  \/ /\ Stops \/ Turns \/ Goes
     /\ terminal = "none" /\ UNCHANGED <<terminal, zeros>>
     /\ at' = "wait" /\ quiet' = FALSE
  \/ \E reason \in Terminals \ {"none"} : EnterTerminal(reason)
  \/ StayTerminal
  \/ StepPasses

LEMMA Steps ==
  ASSUME Tier3Inv, TickSteps
  PROVE  Tier3Inv'
  <1>0. /\ Counted /\ ClocksCover /\ TerminalInv /\ PassInv
        /\ UNCHANGED <<unfed, aged>>
        /\ at = "go" => terminal = "none" /\ ~DeadlineHit /\ ~PathStale
        /\ terminal = "none" => zeros = 0
        /\ RotateTimeout \in Nat /\ Deadline \in Nat /\ NoProgress \in Nat
        /\ Ttl \in Nat /\ Stale \in Nat
        /\ TerminalZeros \in Nat /\ TerminalZeros > 0
    BY Tier3Assumption DEF Tier3Assumption, Tier3Inv, TickSteps, PassInv, TerminalInv
  <1>1. Outcome
    <2>1. CASE StepWithoutCommand
      <3>1. CASE AtGoal
        BY <2>1, <3>1, <1>0
           DEF StepWithoutCommand, AtGoal, Outcome, Arrived, Result, keptVars, Terminals, Stops, Turns
      <3>2. CASE DeadlineHit /\ EnterTerminal("deadline")
        BY <3>2 DEF Terminals, Outcome
      <3>3. CASE ~DeadlineHit /\ (Blocked \/ AtHorizon \/ (~ctl.path /\ Arrived))
        BY <2>1, <3>3 DEF StepWithoutCommand, Blocked, AtHorizon, Arrived, Result, keptVars, Outcome, Stops
      <3> QED
        BY <2>1, <3>1, <3>2, <3>3 DEF StepWithoutCommand, NoPlan
    <2>2. CASE StepVetoed
      <3>1. CASE Blocked
        BY <2>2, <3>1 DEF StepVetoed, MayGo, Blocked, Result, keptVars, Outcome, Stops
      <3>2. CASE SweptBlocked
        BY <2>2, <3>2, <1>0 DEF StepVetoed, MayGo, SweptBlocked, Terminals, Blocked, Result,
                           keptVars, Outcome, Stops, Turns
      <3> QED
        BY <2>2, <3>1, <3>2 DEF StepVetoed
    <2>3. CASE StepHeld
      BY <2>3 DEF StepHeld, MayGo, Result, keptVars, Outcome, Stops
    <2>4. CASE StepPasses
      BY <2>4 DEF Outcome
    <2>5. CASE StepGoes
      <3>1. CASE GoTurn
        BY <2>5, <3>1, <1>0 DEF StepGoes, GoTurn, Terminals, Result, keptVars, Outcome, Turns
      <3>2. CASE GoForward
        BY <2>5, <3>2, <1>0 DEF StepGoes, GoForward, Forward, Result, keptVars, Outcome, Stops, Goes
      <3> QED
        BY <2>5, <3>1, <3>2 DEF StepGoes
    <2>6. CASE StayTerminal
      BY <2>6 DEF Outcome
    <2> QED
      BY <2>1, <2>2, <2>3, <2>4, <2>5, <2>6 DEF TickSteps, Step
  <1>2. /\ credit' \in Int /\ credit' >= 0 /\ token' \in BOOLEAN
        /\ token' /\ at' # "go" => credit' = 1
    <2>0. credit \in Int /\ credit >= 0 /\ token \in BOOLEAN /\ (token /\ at # "go" => credit = 1)
      BY <1>0 DEF Counted, PassInv
    <2>1. CASE StepPasses
      <3>1. at = "step" /\ at' = "go" /\ (token' \in BOOLEAN) /\ (armed' => token)
        BY <2>0, <2>1 DEF StepPasses, MayGo, ShouldHold, CheckLease, Disarm, gateVars
      <3>2. credit' = IF armed' THEN credit - 1 ELSE credit
        BY <3>1 DEF TickSteps
      <3> QED
        BY <2>0, <3>1, <3>2
    <2>2. ASSUME ~StepPasses PROVE at' = "wait" /\ credit' = credit
      <3>1. at' = "wait"
        BY <1>1, <2>2 DEF Outcome, EnterTerminal, StayTerminal, Terminal
      <3> QED
        BY <3>1 DEF TickSteps
    <2>3. ASSUME ~StepPasses PROVE token' \in BOOLEAN /\ (token' => token /\ at = "step")
      <3>1. CASE StepGoes
        BY <3>1 DEF StepGoes, ConsumeContinue
      <3>2. CASE at = "step" /\ (CheckLease \/ UNCHANGED gateVars)
        <4>1. Disarm => ~token' /\ token' \in BOOLEAN
          BY DEF Disarm
        <4>2. Disarm \/ UNCHANGED token
          BY <3>2 DEF CheckLease, gateVars
        <4> QED
          BY <2>0, <3>2, <4>1, <4>2
      <3> QED
        BY <2>3, <3>1, <3>2 DEF TickSteps, Step, StepWithoutCommand, StepVetoed, StepHeld,
           StayTerminal, MayGo
    <2> QED
      BY <2>0, <2>1, <2>2, <2>3
  <1>3. want' \in Goal \cup {NoGoal} /\ (isRefreshed' => want'.path)
    BY <1>0 DEF TickSteps, Counted, PassInv, wantVars
  <1>4. ASSUME Stops \/ Turns \/ Goes, terminal = "none", UNCHANGED <<terminal, zeros>>,
               at' = "wait", quiet' = FALSE
        PROVE  Tier3Inv'
    <2>1. /\ spun' = IF report' \in {"held", "starved"} THEN 0 ELSE spun
          /\ sent' = sent
          /\ stuck' = IF report' \in {"adopt", "follow"} THEN stuck ELSE 0
      BY <1>4 DEF TickSteps
    <2>2. /\ clk' \in [start : Nat, move : Nat, prog : Nat, rx : Nat]
          /\ clk'.start = clk.start /\ clk'.rx = clk.rx
          /\ spun' <= clk'.move /\ spun' <= RotateTimeout + 1 /\ stuck' <= clk'.prog
      <3>1. clk \in [start : Nat, move : Nat, prog : Nat, rx : Nat]
        BY <1>0 DEF Counted
      <3>2. CASE clk' = clk /\ report' \notin {"held", "starved"}
        BY <1>0, <2>1, <3>1, <3>2 DEF Counted, ClocksCover
      <3>3. CASE clk' = ProgReset /\ report' \notin {"adopt", "follow"}
        <4>1. /\ clk' \in [start : Nat, move : Nat, prog : Nat, rx : Nat] /\ clk'.prog = 0
              /\ clk'.start = clk.start /\ clk'.move = clk.move /\ clk'.rx = clk.rx
          BY <3>1, <3>3 DEF ProgReset
        <4> QED
          <5>1. /\ spun' = 0 \/ spun' = spun
                /\ stuck' = 0
            BY <2>1, <3>3
          <5>2. /\ spun \in Nat /\ spun <= clk.move /\ spun <= RotateTimeout + 1
                /\ clk.move \in Nat
            BY <1>0, <3>1 DEF Counted, ClocksCover
          <5> QED
            BY <1>0, <4>1, <5>1, <5>2
      <3>4. CASE clk' = [clk EXCEPT !.prog = 0, !.move = 0] /\ report' \in {"held", "starved"}
        <4>1. /\ clk' \in [start : Nat, move : Nat, prog : Nat, rx : Nat] /\ clk'.prog = 0
              /\ clk'.start = clk.start /\ clk'.move = 0 /\ clk'.rx = clk.rx
          BY <3>1, <3>4
        <4> QED
          <5>1. spun' = 0 /\ stuck' = 0
            BY <2>1, <3>4
          <5> QED
            BY <1>0, <4>1, <5>1
      <3>5. CASE clk' = clk /\ report' \in {"held", "starved"}
        BY <1>0, <2>1, <3>1, <3>5 DEF Counted, ClocksCover
      <3> QED
        BY <1>4, <3>2, <3>3, <3>4, <3>5 DEF Stops, Turns, Goes
    <2>3. Counted'
      BY <1>0, <1>2, <1>3, <1>4, <2>1, <2>2 DEF Counted
    <2>4. ClocksCover'
      BY <1>0, <1>4, <2>2 DEF ClocksCover, Stops, Turns, Goes, NoGoal, HasGoal
    <2>5. TerminalInv' /\ PassInv'
      BY <1>0, <1>2, <1>3, <1>4, <2>1 DEF TerminalInv, PassInv
    <2>6. /\ {clk.move, clk.prog, clk.start, clk.rx} \subseteq Nat
          /\ {spun, stuck, aged, unfed} \subseteq Nat
          /\ spun <= clk.move /\ stuck <= clk.prog
          /\ ctl.path => unfed <= clk.rx
          /\ HasGoal(ctl) /\ ~ctl.path => aged <= clk.start
      BY <1>0 DEF Counted, ClocksCover
    <2>7. RotationBounded'
      <3>1. motion' = "turn" => spun' = spun /\ ~RotationSpent
        BY <1>4, <2>1 DEF Stops, Turns, Goes, Speed
      <3> QED
        BY <1>0, <2>6, <3>1 DEF RotationBounded, RotationSpent
    <2>8. StuckIsNoticed'
      <3>1. report' = "follow" => stuck' = stuck /\ clk.prog <= NoProgress
        BY <1>4, <2>1 DEF Stops, Turns, Goes
      <3> QED
        BY <1>0, <2>6, <3>1 DEF StuckIsNoticed
    <2>9. GotoEndsByDeadline'
      <3>1. ~HasGoal(ctl') \/ (ctl' = ctl /\ ~DeadlineHit)
        BY <1>4 DEF Stops, Turns, Goes, HasGoal
      <3> QED
        BY <1>0, <2>6, <3>1 DEF GotoEndsByDeadline, DeadlineHit, HasGoal
    <2>10. StalePathStops'
      <3>1. motion' \in {"stop", "turn"} \/ (motion' = Speed /\ ctl' = ctl /\ ~PathStale)
        BY <1>4 DEF Stops, Turns, Goes
      <3> QED
        BY <1>0, <2>6, <3>1 DEF StalePathStops, Speed, PathStale
    <2> QED
      BY <2>3, <2>4, <2>5, <2>7, <2>8, <2>9, <2>10 DEF Tier3Inv, Bounded
  <1>5. ASSUME NEW reason \in Terminals \ {"none"}, NEW n \in Nat, n = zeros,
               Terminal(reason, n), terminal = "none" \/ terminal = reason
        PROVE  Tier3Inv'
    <2>1. /\ UNCHANGED <<ctl, clk>> /\ at' = "wait" /\ report' = "blocked"
          /\ terminal' = reason /\ zeros' = IF n < TerminalZeros THEN n + 1 ELSE TerminalZeros
          /\ n < TerminalZeros => motion' = "stop" /\ ~quiet'
          /\ n >= TerminalZeros => motion' = motion /\ quiet'
      <3>1. /\ UNCHANGED <<ctl, clk>> /\ at' = "wait" /\ report' = "blocked"
            /\ terminal' = reason /\ zeros' = Least(n + 1, TerminalZeros)
            /\ motion' = IF quiet' THEN motion ELSE "stop"
        BY <1>5 DEF Terminal
      <3>2. n >= TerminalZeros => quiet'
        BY <1>5, Zenon DEF Terminal
      <3>3. ~(n >= TerminalZeros) => ~quiet'
        BY <1>5, Zenon DEF Terminal
      <3>4. zeros' = IF n < TerminalZeros THEN n + 1 ELSE TerminalZeros
        BY <1>0, <1>5, <3>1 DEF Least
      <3>5. n < TerminalZeros <=> ~(n >= TerminalZeros)
        BY <1>0, <1>5
      <3> QED
        BY <3>1, <3>2, <3>3, <3>4, <3>5
    <2>2. motion' = "stop"
      BY <1>0, <1>5, <2>1 DEF TerminalInv
    <2>3. spun' = spun /\ stuck' = 0
      BY <2>1 DEF TickSteps
    <2>4. sent' = zeros' /\ sent' \in Nat /\ sent' <= TerminalZeros
      BY <1>0, <1>5, <2>1 DEF TickSteps, TerminalInv, Counted, Least
    <2>5. Counted' /\ ClocksCover'
      BY <1>0, <1>2, <1>3, <2>1, <2>3, <2>4 DEF Counted, ClocksCover
    <2>6. TerminalInv' /\ PassInv'
      BY <1>2, <1>3, <1>5, <2>1, <2>2, <2>4 DEF TerminalInv, PassInv
    <2>7. Bounded'
      BY <1>5, <2>1, <2>2 DEF Bounded, RotationBounded, GotoEndsByDeadline, StalePathStops, StuckIsNoticed
    <2> QED
      BY <2>5, <2>6, <2>7 DEF Tier3Inv
  <1>6. CASE StepPasses
    <2>1. /\ UNCHANGED <<ctl, clk, zeros, terminal, motion, quiet>> /\ at' = "go"
          /\ terminal = "none" /\ ~DeadlineHit /\ ~PathStale
      BY <1>6 DEF StepPasses, MayGo
    <2>2. spun' \in {0, spun} /\ sent' = sent /\ stuck' = stuck
      BY <2>1 DEF TickSteps
    <2>3. Counted' /\ ClocksCover' /\ TerminalInv'
      BY <1>0, <1>2, <1>3, <2>1, <2>2 DEF Counted, ClocksCover, TerminalInv
    <2>4. PassInv'
      BY <1>2, <1>3, <2>1 DEF PassInv, DeadlineHit, PathStale
    <2>5. Bounded'
      BY <2>1 DEF Bounded, RotationBounded, GotoEndsByDeadline, StalePathStops, StuckIsNoticed
    <2> QED
      BY <2>3, <2>4, <2>5 DEF Tier3Inv
  <1>7. ASSUME NEW reason \in Terminals \ {"none"}, EnterTerminal(reason) PROVE Tier3Inv'
    <2>1. 0 \in Nat /\ 0 = zeros /\ Terminal(reason, 0) /\ terminal = "none"
      BY <1>0, <1>7 DEF EnterTerminal
    <2> QED
      BY <2>1, <1>5
  <1>8. CASE StayTerminal
    <2>1. terminal \in Terminals \ {"none"} /\ zeros \in Nat /\ Terminal(terminal, zeros)
      BY <1>0, <1>8 DEF StayTerminal, Counted
    <2> QED
      BY <2>1, <1>5
  <1> QED
    BY <1>1, <1>4, <1>6, <1>7, <1>8 DEF Outcome

(***************************************************************************)
(* Whatever goals, refreshes, cancels and messages of the inspector arrive *)
(* between any two steps of a tick, and whatever planner and vetoes answer: *)
(* the robot does not turn, follow an old path, or push on without         *)
(* progress for longer than its limits, a late goto and one blocked for    *)
(* good do not move it again, and no handoff passes without a continue.    *)
(***************************************************************************)
THEOREM ControllerIsBounded ==
  Spec => [](/\ RotationBounded /\ GotoEndsByDeadline /\ StalePathStops
             /\ StuckIsNoticed /\ TerminalIsFinal /\ OneHandoffPerContinue)
  <1>0. /\ RotateTimeout \in Nat /\ Deadline \in Nat /\ NoProgress \in Nat
        /\ Ttl \in Nat /\ Stale \in Nat /\ TerminalZeros \in Nat /\ TerminalZeros > 0
        /\ MaxStep \in Nat
    BY Tier3Assumption, DriveAssumption DEF Tier3Assumption, DriveAssumption
  <1>1. Init => Tier3Inv
    <2> SUFFICES ASSUME Init PROVE Tier3Inv
      OBVIOUS
    <2>1. /\ ctl = NoGoal /\ ~NoGoal.path /\ want = NoGoal /\ terminal = "none" /\ zeros = 0
          /\ at = "wait" /\ motion = "stop" /\ report = "idle" /\ ~token /\ token \in BOOLEAN
          /\ credit = 0 /\ ~isRefreshed
      BY DEF Init, CtlInit, GateInit, NoGoal
    <2>2. /\ clk.start = 0 /\ clk.move = 0 /\ clk.prog = 0 /\ clk.rx = 0
          /\ clk \in [start : Nat, move : Nat, prog : Nat, rx : Nat]
      BY DEF Init, CtlInit, Started
    <2>3. spun = 0 /\ unfed = 0 /\ stuck = 0 /\ aged = 0 /\ sent = 0
      BY DEF Init
    <2>4. Counted /\ ClocksCover
      BY <1>0, <2>1, <2>2, <2>3 DEF Counted, ClocksCover, Terminals, HasGoal
    <2>5. TerminalInv /\ PassInv /\ Bounded
      BY <1>0, <2>1, <2>3 DEF TerminalInv, PassInv, Bounded, RotationBounded, GotoEndsByDeadline,
                              StalePathStops, StuckIsNoticed
    <2> QED
      BY <2>4, <2>5 DEF Tier3Inv
  <1>2. Tier3Inv /\ [Next]_vars => Tier3Inv'
    <2> SUFFICES ASSUME Tier3Inv, [Next]_vars PROVE Tier3Inv'
      OBVIOUS
    <2>0. Counted /\ ClocksCover /\ TerminalInv /\ PassInv
      BY DEF Tier3Inv
    <2>a. /\ clk.move \in Nat /\ clk.prog \in Nat /\ clk.start \in Nat /\ clk.rx \in Nat
          /\ spun \in Nat /\ stuck \in Nat /\ aged \in Nat /\ unfed \in Nat
          /\ spun <= clk.move /\ spun <= RotateTimeout + 1 /\ stuck <= clk.prog
          /\ ctl.path => unfed <= clk.rx
          /\ HasGoal(ctl) /\ ~ctl.path => aged <= clk.start
      BY <2>0 DEF Counted, ClocksCover
    <2>b. ASSUME UNCHANGED <<token, credit>>, at = "wait"
          PROVE  /\ credit' \in Int /\ credit' >= 0 /\ token' \in BOOLEAN
                 /\ token' => credit' = 1
      BY <2>0, <2>b DEF Counted, PassInv
    <2>c. Started.start = 0 /\ Started.move = 0 /\ Started.prog = 0 /\ Started.rx = 0
          /\ Started \in [start : Nat, move : Nat, prog : Nat, rx : Nat]
      BY DEF Started
    <2>d. ASSUME NEW d \in Nat
          PROVE  /\ Later(d) \in [start : Nat, move : Nat, prog : Nat, rx : Nat]
                 /\ Later(d).start = IF ctl.path THEN 0 ELSE Least(clk.start + d, Deadline + 1)
                 /\ Later(d).move = Least(clk.move + d, RotateTimeout + 1)
                 /\ Later(d).prog = Least(clk.prog + d, NoProgress + 1)
                 /\ Later(d).rx = IF ctl.path THEN Least(clk.rx + d, Stale + 1) ELSE 0
      BY <1>0, <2>a DEF Later, Least
    <2>e. ASSUME NEW d \in Nat
          PROVE  /\ Least(spun + d, RotateTimeout + 1) \in Nat
                 /\ Least(spun + d, RotateTimeout + 1) <= RotateTimeout + 1
                 /\ Least(spun + d, RotateTimeout + 1) <= Least(clk.move + d, RotateTimeout + 1)
                 /\ spun <= Least(clk.move + d, RotateTimeout + 1)
                 /\ Least(stuck + d, NoProgress + 1) \in Nat
                 /\ Least(stuck + d, NoProgress + 1) <= Least(clk.prog + d, NoProgress + 1)
                 /\ 0 <= Least(clk.prog + d, NoProgress + 1)
                 /\ Least(aged + d, Deadline + 1) \in Nat
                 /\ aged <= clk.start => Least(aged + d, Deadline + 1) <= Least(clk.start + d, Deadline + 1)
                 /\ Least(unfed + d, Stale + 1) \in Nat
                 /\ unfed <= clk.rx => Least(unfed + d, Stale + 1) <= Least(clk.rx + d, Stale + 1)
      BY <1>0, <2>a DEF Least
    <2>f. ASSUME NEW d \in Nat,
                 \/ ctl' = ctl /\ clk' = Later(d)
                 \/ ctl' = ctl /\ clk' = [Later(d) EXCEPT !.move = 0] /\ spun' = 0,
                 spun' \in {0, spun, Least(spun + d, RotateTimeout + 1)},
                 stuck' \in {0, Least(stuck + d, NoProgress + 1)},
                 aged' = IF ctl.path THEN 0 ELSE Least(aged + d, Deadline + 1),
                 unfed' = IF ctl.path THEN Least(unfed + d, Stale + 1) ELSE 0
          PROVE  /\ clk' \in [start : Nat, move : Nat, prog : Nat, rx : Nat]
                 /\ spun' \in Nat /\ stuck' \in Nat /\ aged' \in Nat /\ unfed' \in Nat
                 /\ ClocksCover'
      <3>1. /\ clk' \in [start : Nat, move : Nat, prog : Nat, rx : Nat]
            /\ clk'.start = Later(d).start /\ clk'.prog = Later(d).prog /\ clk'.rx = Later(d).rx
            /\ clk'.move = Later(d).move \/ (clk'.move = 0 /\ spun' = 0)
        BY <2>d, <2>f
      <3>2. /\ spun' \in Nat /\ stuck' \in Nat /\ aged' \in Nat /\ unfed' \in Nat
            /\ spun' <= clk'.move /\ spun' <= RotateTimeout + 1 /\ stuck' <= clk'.prog
        BY <1>0, <2>a, <2>d, <2>e, <2>f, <3>1
      <3>3. /\ ctl'.path => unfed' <= clk'.rx
            /\ HasGoal(ctl') /\ ~ctl'.path => aged' <= clk'.start
        BY <2>a, <2>d, <2>e, <2>f, <3>1
      <3> QED
        BY <3>1, <3>2, <3>3 DEF ClocksCover
    <2>1. ASSUME NEW d \in 1 .. MaxStep, TickIdle(d) PROVE Tier3Inv'
      <3>1. /\ ctl' = NoGoal /\ ~NoGoal.path /\ clk' = Started /\ terminal' = "none" /\ zeros' = 0
            /\ motion' = "stop" /\ report' = "idle" /\ at' = "wait" /\ at = "wait"
            /\ UNCHANGED <<wantVars, credit, token>>
            /\ spun' = 0 /\ unfed' = 0 /\ stuck' = 0 /\ aged' = 0 /\ sent' = 0
        BY <2>1 DEF TickIdle, StartGoal, GatePasses, NewHistory, NoGoal
      <3>2. Counted' /\ ClocksCover'
        BY <1>0, <2>0, <2>b, <2>c, <3>1 DEF Counted, ClocksCover, wantVars, Terminals, HasGoal
      <3>3. TerminalInv' /\ PassInv' /\ Bounded'
        BY <1>0, <2>0, <2>b, <3>1 DEF TerminalInv, PassInv, wantVars, Bounded, RotationBounded,
           GotoEndsByDeadline, StalePathStops, StuckIsNoticed
      <3> QED
        BY <3>2, <3>3 DEF Tier3Inv
    <2>2. ASSUME NEW d \in 1 .. MaxStep, TickOdomStale(d) PROVE Tier3Inv'
      <3>0. d \in Nat
        BY <1>0
      <3>1. /\ clk' = Later(d) /\ motion' = "stop" /\ report' = "odom_stale"
            /\ at = "wait" /\ at' = "wait"
            /\ UNCHANGED <<ctl, terminal, zeros, wantVars, credit, token>>
        BY <2>2 DEF TickOdomStale, Elapse, GatePasses
      <3>2. /\ spun' = IF motion = "turn" THEN Least(spun + d, RotateTimeout + 1) ELSE spun
            /\ aged' = IF ctl.path THEN 0 ELSE Least(aged + d, Deadline + 1)
            /\ unfed' = IF ctl.path THEN Least(unfed + d, Stale + 1) ELSE 0
            /\ stuck' = IF motion \in {"crawl", "drive"} THEN Least(stuck + d, NoProgress + 1) ELSE 0
        BY <2>2 DEF TickOdomStale, Elapse, Turned
      <3>3. sent' = sent
        <4>1. sent # 0 => terminal # "none"
          BY <2>0 DEF TerminalInv
        <4>2. sent # 0 => quiet'
          BY <2>0, <2>2, <4>1 DEF TickOdomStale, TerminalInv
        <4> QED
          BY <2>2, <4>2 DEF TickOdomStale
      <3>4. /\ clk' \in [start : Nat, move : Nat, prog : Nat, rx : Nat]
            /\ spun' \in Nat /\ stuck' \in Nat /\ aged' \in Nat /\ unfed' \in Nat
            /\ ClocksCover'
        BY <2>f, <3>0, <3>1, <3>2
      <3>5. Counted'
        BY <2>0, <2>b, <3>1, <3>3, <3>4 DEF Counted, wantVars
      <3>6. TerminalInv' /\ PassInv' /\ Bounded'
        BY <2>0, <2>b, <3>1, <3>3 DEF TerminalInv, PassInv, wantVars, Bounded, RotationBounded,
           GotoEndsByDeadline, StalePathStops, StuckIsNoticed
      <3> QED
        BY <3>4, <3>5, <3>6 DEF Tier3Inv
    <2>3. ASSUME NEW d \in 1 .. MaxStep, TickTakes(d) PROVE Tier3Inv'
      <3>0. d \in Nat
        BY <1>0
      <3>1. /\ at = "wait" /\ at' = "step" /\ ~isRefreshed'
            /\ UNCHANGED <<want, motion, credit, token>>
        BY <2>3 DEF TickTakes, TickStarts, TickRefreshes, TickKeeps, Elapse, GatePasses
      <3>2. /\ credit' \in Int /\ credit' >= 0 /\ token' \in BOOLEAN
            /\ token' => credit' = 1
        BY <2>b, <3>1
      <3>3. PassInv' /\ Bounded'
        BY <3>1, <3>2 DEF PassInv, Bounded, RotationBounded, GotoEndsByDeadline, StalePathStops,
           StuckIsNoticed
      <3>4. SUFFICES /\ clk' \in [start : Nat, move : Nat, prog : Nat, rx : Nat]
                     /\ spun' \in Nat /\ stuck' \in Nat /\ aged' \in Nat /\ unfed' \in Nat
                     /\ ClocksCover'
                     /\ sent' = zeros' /\ zeros' \in {0, zeros}
                     /\ (terminal' = "none" /\ zeros' = 0)
                        \/ (terminal' = terminal /\ zeros' = zeros)
        <4>1. Counted'
          BY <2>0, <3>1, <3>2, <3>4 DEF Counted, Terminals
        <4>2. TerminalInv'
          BY <1>0, <2>0, <3>1, <3>4 DEF TerminalInv
        <4> QED
          BY <3>3, <3>4, <4>1, <4>2 DEF Tier3Inv
      <3>5. CASE TickStarts(d)
        <4>1. /\ clk' = Started /\ terminal' = "none" /\ zeros' = 0
              /\ spun' = 0 /\ unfed' = 0 /\ stuck' = 0 /\ aged' = 0 /\ sent' = 0
          BY <3>5 DEF TickStarts, StartGoal, NewHistory
        <4> QED
          BY <1>0, <2>c, <4>1 DEF ClocksCover
      <3>6. ASSUME NEW moved \in BOOLEAN, TickRefreshes(d, moved)
            PROVE  /\ clk' \in [start : Nat, move : Nat, prog : Nat, rx : Nat]
                   /\ spun' \in Nat /\ stuck' \in Nat /\ aged' \in Nat /\ unfed' \in Nat
                   /\ ClocksCover'
                   /\ sent' = zeros' /\ zeros' \in {0, zeros}
                   /\ (terminal' = "none" /\ zeros' = 0)
                      \/ (terminal' = terminal /\ zeros' = zeros)
        <4>1. /\ ctl' = want /\ want.path /\ aged' = 0 /\ unfed' = 0
          BY <2>0, <3>6 DEF TickRefreshes, UpdatePath, PassInv
        <4>2. clk' = [Later(d) EXCEPT !.rx = 0, !.prog = IF newRoute THEN 0 ELSE @,
                                      !.move = IF newRoute \/ moved THEN 0 ELSE @]
          BY <3>6 DEF TickRefreshes, UpdatePath
        <4>3. /\ clk' \in [start : Nat, move : Nat, prog : Nat, rx : Nat]
              /\ clk'.prog = IF newRoute THEN 0 ELSE Later(d).prog
              /\ clk'.move = IF newRoute \/ moved THEN 0 ELSE Later(d).move
          <5> DEFINE P == IF newRoute THEN 0 ELSE Later(d).prog
                     M == IF newRoute \/ moved THEN 0 ELSE Later(d).move
                     L == Later(d)
          <5>1. L \in [start : Nat, move : Nat, prog : Nat, rx : Nat]
            BY <2>d, <3>0
          <5>2. P \in Nat /\ M \in Nat
            BY <5>1
          <5>3. clk' = [L EXCEPT !.rx = 0, !.prog = P, !.move = M]
            BY <4>2
          <5>4. P = (IF newRoute THEN 0 ELSE Later(d).prog)
            OBVIOUS
          <5>5. M = IF newRoute \/ moved THEN 0 ELSE Later(d).move
            OBVIOUS
          <5> HIDE DEF L, P, M
          <5>6. /\ clk' \in [start : Nat, move : Nat, prog : Nat, rx : Nat]
                /\ clk'.prog = P /\ clk'.move = M
            BY <5>1, <5>2, <5>3
          <5> QED
            BY <5>4, <5>5, <5>6
        <4>4. /\ spun' = IF moved \/ newRoute THEN 0
                         ELSE IF motion = "turn" THEN Least(spun + d, RotateTimeout + 1) ELSE spun
              /\ newRoute => stuck' = 0
              /\ stuck' \in {0, Least(stuck + d, NoProgress + 1)}
          BY <3>6 DEF TickRefreshes, Turned
        <4>5. /\ spun' \in Nat /\ spun' <= clk'.move /\ spun' <= RotateTimeout + 1
          <5>1. CASE newRoute \/ moved
            BY <1>0, <4>3, <4>4, <5>1
          <5>2. CASE ~(newRoute \/ moved)
            <6>1. clk'.move = Least(clk.move + d, RotateTimeout + 1)
              BY <2>d, <3>0, <4>3, <5>2
            <6>2. spun' = spun \/ spun' = Least(spun + d, RotateTimeout + 1)
              BY <4>4, <5>2
            <6> QED
              BY <2>a, <2>e, <3>0, <6>1, <6>2
          <5> QED
            BY <5>1, <5>2
        <4>6. stuck' \in Nat /\ stuck' <= clk'.prog
          <5>1. clk'.prog = 0 \/ clk'.prog = Least(clk.prog + d, NoProgress + 1)
            BY <2>d, <3>0, <4>3
          <5>2. CASE stuck' = 0
            BY <2>e, <3>0, <5>1, <5>2
          <5>3. CASE stuck' # 0
            <6>1. clk'.prog = Least(clk.prog + d, NoProgress + 1)
              BY <2>d, <3>0, <4>3, <4>4, <5>3
            <6>2. stuck' = Least(stuck + d, NoProgress + 1)
              BY <4>4, <5>3
            <6> QED
              BY <2>e, <3>0, <6>1, <6>2
          <5> QED
            BY <5>2, <5>3
        <4>7. ClocksCover'
          BY <4>1, <4>3, <4>5, <4>6 DEF ClocksCover
        <4>8. /\ sent' = IF newRoute THEN 0 ELSE sent
              /\ zeros' = IF newRoute THEN 0 ELSE zeros
              /\ terminal' = IF newRoute THEN "none" ELSE terminal
          BY <3>6 DEF TickRefreshes, UpdatePath
        <4>9. /\ sent' = zeros' /\ zeros' \in {0, zeros}
              /\ (terminal' = "none" /\ zeros' = 0)
                 \/ (terminal' = terminal /\ zeros' = zeros)
          BY <2>0, <4>8 DEF TerminalInv
        <4> QED
          BY <4>1, <4>3, <4>5, <4>6, <4>7, <4>9
      <3>7. ASSUME NEW moved \in BOOLEAN, TickKeeps(d, moved)
            PROVE  /\ clk' \in [start : Nat, move : Nat, prog : Nat, rx : Nat]
                   /\ spun' \in Nat /\ stuck' \in Nat /\ aged' \in Nat /\ unfed' \in Nat
                   /\ ClocksCover'
                   /\ sent' = zeros' /\ zeros' = zeros /\ terminal' = terminal
        <4>1. /\ UNCHANGED <<ctl, terminal, zeros, sent>>
              /\ aged' = IF ctl.path THEN 0 ELSE Least(aged + d, Deadline + 1)
              /\ unfed' = IF ctl.path THEN Least(unfed + d, Stale + 1) ELSE 0
              /\ stuck' \in {0, Least(stuck + d, NoProgress + 1)}
          BY <3>7 DEF TickKeeps, Keep, Elapse
        <4>2. /\ clk' = IF moved THEN [Later(d) EXCEPT !.move = 0] ELSE Later(d)
              /\ moved => spun' = 0
              /\ spun' \in {0, spun, Least(spun + d, RotateTimeout + 1)}
          BY <3>7 DEF TickKeeps, Keep, Turned
        <4> QED
          BY <2>0, <2>f, <3>0, <4>1, <4>2 DEF TerminalInv
      <3> QED
        BY <2>3, <3>5, <3>6, <3>7 DEF TickTakes
    <2> QED
      BY <2>1, <2>2, <2>3, Others, Steps DEF Next, Tick
  <1>3. Tier3Inv => /\ RotationBounded /\ GotoEndsByDeadline /\ StalePathStops
                    /\ StuckIsNoticed /\ TerminalIsFinal /\ OneHandoffPerContinue
    BY DEF Tier3Inv, Bounded, TerminalInv, PassInv, Counted, TerminalIsFinal, OneHandoffPerContinue
  <1> QED
    BY <1>1, <1>2, <1>3, PTL DEF Spec

-------------------------------------------------------------------------------
(* Types                                                                     *)

\* What a finite set of leases gives: the longest one exists.
SomeLeaseIsLongest == \E longest \in Leases : \A l \in Leases : l <= longest

\* What the assumptions on the constants say, in one place.
LEMMA Limits ==
  /\ Deadline \in Nat /\ RotateTimeout \in Nat /\ NoProgress \in Nat /\ RealignTimeout \in Nat
  /\ Stale \in Nat /\ DtCap \in Nat /\ TerminalZeros \in Nat /\ MaxStep \in Nat
  /\ MsgLeases \subseteq Nat \cup {NoLease} /\ ArmLease \in Nat \cup {NoLease} /\ NoLease \notin Int
  /\ Goals \subseteq Goal
  BY Tier3Assumption, DriveAssumption, GateAssumption
     DEF Tier3Assumption, DriveAssumption, GateAssumption

\* The clocks stay within their caps, whatever is reset.
LEMMA ClockTypes ==
  ASSUME clk \in Clocks, NEW d \in Nat
  PROVE  /\ Started \in Clocks /\ Later(d) \in Clocks
         /\ ProgReset \in Clocks /\ [clk EXCEPT !.prog = 0, !.move = 0] \in Clocks
         /\ \A c \in Clocks : /\ [c EXCEPT !.move = 0] \in Clocks
                             /\ [c EXCEPT !.prog = 0] \in Clocks
                             /\ [c EXCEPT !.rx = 0] \in Clocks
  <1>1. 0 \in 0 .. Deadline + 1 /\ 0 \in 0 .. RotateTimeout + 1 /\ 0 \in 0 .. NoProgress + 1 /\ 0 \in 0 .. Stale + 1
    BY Limits
  <1>2. Started \in Clocks
    BY <1>1 DEF Started, Clocks
  <1>3. Later(d) \in Clocks
    <2>1. /\ clk.start \in 0 .. Deadline + 1 /\ clk.move \in 0 .. RotateTimeout + 1
          /\ clk.prog \in 0 .. NoProgress + 1 /\ clk.rx \in 0 .. Stale + 1
      BY DEF Clocks
    <2>2. /\ Least(clk.start + d, Deadline + 1) \in 0 .. Deadline + 1
          /\ Least(clk.move + d, RotateTimeout + 1) \in 0 .. RotateTimeout + 1
          /\ Least(clk.prog + d, NoProgress + 1) \in 0 .. NoProgress + 1
          /\ Least(clk.rx + d, Stale + 1) \in 0 .. Stale + 1
      BY <2>1, Limits DEF Least
    <2> QED
      BY <1>1, <2>2 DEF Later, Clocks
  <1>4. \A c \in Clocks : /\ [c EXCEPT !.move = 0] \in Clocks /\ [c EXCEPT !.prog = 0] \in Clocks
                        /\ [c EXCEPT !.rx = 0] \in Clocks
                        /\ [c EXCEPT !.prog = 0, !.move = 0] \in Clocks
    BY <1>1 DEF Clocks
  <1> QED
    BY <1>2, <1>3, <1>4 DEF ProgReset

\* Every step of the controller's own keeps its types.
LEMMA StepTypes ==
  ASSUME CtlTypeOK, Step
  PROVE  CtlTypeOK'
  <1>0. /\ ctl \in Goal \cup {NoGoal} /\ clk \in Clocks
        /\ realign \in 0 .. RealignTimeout + DtCap /\ dt \in 0 .. DtCap
        /\ best \in BOOLEAN /\ rereferred \in BOOLEAN /\ quiet \in BOOLEAN
        /\ terminal \in Terminals /\ zeros \in 0 .. TerminalZeros
        /\ motion \in {"stop", "turn", "crawl", "drive"} /\ report \in Reports
        /\ at \in {"wait", "step", "go"}
    BY DEF CtlTypeOK
  <1>1. ASSUME NEW reason \in Terminals, NEW n \in 0 .. TerminalZeros, Terminal(reason, n)
        PROVE  CtlTypeOK'
    <2>1. zeros' \in 0 .. TerminalZeros /\ dt' \in 0 .. DtCap
      BY <1>1, Limits DEF Terminal, Least
    <2>2. quiet' \in BOOLEAN
      <3> DEFINE over == n >= TerminalZeros
      <3>1. over \in BOOLEAN
        OBVIOUS
      <3>2. quiet' = over
        BY <1>1 DEF Terminal
      <3> HIDE DEF over
      <3> QED
        BY <3>1, <3>2, Zenon
    <2>3. UNCHANGED <<ctl, clk, realign, best, rereferred>> /\ terminal' \in Terminals
      BY <1>1 DEF Terminal
    <2>4. motion' \in {"stop", "turn", "crawl", "drive"} /\ report' \in Reports /\ at' \in {"wait", "step", "go"}
      BY <1>0, <1>1 DEF Terminal, Reports
    <2> QED
      BY <1>0, <2>1, <2>2, <2>3, <2>4 DEF CtlTypeOK
  <1>2. ASSUME NEW reason \in Terminals, EnterTerminal(reason) PROVE CtlTypeOK'
    <2>1. 0 \in 0 .. TerminalZeros
      BY Limits
    <2> QED
      BY <1>1, <1>2, <2>1 DEF EnterTerminal
  <1>3. ASSUME NEW m \in {"stop", "turn", "crawl", "drive"}, NEW r \in Reports, NEW c \in Clocks,
               Result(m, r, c), ctl' = ctl \/ ctl' = NoGoal, UNCHANGED <<terminal, zeros>>,
               realign' = realign \/ (realign <= RealignTimeout /\ realign' = realign + dt),
               best' \in BOOLEAN, rereferred' \in BOOLEAN
        PROVE  CtlTypeOK'
    <2>1. realign' \in 0 .. RealignTimeout + DtCap /\ 0 \in 0 .. DtCap
      BY <1>0, <1>3, Limits
    <2>2. /\ motion' = m /\ report' = r /\ clk' = c /\ dt' = 0 /\ at' = "wait" /\ quiet' \in BOOLEAN
      BY <1>3 DEF Result
    <2> QED
      BY <1>0, <1>3, <2>1, <2>2 DEF CtlTypeOK
  <1>4. /\ ProgReset \in Clocks /\ [clk EXCEPT !.prog = 0, !.move = 0] \in Clocks
    <2>1. 0 \in Nat
      OBVIOUS
    <2> QED
      BY <1>0, <2>1, ClockTypes
  <1>5. /\ Speed \in {"stop", "turn", "crawl", "drive"}
        /\ {"arrived", "blocked", "starved", "held", "turn", "gain", "adopt", "follow"} \subseteq Reports
        /\ {"deadline", "rotate_timeout"} \subseteq Terminals
    BY DEF Speed, Reports, Terminals
  <1>6. Arrived => CtlTypeOK'
    BY <1>0, <1>3, <1>5 DEF Arrived
  <1>7. Blocked => CtlTypeOK'
    BY <1>0, <1>3, <1>4, <1>5 DEF Blocked, keptVars
  <1>8. CASE StepWithoutCommand
    <2>1. AtGoal => CtlTypeOK'
      BY <1>0, <1>2, <1>3, <1>5, <1>6 DEF AtGoal, keptVars
    <2>2. AtHorizon => CtlTypeOK'
      BY <1>0, <1>3, <1>4, <1>5 DEF AtHorizon, keptVars
    <2> QED
      BY <1>2, <1>5, <1>6, <1>7, <1>8, <2>1, <2>2 DEF StepWithoutCommand, NoPlan
  <1>9. CASE StepVetoed
    <2>1. SweptBlocked => CtlTypeOK'
      BY <1>0, <1>2, <1>3, <1>4, <1>5, <1>7 DEF SweptBlocked, keptVars
    <2> QED
      BY <1>7, <1>9, <2>1 DEF StepVetoed
  <1>10. CASE StepHeld
    BY <1>0, <1>3, <1>4, <1>5, <1>10 DEF StepHeld, keptVars
  <1>11. CASE StepPasses
    BY <1>0, <1>11 DEF StepPasses, CtlTypeOK
  <1>12. CASE StepGoes
    <2>1. GoTurn => CtlTypeOK'
      BY <1>0, <1>2, <1>3, <1>4, <1>5 DEF GoTurn, keptVars
    <2>2. GoForward => CtlTypeOK'
      <3>1. ASSUME NEW r \in {"gain", "adopt", "follow"}, NEW c \in {clk, ProgReset}, Forward(r, c),
                   UNCHANGED <<keptVars, realign>>
            PROVE  CtlTypeOK'
        BY <1>0, <1>3, <1>4, <1>5, <3>1 DEF Forward, keptVars
      <3>2. Result("stop", "blocked", clk) /\ UNCHANGED <<best, rereferred, keptVars, realign>> => CtlTypeOK'
        BY <1>0, <1>3, <1>5 DEF keptVars
      <3> QED
        BY <3>1, <3>2 DEF GoForward
    <2> QED
      BY <1>12, <2>1, <2>2 DEF StepGoes
  <1>13. CASE StayTerminal
    BY <1>0, <1>1, <1>13 DEF StayTerminal
  <1> QED
    BY <1>8, <1>9, <1>10, <1>11, <1>12, <1>13 DEF Step

\* The steps of the gate; a message of the inspector carries one of MsgLeases.
GateStep ==
  \/ \E lease \in MsgLeases : Arm(lease)
  \/ Disarm \/ Continue \/ CheckLease \/ ConsumeContinue
  \/ \E d \in 1 .. MaxStep : GatePasses(d)
  \/ UNCHANGED gateVars

LEMMA GateTypes ==
  ASSUME GateTypeOK, GateStep
  PROVE  GateTypeOK'
  <1>1. armed' \in BOOLEAN
    BY DEF GateTypeOK, GateStep, Arm, Disarm, Continue, CheckLease, ConsumeContinue, GatePasses, gateVars
  <1>2. token' \in BOOLEAN
    BY DEF GateTypeOK, GateStep, Arm, Disarm, Continue, CheckLease, ConsumeContinue, GatePasses, gateVars
  <1>3. left' \in {NoLease, -1} \cup UNION {0 .. l : l \in Leases}
    <2>1. CASE \E lease \in MsgLeases : Arm(lease)
      <3>1. left' \in Leases \cup {NoLease}
        BY <2>1 DEF Arm, Leases
      <3>2. \A l \in Leases : l \in 0 .. l
        BY Limits DEF Leases
      <3> QED
        BY <3>1, <3>2
    <2>2. CASE \E d \in 1 .. MaxStep : GatePasses(d)
      <3>1. PICK d \in 1 .. MaxStep : GatePasses(d)
        BY <2>2
      <3>2. CASE left \in {NoLease, -1}
        <4>1. left' \in {NoLease, -1}
          BY <3>1, <3>2, Limits DEF GatePasses
        <4> QED
          BY <4>1
      <3>3. CASE left \notin {NoLease, -1}
        <4>1. PICK l \in Leases : left \in 0 .. l
          BY <3>3 DEF GateTypeOK
        <4>2. l \in Nat /\ d \in Nat
          BY Limits DEF Leases
        <4>3. left' = -1 \/ left' \in 0 .. l
          BY <3>1, <3>3, <4>1, <4>2 DEF GatePasses
        <4> QED
          BY <4>3
      <3> QED
        BY <3>2, <3>3
    <2>3. CASE left' \in {NoLease, left}
      BY <2>3 DEF GateTypeOK
    <2> QED
      BY <2>1, <2>2, <2>3 DEF GateStep, Disarm, Continue, CheckLease, ConsumeContinue, gateVars
  <1> QED
    BY <1>1, <1>2, <1>3 DEF GateTypeOK

\* What happens in one step to the goals, the controller and the gate.
LEMMA TickTypes ==
  ASSUME TypeOK, NEW d \in 1 .. MaxStep, TickIdle(d) \/ TickOdomStale(d) \/ TickTakes(d)
  PROVE  CtlTypeOK' /\ want' = want /\ {isNew', isRefreshed', newRoute'} \subseteq BOOLEAN
  <1>0. /\ ctl \in Goal \cup {NoGoal} /\ want \in Goal \cup {NoGoal} /\ clk \in Clocks
        /\ realign \in 0 .. RealignTimeout + DtCap /\ dt \in 0 .. DtCap /\ d \in Nat
        /\ best \in BOOLEAN /\ rereferred \in BOOLEAN /\ quiet \in BOOLEAN
        /\ isNew \in BOOLEAN /\ isRefreshed \in BOOLEAN /\ newRoute \in BOOLEAN
        /\ terminal \in Terminals /\ zeros \in 0 .. TerminalZeros
        /\ motion \in {"stop", "turn", "crawl", "drive"}
        /\ at \in {"wait", "step", "go"}
    BY Limits DEF TypeOK, CtlTypeOK
  <1>1. want' = want
    BY DEF TickIdle, TickOdomStale, TickTakes, wantVars
  <1>2. isNew' \in BOOLEAN /\ isRefreshed' \in BOOLEAN /\ newRoute' \in BOOLEAN
    BY <1>0 DEF TickIdle, TickOdomStale, TickTakes, TickStarts, TickRefreshes, TickKeeps, wantVars
  <1>3. ctl' \in Goal \cup {NoGoal}
    BY <1>0 DEF TickIdle, TickOdomStale, TickTakes, TickStarts, TickRefreshes, TickKeeps, wantVars,
                StartGoal, UpdatePath, Keep
  <1>4. clk' \in Clocks
    <2>1. /\ Started \in Clocks /\ Later(d) \in Clocks
          /\ \A c \in Clocks : /\ [c EXCEPT !.move = 0] \in Clocks
                              /\ [c EXCEPT !.prog = 0] \in Clocks
                              /\ [c EXCEPT !.rx = 0] \in Clocks
      BY <1>0, ClockTypes
    <2>2. ASSUME NEW moved \in BOOLEAN, UpdatePath(want, newRoute, moved, d) PROVE clk' \in Clocks
      <3> DEFINE L == Later(d)
                 A == [L EXCEPT !.rx = 0]
                 B == IF newRoute THEN [A EXCEPT !.prog = 0] ELSE A
      <3>1. A \in Clocks
        BY <2>1
      <3>2. B \in Clocks
        BY <2>1, <3>1
      <3>3. clk' = IF newRoute \/ moved THEN [B EXCEPT !.move = 0] ELSE B
        <4>1. clk' = [A EXCEPT !.prog = IF newRoute THEN 0 ELSE @,
                               !.move = IF newRoute \/ moved THEN 0 ELSE @]
          BY <2>2 DEF UpdatePath
        <4> HIDE DEF A
        <4> QED
          BY <3>1, <4>1 DEF Clocks
      <3> HIDE DEF B
      <3> QED
        BY <2>1, <3>2, <3>3
    <2> QED
      BY <1>0, <2>1, <2>2
         DEF TickIdle, TickOdomStale, TickTakes, TickStarts, TickRefreshes, TickKeeps, StartGoal, Keep
  <1>5. /\ realign' \in {realign, 0} /\ dt' \in {0, Least(dt + d, DtCap)}
        /\ terminal' \in {terminal, "none"} /\ zeros' \in {zeros, 0}
    BY DEF TickIdle, TickOdomStale, TickTakes, TickStarts, TickRefreshes, TickKeeps, StartGoal,
             UpdatePath, Keep
  <1>6. realign' \in 0 .. RealignTimeout + DtCap /\ dt' \in 0 .. DtCap
    BY <1>0, <1>5, Limits DEF Least
  <1>7. best' \in BOOLEAN /\ rereferred' \in BOOLEAN
    BY <1>0 DEF TickIdle, TickOdomStale, TickTakes, TickStarts, TickRefreshes, TickKeeps, StartGoal,
             UpdatePath, Keep
  <1>8. quiet' \in BOOLEAN
    BY DEF TickIdle, TickOdomStale, TickTakes
  <1>9. terminal' \in Terminals /\ zeros' \in 0 .. TerminalZeros
    BY <1>0, <1>5, Limits DEF Terminals
  <1>10. motion' \in {"stop", "turn", "crawl", "drive"} /\ report' \in Reports /\ at' \in {"wait", "step", "go"}
    BY <1>0 DEF TickIdle, TickOdomStale, TickTakes, Reports
  <1> QED
    BY <1>1, <1>2, <1>3, <1>4, <1>5, <1>6, <1>7, <1>8, <1>9, <1>10 DEF CtlTypeOK

\* The histories stay within their caps; a handoff uses one continue.
LEMMA HistoryTypes ==
  ASSUME TypeOK, [Next]_vars, LongestLease \in Nat, credit >= 0
  PROVE  /\ spun' \in 0 .. RotateTimeout + 1 /\ unfed' \in 0 .. Stale + 1
         /\ stuck' \in 0 .. NoProgress + 1 /\ silent' \in 0 .. LongestLease + 1
         /\ aged' \in 0 .. Deadline + 1 /\ sent' \in 0 .. TerminalZeros + 1
         /\ credit' \in -1 .. 1
  <1>0. /\ spun \in 0 .. RotateTimeout + 1 /\ unfed \in 0 .. Stale + 1
        /\ stuck \in 0 .. NoProgress + 1 /\ silent \in 0 .. LongestLease + 1
        /\ aged \in 0 .. Deadline + 1 /\ sent \in 0 .. TerminalZeros + 1
        /\ credit \in -1 .. 1
    BY DEF TypeOK
  <1> DEFINE Within(new, old, cap) == \/ new \in {old, 0}
                                      \/ \E d \in 1 .. MaxStep : new = Least(old + d, cap)
  <1>1. /\ Within(spun', spun, RotateTimeout + 1) /\ Within(unfed', unfed, Stale + 1)
        /\ Within(stuck', stuck, NoProgress + 1) /\ Within(silent', silent, LongestLease + 1)
        /\ Within(aged', aged, Deadline + 1)
    <2>1. CASE NewGoal \/ Refresh \/ Cancel \/ Inspector \/ TickSteps \/ UNCHANGED vars
      BY <2>1 DEF NewGoal, Refresh, Cancel, Inspector, TickSteps, vars, hist
    <2>2. ASSUME NEW d \in 1 .. MaxStep, TickIdle(d) PROVE <1>1!:
      BY <2>2 DEF TickIdle, NewHistory
    <2>3. ASSUME NEW d \in 1 .. MaxStep, TickOdomStale(d) PROVE <1>1!:
      BY <2>3 DEF TickOdomStale, Turned, Elapse
    <2>4. ASSUME NEW d \in 1 .. MaxStep, TickTakes(d) PROVE <1>1!:
      <3>1. CASE TickStarts(d)
        BY <3>1 DEF TickStarts, NewHistory
      <3>2. ASSUME NEW moved \in BOOLEAN, TickRefreshes(d, moved) PROVE <1>1!:
        BY <3>2 DEF TickRefreshes, Turned
      <3>3. ASSUME NEW moved \in BOOLEAN, TickKeeps(d, moved) PROVE <1>1!:
        BY <3>3 DEF TickKeeps, Turned, Elapse
      <3> QED
        BY <2>4, <3>1, <3>2, <3>3 DEF TickTakes
    <2> QED
      BY <2>1, <2>2, <2>3, <2>4 DEF Next, Tick
  <1>2. sent' \in {sent, 0, Least(sent + 1, TerminalZeros + 1)}
    BY DEF Next, Tick, NewGoal, Refresh, Cancel, Inspector, vars, hist, TickIdle, NewHistory, TickOdomStale,
           TickTakes, TickStarts, TickRefreshes, TickKeeps, TickSteps
  <1>3. credit' \in {credit, Least(credit, 0), 1, credit - 1}
    BY DEF Next, Tick, NewGoal, Refresh, Cancel, Inspector, vars, hist, TickIdle, TickOdomStale,
           TickTakes, TickSteps
  <1>4. ASSUME NEW cap \in Nat, NEW old \in 0 .. cap, NEW new, Within(new, old, cap)
        PROVE  new \in 0 .. cap
    BY <1>4, Limits DEF Least
  <1>5. sent' \in 0 .. TerminalZeros + 1 /\ credit' \in -1 .. 1
    BY <1>0, <1>2, <1>3, Limits DEF Least
  <1>6. /\ RotateTimeout + 1 \in Nat /\ Stale + 1 \in Nat /\ NoProgress + 1 \in Nat
        /\ LongestLease + 1 \in Nat /\ Deadline + 1 \in Nat
    BY Limits
  <1> HIDE DEF Within
  <1> QED
    BY <1>0, <1>1, <1>4, <1>5, <1>6

(***************************************************************************)
(* Every variable keeps its type, if the leases have a longest one at all. *)
(***************************************************************************)
THEOREM ControllerTypeCorrect ==
  ASSUME SomeLeaseIsLongest
  PROVE  Spec => []TypeOK
  <1>0. LongestLease \in Nat
    <2>1. LongestLease \in Leases
      BY DEF LongestLease, SomeLeaseIsLongest
    <2> QED
      BY <2>1, Limits DEF Leases
  <1>1. Init => TypeOK
    <2> SUFFICES ASSUME Init PROVE TypeOK
      OBVIOUS
    <2>1. CtlTypeOK
      <3>1. clk \in Clocks /\ realign \in 0 .. RealignTimeout + DtCap /\ dt \in 0 .. DtCap
            /\ zeros \in 0 .. TerminalZeros
        BY Limits DEF Init, CtlInit, Started, Clocks
      <3>2. /\ ctl \in Goal \cup {NoGoal} /\ terminal \in Terminals /\ report \in Reports
            /\ motion \in {"stop", "turn", "crawl", "drive"} /\ at \in {"wait", "step", "go"}
        BY DEF Init, CtlInit, Terminals, Reports
      <3>3. best \in BOOLEAN /\ rereferred \in BOOLEAN /\ quiet \in BOOLEAN
        BY DEF Init, CtlInit
      <3> QED
        BY <3>1, <3>2, <3>3 DEF CtlTypeOK
    <2>2. GateTypeOK
      BY DEF Init, GateInit, GateTypeOK
    <2>3. /\ want \in Goal \cup {NoGoal} /\ {isNew, isRefreshed, newRoute} \subseteq BOOLEAN
      BY DEF Init
    <2>4. /\ spun \in 0 .. RotateTimeout + 1 /\ unfed \in 0 .. Stale + 1 /\ stuck \in 0 .. NoProgress + 1
          /\ silent \in 0 .. LongestLease + 1 /\ aged \in 0 .. Deadline + 1
          /\ sent \in 0 .. TerminalZeros + 1 /\ credit \in -1 .. 1
      BY <1>0, Limits DEF Init
    <2> QED
      BY <2>1, <2>2, <2>3, <2>4 DEF TypeOK
  <1>2. TypeOK /\ OneHandoffPerContinue /\ [Next]_vars => TypeOK'
    <2> SUFFICES ASSUME TypeOK, OneHandoffPerContinue, [Next]_vars PROVE TypeOK'
      OBVIOUS
    <2>0. /\ CtlTypeOK /\ GateTypeOK /\ want \in Goal \cup {NoGoal}
          /\ isNew \in BOOLEAN /\ isRefreshed \in BOOLEAN /\ newRoute \in BOOLEAN
      BY DEF TypeOK
    <2>1. ASSUME CtlTypeOK', GateStep, want' \in Goal \cup {NoGoal},
                 {isNew', isRefreshed', newRoute'} \subseteq BOOLEAN
          PROVE  TypeOK'
      BY <1>0, <2>0, <2>1, GateTypes, HistoryTypes DEF TypeOK, OneHandoffPerContinue
    <2>2. CASE TickSteps
      <3>1. CtlTypeOK'
        BY <2>0, <2>2, StepTypes DEF TickSteps
      <3>2. GateStep
        BY <2>2 DEF TickSteps, Step, StepWithoutCommand, StepVetoed, StepHeld, StepPasses,
                    StepGoes, GateStep
      <3>3. /\ want' \in Goal \cup {NoGoal} /\ {isNew', isRefreshed', newRoute'} \subseteq BOOLEAN
        BY <2>0, <2>2 DEF TickSteps, wantVars
      <3> QED
        BY <2>1, <3>1, <3>2, <3>3
    <2>3. ASSUME NEW d \in 1 .. MaxStep, TickIdle(d) \/ TickOdomStale(d) \/ TickTakes(d) PROVE TypeOK'
      <3>1. GatePasses(d)
        BY <2>3 DEF TickIdle, TickOdomStale, TickTakes, TickStarts, TickRefreshes, TickKeeps, Elapse
      <3> QED
        BY <2>0, <2>1, <2>3, <3>1, TickTypes DEF GateStep
    <2>4. CASE NewGoal \/ Refresh \/ Cancel \/ Inspector \/ UNCHANGED vars
      <3>1. CtlTypeOK'
        BY <2>0, <2>4 DEF NewGoal, Refresh, Cancel, Inspector, vars, ctlVars, CtlTypeOK
      <3>2. GateStep
        BY <2>4 DEF NewGoal, Refresh, Cancel, Inspector, vars, gateVars, GateStep
      <3>3. want' \in Goal \cup {NoGoal}
        <4>1. CASE Refresh
          <5>1. want \in Goal
            BY <2>0, <4>1 DEF Refresh, NoGoal
          <5>2. PICK last \in BOOLEAN : want' = [want EXCEPT !.last = last]
            BY <4>1 DEF Refresh
          <5> QED
            BY <5>1, <5>2 DEF Goal
        <4> QED
          BY <2>0, <2>4, <4>1, Limits DEF NewGoal, Cancel, Inspector, vars, wantVars
      <3>4. {isNew', isRefreshed', newRoute'} \subseteq BOOLEAN
        BY <2>0, <2>4 DEF NewGoal, Refresh, Cancel, Inspector, vars, wantVars
      <3> QED
        BY <2>1, <3>1, <3>2, <3>3, <3>4
    <2> QED
      BY <2>2, <2>3, <2>4 DEF Next, Tick
  <1>3. Spec => []OneHandoffPerContinue
    BY ControllerIsBounded, PTL
  <1> QED
    BY <1>1, <1>2, <1>3, PTL DEF Spec

-------------------------------------------------------------------------------
(* The lease of a hold                                                       *)

(***************************************************************************)
(* An arm that has not lapsed is as old as what is used of its lease, so   *)
(* no longer than the longest lease.                                       *)
(***************************************************************************)
LeaseInv ==
  /\ armed /\ left # -1 => left \in Nat /\ silent + left <= LongestLease
  /\ at = "wait" /\ report = "held" => silent <= LongestLease

(* The sums of a lease that starts and of one that runs, as the prover     *)
(* needs them: over numbers, not over primed variables.                    *)
LEMMA LeaseStarts ==
  ASSUME NEW l \in Nat, NEW m \in Nat, NEW t, t = 0, l <= m
  PROVE  t + l <= m /\ t <= m
  OBVIOUS

LEMMA LeaseRuns ==
  ASSUME NEW s \in Nat, NEW l \in Nat, NEW d \in Nat, NEW m \in Nat, NEW t \in Nat,
         s + l <= m, l >= d, t <= s + d
  PROVE  l - d \in Nat /\ t + (l - d) <= m
  OBVIOUS

LEMMA LeaseStep ==
  ASSUME ArmLease \in Nat, SomeLeaseIsLongest,
         TypeOK, LeaseInv, [Next]_vars
  PROVE  LeaseInv'
  <1>0. /\ LongestLease \in Nat /\ \A l \in Leases : l \in Nat /\ l <= LongestLease
        /\ silent \in Nat /\ armed \in BOOLEAN
    <2>1. LongestLease \in Leases /\ \A l \in Leases : l <= LongestLease
      BY DEF LongestLease, SomeLeaseIsLongest
    <2>2. Leases \subseteq Nat
      BY Limits DEF Leases
    <2>3. silent \in 0 .. LongestLease + 1
      BY DEF TypeOK
    <2> QED
      BY <2>1, <2>2, <2>3 DEF TypeOK, GateTypeOK
  <1>1. ASSUME NEW d \in 1 .. MaxStep, GatePasses(d), silent' = Least(silent + d, LongestLease + 1),
               report' # "held" \/ at' # "wait"
        PROVE  LeaseInv'
    <2>1. d \in Nat /\ d > 0
      BY Limits
    <2>2. ASSUME armed', left' # -1 PROVE left' \in Nat /\ silent' + left' <= LongestLease
      <3>1. armed /\ left # -1 /\ left # NoLease
        <4>1. armed /\ left # -1
          BY <1>1, <2>1, <2>2, Limits DEF GatePasses
        <4> QED
          BY <4>1, Limits DEF LeaseInv
      <3>2. left \in Nat /\ silent + left <= LongestLease /\ left >= d /\ left' = left - d
        BY <1>1, <2>1, <2>2, <3>1 DEF LeaseInv, GatePasses
      <3>3. silent' <= silent + d /\ silent' \in Nat
        BY <1>0, <1>1, <2>1 DEF Least
      <3>4. silent \in Nat /\ LongestLease \in Nat
        BY <1>0
      <3> QED
        BY <2>1, <3>2, <3>3, <3>4, LeaseRuns
    <2> QED
      BY <1>1, <2>2 DEF LeaseInv
  <1>2. ASSUME NEW d \in 1 .. MaxStep, TickIdle(d) \/ TickOdomStale(d) \/ TickTakes(d) PROVE LeaseInv'
    <2>1. GatePasses(d) /\ silent' = Least(silent + d, LongestLease + 1)
      BY <1>2 DEF TickIdle, TickOdomStale, TickTakes, TickStarts, TickRefreshes, TickKeeps, Elapse
    <2>2. report' # "held"
      BY <1>2 DEF TickIdle, TickOdomStale, TickTakes
    <2> QED
      BY <1>1, <2>1, <2>2
  <1>3. CASE TickSteps
    <2>1. silent' = silent /\ (~armed' \/ UNCHANGED <<armed, left>>)
      BY <1>3 DEF TickSteps, Step, StepWithoutCommand, StepVetoed, StepHeld, StepPasses, StepGoes,
                  CheckLease, Disarm, ConsumeContinue, gateVars
    <2>2. at' = "wait" /\ report' = "held" => StepHeld
      BY <1>3 DEF TickSteps, Step, StepWithoutCommand, StepVetoed, StepPasses, StepGoes, StayTerminal,
                  AtGoal, Arrived, AtHorizon, Blocked, NoPlan, SweptBlocked, GoTurn, GoForward, Forward,
                  Result, EnterTerminal, Terminal
    <2>3. StepHeld => silent <= LongestLease
      <3>1. StepHeld => armed /\ left # -1
        BY <1>0 DEF StepHeld, ShouldHold, Lapsed
      <3> QED
        BY <1>0, <3>1 DEF LeaseInv
    <2> QED
      BY <2>1, <2>2, <2>3 DEF LeaseInv
  <1>4. CASE Inspector
    <2>0. UNCHANGED <<at, report>>
      BY <1>4 DEF Inspector, ctlVars
    <2>1. ASSUME NEW lease \in MsgLeases, Arm(lease), silent' = 0 PROVE LeaseInv'
      <3>1. left' \in Leases
        BY <2>1, Limits DEF Arm, Leases
      <3>2. left' \in Nat /\ left' <= LongestLease
        BY <1>0, <3>1
      <3>3. silent' + left' <= LongestLease /\ silent' <= LongestLease
        BY <1>0, <2>1, <3>2, LeaseStarts
      <3> QED
        BY <3>2, <3>3 DEF LeaseInv
    <2>2. CASE silent' = silent /\ (~armed' \/ UNCHANGED <<armed, left>>)
      BY <2>0, <2>2 DEF LeaseInv
    <2> QED
      BY <1>4, <2>1, <2>2 DEF Inspector, Disarm, Continue
  <1>5. CASE UNCHANGED <<armed, left, silent, at, report>>
    BY <1>5 DEF LeaseInv
  <1>6. NewGoal \/ Refresh \/ Cancel \/ UNCHANGED vars => UNCHANGED <<armed, left, silent, at, report>>
    BY DEF NewGoal, Refresh, Cancel, vars, hist, ctlVars, gateVars
  <1> QED
    BY <1>2, <1>3, <1>4, <1>5, <1>6 DEF Next, Tick

(***************************************************************************)
(* For a gate with a lease of its own, as local_drive builds it, and a     *)
(* longest lease: an inspector that is gone holds nobody beyond it.        *)
(***************************************************************************)
THEOREM HoldsEnd ==
  ASSUME ArmLease \in Nat, SomeLeaseIsLongest
  PROVE  Spec => []HoldEndsWithLease
  <1>1. Init => LeaseInv
    BY DEF Init, CtlInit, GateInit, LeaseInv
  <1>2. TypeOK /\ LeaseInv /\ [Next]_vars => LeaseInv'
    BY LeaseStep
  <1>3. LeaseInv => HoldEndsWithLease
    BY DEF LeaseInv, HoldEndsWithLease
  <1> QED
    BY <1>1, <1>2, <1>3, ControllerTypeCorrect, PTL DEF Spec

===============================================================================
