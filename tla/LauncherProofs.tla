---------------------------- MODULE LauncherProofs ----------------------------
(***************************************************************************)
(* Proofs about Launcher, for every list of processes and every timeout.   *)
(***************************************************************************)
EXTENDS Launcher, NumberLemmas, TLAPS

\* What is alive is held, a motor controller that is not held drives nothing,
\* and nothing of either is left when the launcher has ended.
WheelsInv ==
  /\ proc \subseteq Managed
  /\ life \in [Managed -> Lives]
  /\ \A p \in Managed : Alive(p) => p \in proc
  /\ Motor \notin proc => ~pwm
  /\ stage = At("done") => ~pwm /\ \A p \in Managed : ~Alive(p)

(***************************************************************************)
(* However exits, hangs, signals and restarts fall, the wheels are not     *)
(* driven once the launcher has noticed that the motor controller is gone, *)
(* nor after the launcher has ended.                                       *)
(***************************************************************************)
THEOREM MotorStopsWithController == Spec => []MotorlessIsZeroed
  <1> USE DEF At, Step, Alive, Lives, procVars, monitor
  <1>0. Motor \in Managed /\ \A i \in 1..Len(Processes) : Processes[i] \in Managed
    BY LauncherAssumption DEF LauncherAssumption, Managed, ToSet
  <1>1. Init => WheelsInv
    BY DEF Init, WheelsInv
  <1>2. WheelsInv /\ [Next]_vars => WheelsInv'
    <2> SUFFICES ASSUME WheelsInv, [Next]_vars PROVE WheelsInv'
      OBVIOUS
    <2>1. CASE Loop
      <3>1. CASE stage' = At("done")
        <4>1. proc = {} /\ UNCHANGED <<proc, life, pwm>>
          BY <2>1, <3>1 DEF Loop
        <4> QED
          BY <1>0, <4>1 DEF WheelsInv
      <3>2. CASE stage' # At("done")
        <4>1. UNCHANGED <<proc, life>> /\ (Supervise \/ UNCHANGED pwm)
          BY <2>1 DEF Loop
        <4>2. Supervise => (pwm' => pwm)
          BY Zenon DEF Supervise
        <4> QED
          BY <3>2, <4>1, <4>2 DEF WheelsInv
      <3> QED
        BY <3>1, <3>2
    <2>2. ASSUME NEW i \in 1..Len(Processes), Manage(i) PROVE WheelsInv'
      <3> DEFINE p == Processes[i]
      <3>1. p \in Managed /\ stage' # At("done")
        <4>1. Step(i) # At("done") /\ Step(i + 1) # At("done") /\ At("closing") # At("done") /\ At("sleep") # At("done")
          OBVIOUS
        <4>2. stage # At("done") /\ AfterStep(i) # At("done")
          BY <2>2, <4>1 DEF Manage, AfterStep
        <4> QED
          BY <1>0, <2>2, <4>2 DEF Manage
      <3>2. KillsHung(p) \/ Reaps(p) \/ Starts(p) \/ StartFails(p) \/ LeavesAlone(p)
        BY <2>2 DEF Manage
      <3> HIDE DEF p
      <3>3. CASE KillsHung(p)
        BY <3>1, <3>3 DEF KillsHung, WheelsInv
      <3>4. CASE Reaps(p)
        BY <1>0, <3>1, <3>4 DEF Reaps, WheelsInv
      <3>5. CASE Starts(p)
        BY <1>0, <3>1, <3>5 DEF Starts, WheelsInv
      <3>6. CASE StartFails(p) \/ LeavesAlone(p)
        BY <3>1, <3>6 DEF StartFails, LeavesAlone, WheelsInv
      <3> QED
        BY <3>2, <3>3, <3>4, <3>5, <3>6
    <2>3. CASE Finish
      BY <2>3 DEF Finish, WheelsInv
    <2>4. CASE Tick
      BY <2>4 DEF Tick, WheelsInv
    <2>5. ASSUME NEW p \in Managed, Publishes(p) \/ Hangs(p) \/ Exits(p) PROVE WheelsInv'
      BY <2>5 DEF Publishes, Hangs, Exits, WheelsInv
    <2>6. CASE MotorSets
      BY <1>0, <2>6 DEF MotorSets, WheelsInv
    <2>7. CASE LinkChanges \/ Signal \/ Done \/ UNCHANGED vars
      BY <2>7 DEF LinkChanges, Signal, Done, vars, WheelsInv
    <2> QED
      BY <2>1, <2>2, <2>3, <2>4, <2>5, <2>6, <2>7 DEF Next, LauncherStep, Process
  <1>3. WheelsInv => MotorlessIsZeroed
    BY DEF WheelsInv, MotorlessIsZeroed
  <1> QED
    BY <1>1, <1>2, <1>3, PTL DEF Spec

-------------------------------------------------------------------------------
(* Types                                                                     *)

LEMMA Configured ==
  /\ Motor \in Managed
  /\ Len(Processes) \in Nat \ {0}
  /\ \A i \in 1..Len(Processes) : Processes[i] \in Managed
  /\ \A p \in Managed : Timeout[p] \in Nat \ {0} /\ \E i \in 1..Len(Processes) : p = Processes[i]
  /\ {Window, Grace, StableAfter, MaxBackoff} \subseteq Nat \ {0}
  <1>1. Processes \in Seq(Managed) /\ Motor \in Managed
    BY LauncherAssumption DEF LauncherAssumption
  <1>2. Len(Processes) \in Nat /\ DOMAIN Processes = 1..Len(Processes)
    BY <1>1
  <1>3. \A p \in Managed : \E i \in 1..Len(Processes) : p = Processes[i]
    BY <1>2 DEF Managed, ToSet
  <1> QED
    BY <1>1, <1>2, <1>3, LauncherAssumption DEF LauncherAssumption

\* There are finitely many timeouts: one is the longest.
LEMMA OldestIsNatural == Oldest \in Nat \ {0}
  <1> DEFINE n == Len(Processes) + 1
             age == [i \in 1 .. n |-> IF i = n THEN Window ELSE Timeout[Processes[i]]]
             Ages == {Timeout[p] : p \in Managed} \cup {Window}
  <1>1. n \in Nat \ {0} /\ n - 1 = Len(Processes) /\ \A i \in 1 .. n : age[i] \in Nat
    <2>1. n \in Nat \ {0} /\ n - 1 = Len(Processes)
      BY Configured
    <2>2. ASSUME NEW i \in 1 .. n PROVE age[i] \in Nat
      <3>1. i # n => Processes[i] \in Managed
        BY <2>1, Configured
      <3> QED
        BY <3>1, Configured
    <2> QED
      BY <2>1, <2>2
  <1>2. Ages \subseteq Nat /\ \A i \in 1 .. n : age[i] \in Ages
    <2>1. ASSUME NEW i \in 1 .. n PROVE age[i] \in Ages
      <3>1. i # n => Processes[i] \in Managed
        BY <1>1, Configured
      <3> QED
        BY <3>1
    <2> QED
      BY <2>1, Configured
  <1>3. \A a \in Ages : \E i \in 1 .. n : a = age[i]
    <2> SUFFICES ASSUME NEW a \in Ages PROVE \E i \in 1 .. n : a = age[i]
      OBVIOUS
    <2>1. CASE a = Window
      BY <1>1, <2>1, n \in 1 .. n
    <2>2. ASSUME NEW p \in Managed, a = Timeout[p] PROVE \E i \in 1 .. n : a = age[i]
      <3>1. PICK i \in 1..Len(Processes) : p = Processes[i]
        BY Configured
      <3>2. i \in 1 .. n /\ i # n
        BY <1>1, <3>1
      <3> QED
        BY <2>2, <3>1, <3>2
    <2> QED
      BY <2>1, <2>2
  <1> HIDE DEF n, age, Ages
  <1>4. PICK k \in 1 .. n : \A i \in 1 .. n : age[i] <= age[k]
    BY <1>1, ListHasLargest
  <1>5. age[k] \in Ages /\ \A a \in Ages : age[k] >= a
    <2>1. ASSUME NEW a \in Ages PROVE age[k] >= a
      <3>1. PICK i \in 1 .. n : a = age[i]
        BY <1>3
      <3> QED
        BY <1>1, <1>4, <3>1
    <2> QED
      BY <1>2, <2>1
  <1>6. Max(Ages) \in Ages
    BY <1>5 DEF Max
  <1>7. Max(Ages) \in Nat
    BY <1>2, <1>6
  <1> QED
    BY <1>7 DEF Oldest, Ages

LEMMA Smaller ==
  ASSUME NEW a \in Nat, NEW b \in Nat
  PROVE  Min({a, b}) \in 0..a
  <1>1. \E x \in {a, b} : \A y \in {a, b} : x <= y
    OBVIOUS
  <1>2. Min({a, b}) \in {a, b} /\ Min({a, b}) <= a
    BY <1>1 DEF Min
  <1> QED
    BY <1>2

\* The provers know nothing of powers.
PowersAreNatural == \A n \in Nat : 2^n \in Nat

\* What the caps keep of each counter.
LEMMA CounterTypes ==
  ASSUME PowersAreNatural
  PROVE  /\ \A n \in Nat : Min({Oldest, n}) \in 0..Oldest
         /\ \A n \in Nat : Min({StableAfter, n}) \in 0..StableAfter
         /\ \A n \in Nat : Failed(n) \in 0..MaxFailures
         /\ \A n \in Nat : Backoff(n) \in 0..MaxBackoff
         /\ \A cap \in Nat : \A n \in 0..cap : Down(n) \in 0..cap
         /\ NoDeadline \in Nat /\ Grace \in 0..NoDeadline /\ Grace # NoDeadline /\ NoDeadline # 0
  <1>1. {Oldest, StableAfter, MaxBackoff, MaxFailures, Grace} \subseteq Nat \ {0}
    BY Configured, OldestIsNatural DEF MaxFailures
  <1>2. ASSUME NEW n \in Nat PROVE Backoff(n) \in 0..MaxBackoff
    <2>1. CASE n = 0
      BY <1>1, <2>1 DEF Backoff
    <2>2. CASE n # 0
      <3>1. 2^(n - 1) \in Nat
        BY <2>2, n - 1 \in Nat DEF PowersAreNatural
      <3>2. Min({MaxBackoff, 2^(n - 1)}) \in 0..MaxBackoff
        BY <1>1, <3>1, Smaller
      <3> QED
        BY <2>2, <3>2 DEF Backoff
    <2> QED
      BY <2>1, <2>2
  <1>3. ASSUME NEW n \in Nat PROVE Failed(n) \in 0..MaxFailures
    <2>1. n + 1 \in Nat
      OBVIOUS
    <2> QED
      BY <1>1, <2>1, Smaller DEF Failed
  <1>4. \A cap \in Nat : \A n \in 0..cap : Down(n) \in 0..cap
    BY DEF Down
  <1>5. NoDeadline \in Nat /\ Grace \in 0..NoDeadline /\ Grace # NoDeadline /\ NoDeadline # 0
    BY <1>1 DEF NoDeadline
  <1> QED
    BY <1>1, <1>2, <1>3, <1>4, <1>5, Smaller

\* The part of the type that the loop alone changes.
CountersOK ==
  /\ failures \in [Managed -> 0..MaxFailures]
  /\ stable \in [Managed -> 0..StableAfter]
  /\ wait \in [Managed -> 0..MaxBackoff]

KillOK ==
  /\ kill \in [Managed -> 0..NoDeadline]
  /\ \A p \in Managed \ proc : kill[p] = NoDeadline

LifeOK ==
  /\ proc \subseteq Managed
  /\ life \in [Managed -> Lives]
  /\ \A p \in Managed : Alive(p) => p \in proc

MonitorOK == seen \in [Managed -> 0..Oldest] /\ armed \subseteq Managed

SwitchesOK == {pwm, link, shutdown} \subseteq BOOLEAN

LEMMA StageTypes ==
  /\ \A place \in {"loop", "sleep", "closing", "done"} : At(place) \in Stages
  /\ \A i \in 1..Len(Processes) : Step(i) \in Stages /\ (i < Len(Processes) => Step(i + 1) \in Stages)
  <1>1. ASSUME NEW i \in 1..Len(Processes), i < Len(Processes) PROVE i + 1 \in 1..Len(Processes)
    BY <1>1, Configured
  <1> QED
    BY <1>1 DEF Stages

\* A pass of one process leaves the counters of the others alone.
LEMMA ManageTypes ==
  ASSUME PowersAreNatural, LauncherTypeOK, NEW i \in 1..Len(Processes), Manage(i)
  PROVE  LauncherTypeOK'
  <1> DEFINE p == Processes[i]
  <1>0. /\ p \in Managed /\ CountersOK /\ KillOK /\ LifeOK /\ MonitorOK /\ SwitchesOK
    BY Configured DEF LauncherTypeOK, CountersOK, KillOK, LifeOK, MonitorOK, SwitchesOK
  <1>1. stage' \in Stages /\ UNCHANGED <<link, shutdown>>
    <2>1. stage \in Stages /\ AfterStep(i) \in Stages
      BY StageTypes DEF AfterStep, LauncherTypeOK
    <2> QED
      BY <2>1 DEF Manage
  <1>2. KillsHung(p) \/ Reaps(p) \/ Starts(p) \/ StartFails(p) \/ LeavesAlone(p)
    BY DEF Manage
  <1> HIDE DEF p
  <1>3. CountersOK'
    <2>1. /\ 0 \in 0..StableAfter
          /\ Failed(0) \in 0..MaxFailures /\ Failed(failures[p]) \in 0..MaxFailures
      <3>1. failures[p] \in Nat /\ StableAfter \in Nat
        BY <1>0, Configured DEF CountersOK, MaxFailures
      <3>2. \A n \in Nat : Failed(n) \in 0..MaxFailures
        BY CounterTypes
      <3>3. Failed(0) \in 0..MaxFailures /\ Failed(failures[p]) \in 0..MaxFailures
        BY <3>1, <3>2
      <3>4. 0 \in 0..StableAfter
        BY <3>1
      <3> QED
        BY <3>3, <3>4
    <2>2. \A f \in 0..MaxFailures : Backoff(f) \in 0..MaxBackoff
      BY CounterTypes, Configured DEF MaxFailures
    <2>3. CASE SchedulesRestart(p)
      <3>1. PICK f \in 0..MaxFailures : /\ failures' = [failures EXCEPT ![p] = f]
                                        /\ wait' = [wait EXCEPT ![p] = Backoff(f)]
                                        /\ stable' = [stable EXCEPT ![p] = 0]
        BY <2>1, <2>3 DEF SchedulesRestart
      <3> QED
        BY <1>0, <2>1, <2>2, <3>1 DEF CountersOK
    <2>4. CASE StartFails(p)
      <3>1. /\ failures' = [failures EXCEPT ![p] = Failed(failures[p])]
            /\ wait' = [wait EXCEPT ![p] = Backoff(failures'[p])] /\ stable' = stable
        BY <2>4 DEF StartFails
      <3>2. failures'[p] \in 0..MaxFailures
        BY <1>0, <2>1, <3>1 DEF CountersOK
      <3> QED
        BY <1>0, <2>1, <2>2, <3>1, <3>2 DEF CountersOK
    <2>5. CASE stable' = [stable EXCEPT ![p] = 0] /\ UNCHANGED <<failures, wait>>
      BY <1>0, <2>1, <2>5 DEF CountersOK
    <2>6. CASE UNCHANGED <<failures, wait, stable>>
      BY <1>0, <2>6 DEF CountersOK
    <2> QED
      BY <1>2, <2>3, <2>4, <2>5, <2>6
         DEF KillsHung, Reaps, Starts, StartFails, LeavesAlone, procVars
  <1>4. KillOK'
    <2>1. NoDeadline \in 0..NoDeadline /\ Grace \in 0..NoDeadline
      BY CounterTypes
    <2>2. CASE KillsHung(p)
      BY <1>0, <2>1, <2>2 DEF KillsHung, KillOK, procVars
    <2>3. CASE Reaps(p)
      BY <1>0, <2>1, <2>3 DEF Reaps, KillOK
    <2>4. CASE UNCHANGED kill /\ proc \subseteq proc'
      BY <1>0, <2>4 DEF KillOK
    <2> QED
      BY <1>2, <2>2, <2>3, <2>4 DEF Starts, StartFails, LeavesAlone, procVars
  <1>5. LifeOK'
    <2>1. CASE KillsHung(p)
      BY <1>0, <2>1 DEF KillsHung, LifeOK, Alive, Lives, procVars
    <2>2. CASE Reaps(p)
      BY <1>0, <2>2 DEF Reaps, LifeOK, Alive
    <2>3. CASE Starts(p)
      BY <1>0, <2>3 DEF Starts, LifeOK, Alive, Lives
    <2>4. CASE UNCHANGED <<proc, life>>
      BY <1>0, <2>4 DEF LifeOK, Alive
    <2> QED
      BY <1>2, <2>1, <2>2, <2>3, <2>4 DEF StartFails, LeavesAlone, procVars
  <1>6. MonitorOK'
    BY <1>0, <1>2 DEF KillsHung, Reaps, Starts, OnStart, StartFails, LeavesAlone, monitor, MonitorOK
  <1>7. pwm' \in BOOLEAN
    <2>1. pwm' = pwm \/ pwm' = (pwm /\ p # Motor)
      BY <1>2 DEF KillsHung, Reaps, Starts, StartFails, LeavesAlone
    <2> QED
      BY <1>0, <2>1 DEF SwitchesOK
  <1> QED
    BY <1>0, <1>1, <1>3, <1>4, <1>5, <1>6, <1>7
       DEF LauncherTypeOK, CountersOK, KillOK, LifeOK, MonitorOK, SwitchesOK

LEMMA LoopTypes ==
  ASSUME LauncherTypeOK, Loop
  PROVE  LauncherTypeOK'
  <1>1. /\ UNCHANGED <<proc, failures, stable, wait, seen, armed, life, link, shutdown>>
        /\ stage' = Step(1) \/ stage' = At("done")
    BY DEF Loop, procVars, monitor
  <1>2. stage' \in Stages
    <2>1. 1 \in 1..Len(Processes)
      BY Configured
    <2>2. Step(1) \in Stages /\ At("done") \in Stages
      BY <2>1, StageTypes
    <2> QED
      BY <1>1, <2>2
  <1>3. KillOK' /\ pwm' \in BOOLEAN
    <2>1. KillOK /\ pwm \in BOOLEAN
      BY DEF LauncherTypeOK, KillOK
    <2>2. CASE Supervise
      <3> DEFINE stale == Stale({p \in proc : kill[p] = NoDeadline})
      <3>1. stale \subseteq proc
        BY DEF Stale
      <3>2. kill' = [p \in Managed |-> IF p \in stale THEN Grace ELSE kill[p]]
        BY <2>2 DEF Supervise
      <3>3. pwm' = (pwm /\ Motor \notin stale)
        BY <2>2, Zenon DEF Supervise
      <3> HIDE DEF stale
      <3>4. Grace \in 0..NoDeadline
        BY Configured DEF NoDeadline
      <3>5. KillOK'
        BY <1>1, <2>1, <3>1, <3>2, <3>4 DEF KillOK
      <3>6. pwm' \in BOOLEAN
        BY <2>1, <3>3
      <3> QED
        BY <3>5, <3>6
    <2>3. CASE UNCHANGED <<kill, pwm>>
      BY <1>1, <2>1, <2>3 DEF KillOK
    <2> QED
      BY <2>2, <2>3 DEF Loop
  <1> QED
    BY <1>1, <1>2, <1>3 DEF LauncherTypeOK, KillOK, Alive

LEMMA TickTypes ==
  ASSUME PowersAreNatural, LauncherTypeOK, Tick
  PROVE  LauncherTypeOK'
  <1>0. CountersOK /\ KillOK /\ MonitorOK
    BY DEF LauncherTypeOK, CountersOK, KillOK, MonitorOK
  <1>1. stage' \in Stages /\ UNCHANGED <<proc, armed, failures, life, pwm, link, shutdown>>
    BY StageTypes DEF Tick
  <1>2. MonitorOK'
    <2>1. \A p \in Managed : Min({Oldest, seen[p] + 1}) \in 0..Oldest
      <3>1. \A p \in Managed : seen[p] + 1 \in Nat
        BY <1>0, OldestIsNatural DEF MonitorOK
      <3> QED
        BY <3>1, CounterTypes
    <2> QED
      BY <1>0, <1>1, <2>1 DEF Tick, MonitorOK
  <1>3. stable' \in [Managed -> 0..StableAfter]
    <2>1. \A p \in Managed : Min({StableAfter, stable[p] + 1}) \in 0..StableAfter
      <3>1. \A p \in Managed : stable[p] + 1 \in Nat
        BY <1>0, Configured DEF CountersOK
      <3> QED
        BY <3>1, CounterTypes
    <2> QED
      BY <1>0, <2>1 DEF Tick, CountersOK
  <1>4. wait' \in [Managed -> 0..MaxBackoff]
    BY <1>0, CounterTypes, Configured DEF Tick, CountersOK
  <1>5. KillOK'
    BY <1>0, <1>1, CounterTypes DEF Tick, KillOK
  <1> QED
    BY <1>1, <1>2, <1>3, <1>4, <1>5 DEF LauncherTypeOK, KillOK, MonitorOK, Alive

(***************************************************************************)
(* Every counter stays within its cap, for any list of processes, and only *)
(* a process the launcher holds is alive.                                  *)
(***************************************************************************)
THEOREM LauncherTypeCorrect ==
  ASSUME PowersAreNatural
  PROVE  Spec => []LauncherTypeOK
  <1>1. Init => LauncherTypeOK
    <2>1. At("loop") \in Stages
      BY StageTypes
    <2>2. /\ Oldest \in 0..Oldest /\ NoDeadline \in 0..NoDeadline
          /\ 0 \in 0..MaxFailures /\ 0 \in 0..StableAfter /\ 0 \in 0..MaxBackoff
      BY OldestIsNatural, Configured DEF NoDeadline, MaxFailures
    <2> QED
      BY <2>1, <2>2 DEF Init, LauncherTypeOK, Lives, Alive
  <1>2. LauncherTypeOK /\ [Next]_vars => LauncherTypeOK'
    <2> SUFFICES ASSUME LauncherTypeOK, [Next]_vars PROVE LauncherTypeOK'
      OBVIOUS
    <2>1. CASE LauncherStep \/ Tick
      <3>1. CASE Finish
        BY <3>1, StageTypes DEF Finish, LauncherTypeOK, Alive, Lives, procVars, monitor
      <3> QED
        BY <2>1, <3>1, LoopTypes, ManageTypes, TickTypes DEF LauncherStep
    <2>2. ASSUME NEW p \in Managed, Publishes(p) \/ Hangs(p) \/ Exits(p) PROVE LauncherTypeOK'
      <3>1. p \in proc
        BY <2>2 DEF Publishes, Hangs, Exits, Alive, LauncherTypeOK
      <3>2. /\ life' \in [Managed -> Lives] /\ \A q \in Managed : Alive(q)' => q \in proc
            /\ UNCHANGED <<proc, failures, stable, wait, kill, pwm, link, shutdown, stage>>
        BY <2>2, <3>1 DEF Publishes, Hangs, Exits, Alive, Lives, LauncherTypeOK, procVars
      <3>3. MonitorOK'
        <4>1. 0 \in 0..Oldest
          BY OldestIsNatural
        <4> QED
          BY <2>2, <4>1 DEF Publishes, OnSample, Hangs, Exits, LauncherTypeOK, MonitorOK, monitor
      <3> QED
        BY <3>2, <3>3 DEF LauncherTypeOK, MonitorOK
    <2>3. CASE MotorSets \/ LinkChanges \/ Signal
      BY <2>3 DEF MotorSets, LinkChanges, Signal, LauncherTypeOK, Alive, procVars, monitor
    <2>4. CASE Done \/ UNCHANGED vars
      BY <2>4 DEF Done, vars, LauncherTypeOK, Alive, procVars, monitor
    <2> QED
      BY <2>1, <2>2, <2>3, <2>4 DEF Next, Process
  <1> QED
    BY <1>1, <1>2, PTL DEF Spec

-------------------------------------------------------------------------------
(* Which samples a process is judged by                                      *)

\* A process that has not published since its start is not armed.
SampleInv ==
  /\ life \in [Managed -> Lives]
  /\ \A p \in Managed : life[p] = "starting" => p \notin armed

LEMMA SampleStep ==
  ASSUME SampleInv, [Next]_vars
  PROVE  SampleInv'
  <1> USE DEF Lives
  <1>1. ASSUME NEW p \in Managed, OnSample(p) \/ UNCHANGED monitor,
               NEW l \in Lives \ {"starting"}, life' = [life EXCEPT ![p] = l]
        PROVE  SampleInv'
    BY <1>1 DEF SampleInv, OnSample, monitor
  <1>2. ASSUME UNCHANGED <<life, armed>> PROVE SampleInv'
    BY <1>2 DEF SampleInv
  <1>3. ASSUME NEW i \in 1..Len(Processes), Manage(i) PROVE SampleInv'
    <2> DEFINE p == Processes[i]
    <2>1. /\ p \in Managed
          /\ KillsHung(p) \/ Reaps(p) \/ Starts(p) \/ StartFails(p) \/ LeavesAlone(p)
      BY <1>3, Configured DEF Manage
    <2> HIDE DEF p
    <2>2. CASE KillsHung(p)
      <3>1. life' = [life EXCEPT ![p] = "dead"] /\ UNCHANGED monitor
        BY <2>2 DEF KillsHung
      <3> QED
        BY <1>1, <2>1, <3>1
    <2>3. CASE Starts(p)
      BY <2>1, <2>3 DEF Starts, OnStart, SampleInv
    <2>4. CASE Reaps(p) \/ StartFails(p) \/ LeavesAlone(p)
      BY <1>2, <2>4 DEF Reaps, StartFails, LeavesAlone, monitor
    <2> QED
      BY <2>1, <2>2, <2>3, <2>4
  <1>4. ASSUME NEW p \in Managed, Publishes(p) \/ Hangs(p) \/ Exits(p) PROVE SampleInv'
    BY <1>1, <1>4 DEF Publishes, Hangs, Exits
  <1>5. CASE Finish
    BY <1>5 DEF Finish, SampleInv, monitor
  <1>6. CASE Loop \/ Tick \/ MotorSets \/ LinkChanges \/ Signal \/ Done \/ UNCHANGED vars
    BY <1>2, <1>6 DEF Loop, Tick, MotorSets, LinkChanges, Signal, Done, vars, monitor
  <1> QED
    BY <1>3, <1>4, <1>5, <1>6 DEF Next, LauncherStep, Process

\* There is one deadline for each process.
DeadlinesInv == kill = [p \in Managed |-> kill[p]]

LEMMA DeadlinesStep ==
  ASSUME DeadlinesInv, [Next]_vars
  PROVE  DeadlinesInv'
  <1>1. ASSUME NEW p, NEW k, kill' = [kill EXCEPT ![p] = k] PROVE DeadlinesInv'
    BY <1>1 DEF DeadlinesInv
  <1>2. CASE UNCHANGED kill
    BY <1>2 DEF DeadlinesInv
  <1>3. ASSUME Supervise \/ Tick PROVE DeadlinesInv'
    BY <1>3 DEF Supervise, Tick, DeadlinesInv
  <1>4. ASSUME NEW i \in 1..Len(Processes), Manage(i) PROVE DeadlinesInv'
    BY <1>1, <1>2, <1>4 DEF Manage, KillsHung, Reaps, Starts, StartFails, LeavesAlone
  <1> QED
    BY <1>2, <1>3, <1>4 DEF Next, LauncherStep, Loop, Finish, Process, Publishes, Hangs, Exits,
                            MotorSets, LinkChanges, Signal, Done, vars

(***************************************************************************)
(* Whatever the ages that a restart leaves in the monitor, and for any     *)
(* timeouts: the first deadline of a run follows a sample of that run.     *)
(***************************************************************************)
THEOREM SamplesAreOwn == Spec => JudgedByOwnSamples
  <1>1. Init => SampleInv /\ DeadlinesInv
    BY DEF Init, SampleInv, DeadlinesInv, Lives
  <1>2. SampleInv /\ DeadlinesInv /\ [Next]_vars => SampleInv' /\ DeadlinesInv'
    BY SampleStep, DeadlinesStep
  <1>3. ASSUME SampleInv, DeadlinesInv, Next, NEW p \in Managed,
               kill[p] = NoDeadline, kill'[p] # NoDeadline
        PROVE  life[p] # "starting"
    <2>1. CASE Loop
      <3> DEFINE stale == Stale({q \in proc : kill[q] = NoDeadline})
      <3>1. kill' = [q \in Managed |-> IF q \in stale THEN Grace ELSE kill[q]]
        BY <1>3, <2>1 DEF Loop, Supervise
      <3>2. p \in stale
        BY <1>3, <3>1
      <3>3. p \in armed
        BY <3>2 DEF Stale
      <3> QED
        BY <3>3, <1>3 DEF SampleInv
    <2>2. ASSUME NEW i \in 1..Len(Processes), Manage(i) PROVE FALSE
      <3> DEFINE q == Processes[i]
      <3>1. KillsHung(q) \/ Reaps(q) \/ Starts(q) \/ StartFails(q) \/ LeavesAlone(q)
        BY <2>2 DEF Manage
      <3>2. q \in Managed
        BY Configured
      <3> HIDE DEF q
      <3>3. CASE KillsHung(q)
        <4>1. kill[q] = 0 /\ kill' = [kill EXCEPT ![q] = Grace]
          BY <3>3 DEF KillsHung
        <4>2. NoDeadline # 0
          BY Configured DEF NoDeadline
        <4> QED
          BY <1>3, <4>1, <4>2 DEF DeadlinesInv
      <3>4. CASE Reaps(q)
        <4>1. kill' = [kill EXCEPT ![q] = NoDeadline]
          BY <3>4 DEF Reaps
        <4> QED
          BY <1>3, <4>1 DEF DeadlinesInv
      <3> QED
        BY <1>3, <3>1, <3>3, <3>4 DEF Starts, StartFails, LeavesAlone
    <2>3. CASE Tick
      <3>1. kill'[p] = NoDeadline
        BY <1>3, <2>3 DEF Tick
      <3> QED
        BY <1>3, <3>1
    <2>4. CASE Finish \/ Process \/ MotorSets \/ LinkChanges \/ Signal \/ Done
      BY <1>3, <2>4 DEF Finish, Process, Publishes, Hangs, Exits, MotorSets, LinkChanges, Signal,
                        Done, vars
    <2> QED
      BY <1>3, <2>1, <2>2, <2>3, <2>4 DEF Next, LauncherStep
  <1>4. SampleInv /\ DeadlinesInv /\ [Next]_vars
          => [\A p \in Managed : kill[p] = NoDeadline /\ kill'[p] # NoDeadline
                                   => life[p] # "starting"]_vars
    BY <1>3
  <1> QED
    BY <1>1, <1>2, <1>4, PTL DEF Spec, JudgedByOwnSamples
===============================================================================
