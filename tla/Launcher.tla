------------------------------- MODULE Launcher -------------------------------
(***************************************************************************)
(* The Pi's process supervisor, src/body/launcher.py: it starts the Body   *)
(* processes, restarts those that exit with a growing delay, sends SIGTERM *)
(* and then SIGKILL to those whose telemetry went stale, zeroes the motor  *)
(* PWM whenever the motor controller is gone, and stops everything on a    *)
(* signal.                                                                 *)
(*                                                                         *)
(* One pass of its loop is several steps: the liveness block, one step per *)
(* managed process in list order, then the sleep or the shutdown block.    *)
(* Processes, samples and signals interleave between them.  Time is        *)
(* counted in sleeps of the loop, the timeouts scaled down to a few.       *)
(***************************************************************************)
EXTENDS Naturals, Sequences, FiniteSetsExt, SequencesExt

CONSTANTS
  Processes,    \* the managed processes, in the order of the loop
  Motor,        \* the one that drives the wheels
  Timeout,      \* per process, how old its last sample may be
  Window,       \* how old another topic's sample may be to prove the link up
  Grace,        \* ticks from SIGTERM to SIGKILL
  StableAfter,  \* a run this long forgives earlier failures
  MaxBackoff    \* the longest delay before a restart

Managed == ToSet(Processes)

ASSUME LauncherAssumption ==
  /\ Processes \in Seq(Managed)
  /\ Motor \in Managed
  /\ IsInjective(Processes)
  /\ Timeout \in [Managed -> Nat \ {0}]
  /\ {Window, Grace, StableAfter, MaxBackoff} \subseteq Nat \ {0}

VARIABLES
  proc,         \* the processes the launcher holds a Popen of
  life,         \* what each process is doing
  seen,         \* age of the last sample of each topic, capped
  armed,        \* topics that arrived since their process was started
  kill,         \* ticks to SIGKILL; NoDeadline when none is set
  failures,     \* consecutive failures, capped where the delay is
  stable,       \* age of the current run, capped
  wait,         \* ticks to the next start
  pwm,          \* TRUE: the kernel's PWM drives the wheels
  link,         \* TRUE: samples reach the launcher
  shutdown,     \* a signal asked for the end
  stage         \* where the loop is

procVars == <<proc, failures, stable, wait>>
monitor  == <<seen, armed>>
vars == <<procVars, monitor, life, kill, pwm, link, shutdown, stage>>

Oldest      == Max({Timeout[p] : p \in Managed} \cup {Window}) + 1
NoDeadline  == Grace + 1
Step(i)     == [at |-> "manage", of |-> i]
At(place)   == [at |-> place, of |-> 0]
Stages      == {At(place) : place \in {"loop", "sleep", "closing", "done"}}
                 \cup {Step(i) : i \in 1..Len(Processes)}
Lives       == {"dead", "starting", "flowing", "hung"}

Alive(p)    == life[p] # "dead"

\* Delay after f failures: 1, 2, 4, ... up to the cap.
Backoff(f)  == IF f = 0 THEN 0 ELSE Min({MaxBackoff, 2^(f - 1)})
MaxFailures == MaxBackoff
Failed(f)   == Min({MaxFailures, f + 1})

Init ==
  /\ proc = {}
  /\ life = [p \in Managed |-> "dead"]
  /\ seen = [p \in Managed |-> Oldest]
  /\ armed = {}
  /\ kill = [p \in Managed |-> NoDeadline]
  /\ failures = [p \in Managed |-> 0]
  /\ stable = [p \in Managed |-> 0]
  /\ wait = [p \in Managed |-> 0]
  /\ pwm = FALSE
  /\ link = TRUE
  /\ shutdown = FALSE
  /\ stage = At("loop")

-----------------------------------------------------------------------------
(***************************************************************************)
(* The liveness monitor.                                                   *)
(***************************************************************************)
OnSample(p) ==
  /\ seen' = [seen EXCEPT ![p] = 0]
  /\ armed' = armed \cup {p}

\* Fault: a new process inherits the armed state of the one it replaces.
OnStart_KeepsArmed(p) == UNCHANGED monitor

OnStart(p) ==
  /\ armed' = armed \ {p}
  /\ UNCHANGED seen

\* Fault: the window excludes its own end.
OthersFresh_Strict(p) == \E q \in Managed \ {p} : seen[q] < Window

OthersFresh(p) == \E q \in Managed \ {p} : seen[q] <= Window

Stale(running) ==
  {p \in running \cap armed : seen[p] > Timeout[p] /\ OthersFresh(p)}

-----------------------------------------------------------------------------
(***************************************************************************)
(* The loop.                                                               *)
(***************************************************************************)
\* Head of a pass, with the liveness block.  The motors of a stale motor
\* controller are zeroed before it is asked to end.
Supervise ==
  LET stale == Stale({p \in proc : kill[p] = NoDeadline}) IN
  /\ ~shutdown
  /\ kill' = [p \in Managed |-> IF p \in stale THEN Grace ELSE kill[p]]
  /\ pwm' = (pwm /\ Motor \notin stale)

Loop ==
  /\ stage = At("loop")
  /\ \/ /\ Supervise
        /\ stage' = Step(1)
     \/ /\ shutdown
        /\ stage' = IF proc = {} THEN At("done") ELSE Step(1)
        /\ UNCHANGED <<kill, pwm>>
  /\ UNCHANGED <<procVars, monitor, life, link, shutdown>>

\* The grace of a process that ignored SIGTERM is over: SIGKILL.
KillsHung(p) ==
  /\ p \in proc
  /\ Alive(p)
  /\ kill[p] = 0
  /\ life' = [life EXCEPT ![p] = "dead"]
  /\ kill' = [kill EXCEPT ![p] = Grace]
  /\ UNCHANGED <<procVars, monitor, pwm>>

\* The delay of a process that has just exited.
SchedulesRestart(p) ==
  LET f == Failed(IF stable[p] >= StableAfter THEN 0 ELSE failures[p]) IN
  /\ failures' = [failures EXCEPT ![p] = f]
  /\ wait' = [wait EXCEPT ![p] = Backoff(f)]
  /\ stable' = [stable EXCEPT ![p] = 0]

\* Fault: the deadline of the old process is kept for the new one.
Reaps_KeepsDeadline(p) ==
  /\ p \in proc
  /\ ~Alive(p)
  /\ proc' = proc \ {p}
  /\ pwm' = (pwm /\ p # Motor)
  /\ IF shutdown THEN UNCHANGED <<failures, wait, stable>>
                 ELSE SchedulesRestart(p)
  /\ UNCHANGED <<monitor, life, kill>>

\* Fault: the outputs are zeroed only where a restart follows.
Reaps_NotInShutdown(p) ==
  /\ p \in proc
  /\ ~Alive(p)
  /\ proc' = proc \ {p}
  /\ kill' = [kill EXCEPT ![p] = NoDeadline]
  /\ pwm' = (pwm /\ (p # Motor \/ shutdown))
  /\ IF shutdown THEN UNCHANGED <<failures, wait, stable>>
                 ELSE SchedulesRestart(p)
  /\ UNCHANGED <<monitor, life>>

Reaps(p) ==
  /\ p \in proc
  /\ ~Alive(p)
  /\ proc' = proc \ {p}
  /\ kill' = [kill EXCEPT ![p] = NoDeadline]
  /\ pwm' = (pwm /\ p # Motor)
  /\ IF shutdown THEN UNCHANGED <<failures, wait, stable>>
                 ELSE SchedulesRestart(p)
  /\ UNCHANGED <<monitor, life>>

Starts(p) ==
  /\ ~shutdown
  /\ p \notin proc
  /\ wait[p] = 0
  /\ proc' = proc \cup {p}
  /\ life' = [life EXCEPT ![p] = "starting"]
  /\ stable' = [stable EXCEPT ![p] = 0]
  /\ OnStart(p)
  /\ UNCHANGED <<failures, wait, kill, pwm>>

\* Popen raises OSError.
StartFails(p) ==
  /\ ~shutdown
  /\ p \notin proc
  /\ wait[p] = 0
  /\ failures' = [failures EXCEPT ![p] = Failed(@)]
  /\ wait' = [wait EXCEPT ![p] = Backoff(failures'[p])]
  /\ UNCHANGED <<proc, stable, monitor, life, kill, pwm>>

LeavesAlone(p) ==
  /\ IF p \in proc THEN Alive(p) /\ kill[p] # 0
                   ELSE shutdown \/ wait[p] # 0
  /\ UNCHANGED <<procVars, monitor, life, kill, pwm>>

AfterStep(i) ==
  IF i < Len(Processes) THEN Step(i + 1)
  ELSE IF shutdown THEN At("closing") ELSE At("sleep")

\* A process that dies of SIGKILL at once is reaped in the same pass.
Manage(i) ==
  LET p == Processes[i] IN
  /\ stage = Step(i)
  /\ \/ /\ Reaps(p) \/ Starts(p) \/ StartFails(p) \/ LeavesAlone(p)
        /\ stage' = AfterStep(i)
     \/ /\ KillsHung(p)
        /\ stage' \in {stage, AfterStep(i)}
  /\ UNCHANGED <<link, shutdown>>

\* Fault: the processes that ignored SIGTERM survive the launcher.
Finish_LeavesSurvivors ==
  /\ stage = At("closing")
  /\ pwm' = FALSE
  /\ stage' = At("done")
  /\ UNCHANGED <<procVars, monitor, life, kill, link, shutdown>>

\* The shutdown block: SIGTERM to all, a wait in which they may end (Exits),
\* SIGKILL to the rest, the outputs zeroed last.  The wait's length is left
\* open: it may be over at any time.
Finish ==
  /\ stage = At("closing")
  /\ life' = [p \in Managed |-> IF p \in proc THEN "dead" ELSE life[p]]
  /\ pwm' = FALSE
  /\ stage' = At("done")
  /\ UNCHANGED <<procVars, monitor, kill, link, shutdown>>

LauncherStep == Loop \/ (\E i \in 1..Len(Processes) : Manage(i)) \/ Finish

-----------------------------------------------------------------------------
(***************************************************************************)
(* The processes, the link and the signals.                                *)
(***************************************************************************)
\* A process publishes its topic; a hung one may come back.
Publishes(p) ==
  /\ Alive(p)
  /\ life[p] = "flowing" => link /\ seen[p] # 0
  /\ life' = [life EXCEPT ![p] = "flowing"]
  /\ IF link THEN OnSample(p) ELSE UNCHANGED monitor
  /\ UNCHANGED <<procVars, kill, pwm, link, shutdown, stage>>

Hangs(p) ==
  /\ life[p] = "flowing"
  /\ life' = [life EXCEPT ![p] = "hung"]
  /\ UNCHANGED <<procVars, monitor, kill, pwm, link, shutdown, stage>>

\* A process ends, by itself or after SIGTERM.  What its PWM channels hold
\* stays.
Exits(p) ==
  /\ Alive(p)
  /\ life' = [life EXCEPT ![p] = "dead"]
  /\ UNCHANGED <<procVars, monitor, kill, pwm, link, shutdown, stage>>

\* A motor controller drives or stops as long as it lives: one whose
\* telemetry is stale may still drive.
MotorSets ==
  /\ life[Motor] \in {"flowing", "hung"}
  /\ pwm' = ~pwm
  /\ UNCHANGED <<procVars, monitor, life, kill, link, shutdown, stage>>

LinkChanges ==
  /\ link' = ~link
  /\ UNCHANGED <<procVars, monitor, life, kill, pwm, shutdown, stage>>

Signal ==
  /\ ~shutdown
  /\ shutdown' = TRUE
  /\ UNCHANGED <<procVars, monitor, life, kill, pwm, link, stage>>

Down(n) == IF n = 0 THEN 0 ELSE n - 1

\* The loop's sleep is the tick.  A process that flows publishes at least
\* once in each.
Tick ==
  /\ stage = At("sleep")
  /\ link => \A p \in Managed : life[p] = "flowing" => seen[p] = 0
  /\ seen' = [p \in Managed |-> Min({Oldest, seen[p] + 1})]
  /\ kill' = [p \in Managed |-> IF kill[p] = NoDeadline THEN NoDeadline
                                ELSE Down(kill[p])]
  /\ stable' = [p \in Managed |-> IF p \in proc THEN Min({StableAfter,
                                    stable[p] + 1}) ELSE stable[p]]
  /\ wait' = [p \in Managed |-> Down(wait[p])]
  /\ stage' = At("loop")
  /\ UNCHANGED <<proc, armed, failures, life, pwm, link, shutdown>>

Process == \E p \in Managed : Publishes(p) \/ Hangs(p) \/ Exits(p)

Done == stage = At("done") /\ UNCHANGED vars

Next == \/ LauncherStep \/ Tick
        \/ Process \/ MotorSets \/ LinkChanges \/ Signal
        \/ Done

Spec == Init /\ [][Next]_vars

\* The loop runs on, its sleeps end although the link flaps, and a process
\* that flows publishes.
FairSpec ==
  /\ Spec
  /\ WF_vars(LauncherStep)
  /\ SF_vars(Tick)
  /\ \A p \in Managed : WF_vars(life[p] = "flowing" /\ Publishes(p))

-----------------------------------------------------------------------------
(***************************************************************************)
(* Type invariant of the launcher, its monitor and its processes: counters *)
(* stay within their caps and only a process it holds can be alive.        *)
(***************************************************************************)
LauncherTypeOK ==
  /\ proc \subseteq Managed
  /\ life \in [Managed -> Lives]
  /\ \A p \in Managed : Alive(p) => p \in proc
  /\ seen \in [Managed -> 0..Oldest]
  /\ armed \subseteq Managed
  /\ kill \in [Managed -> 0..NoDeadline]
  /\ \A p \in Managed \ proc : kill[p] = NoDeadline
  /\ failures \in [Managed -> 0..MaxFailures]
  /\ stable \in [Managed -> 0..StableAfter]
  /\ wait \in [Managed -> 0..MaxBackoff]
  /\ {pwm, link, shutdown} \subseteq BOOLEAN
  /\ stage \in Stages

(***************************************************************************)
(* When the launcher has noticed that the motor controller is gone, and    *)
(* when it has ended itself, the wheels are not driven, although the       *)
(* kernel's PWM outlives the process, a stale controller drives on after   *)
(* the zeroing of the liveness block, and the exit may fall before, in or  *)
(* after the shutdown.                                                     *)
(***************************************************************************)
MotorlessIsZeroed ==
  (Motor \notin proc \/ stage = At("done")) => ~pwm

(***************************************************************************)
(* A process is sent SIGTERM for stale telemetry only after a sample of    *)
(* its own run: the age that its predecessor's last sample has reached by  *)
(* the restart is not held against it, however long it takes to start.     *)
(***************************************************************************)
JudgedByOwnSamples ==
  [][\A p \in Managed :
       kill[p] = NoDeadline /\ kill'[p] # NoDeadline
         => life[p] # "starting"]_vars

(***************************************************************************)
(* A process that hangs after the launcher has heard of it does not stay   *)
(* hung while the link is up and another process publishes: it comes back  *)
(* by itself, or the launcher ends it, by force if it ignores SIGTERM.     *)
(***************************************************************************)
ProvesLink(p) == link /\ \E q \in Managed \ {p} : life[q] = "flowing"

HungIsReplaced ==
  \A p \in Managed :
    (life[p] = "hung" /\ p \in armed)
      ~> (life[p] # "hung" \/ ~ProvesLink(p))

(***************************************************************************)
(* A signal ends the launcher with no process of its own left alive,       *)
(* whatever the loop was doing: starting a process, waiting for a hung one *)
(* or sleeping through a delay.                                            *)
(***************************************************************************)
ShutdownEnds ==
  shutdown ~> (stage = At("done") /\ \A p \in Managed : ~Alive(p))

(***************************************************************************)
(* launcher.py:69-71: staleness is suppressed when nothing arrives, since  *)
(* then the link is down "and restarting every process would not help".    *)
(* So a process that publishes is not sent SIGTERM.  The code breaks it    *)
(* when the link comes back: the first topic to arrive makes every other   *)
(* one stale.                                                              *)
(***************************************************************************)
OutageSparesHealthy ==
  [][\A p \in Managed :
       kill[p] = NoDeadline /\ kill'[p] # NoDeadline
         => life[p] # "flowing"]_vars
=============================================================================
