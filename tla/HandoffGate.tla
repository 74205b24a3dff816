------------------------------ MODULE HandoffGate ------------------------------
(***************************************************************************)
(* body/lib/handoff_gate.py: the breakpoint of one tier.  The inspector    *)
(* arms it, lets one handoff pass (continue) or disarms it; the producer   *)
(* asks whether to hold, and takes the token when it goes on.  Every       *)
(* method runs under the gate's lock, so each is one step.                 *)
(***************************************************************************)
EXTENDS Integers

CONSTANTS
  ArmLease,    \* arm_lease_s of the gate; NoLease: an arm lasts until disarm
  MsgLeases,   \* the lease_s an arm message may carry; NoLease: none
  NoLease      \* stands for None and for every value that is not positive

ASSUME GateAssumption ==
  /\ MsgLeases \subseteq (Nat \ {0}) \cup {NoLease}
  /\ ArmLease \in (Nat \ {0}) \cup {NoLease}
  /\ NoLease \notin Int

VARIABLES
  armed,
  token,    \* _continue: one handoff may pass
  left      \* time until _expiry; NoLease: None; -1: it is past

gateVars == <<armed, token, left>>

Leases == (MsgLeases \cup {ArmLease}) \ {NoLease}

GateTypeOK ==
  /\ armed \in BOOLEAN
  /\ token \in BOOLEAN
  /\ left \in {NoLease, -1} \cup UNION {0 .. l : l \in Leases}

GateInit ==
  /\ armed = FALSE
  /\ token = FALSE
  /\ left = NoLease

\* The lease of a message comes before that of the gate.
Arm(lease) ==
  /\ armed' = TRUE
  /\ left' = IF lease # NoLease THEN lease ELSE ArmLease
  /\ UNCHANGED token

Disarm ==
  /\ armed' = FALSE
  /\ token' = FALSE
  /\ left' = NoLease

\* A token is taken whether or not the tier is armed.
Continue ==
  /\ token' = TRUE
  /\ UNCHANGED <<armed, left>>

OnCtrl == (\E lease \in MsgLeases : Arm(lease)) \/ Disarm \/ Continue

\* Fault: a lease that is past does not disarm.
Lapsed_Never == FALSE

Lapsed == armed /\ left = -1

\* _armed_locked, which every question to the gate goes through, disarms a gate
\* whose lease is past.
CheckLease == IF Lapsed THEN Disarm ELSE UNCHANGED gateVars

ShouldHold == armed /\ ~Lapsed /\ ~token

\* Fault: the token stays for the next handoff.
ConsumeContinue_Keeps == UNCHANGED gateVars

ConsumeContinue ==
  /\ token' = FALSE
  /\ UNCHANGED <<armed, left>>

\* Fault: a lease that is past goes on running.
GatePasses_Negative(d) ==
  /\ left' = IF left = NoLease THEN NoLease ELSE left - d
  /\ UNCHANGED <<armed, token>>

GatePasses(d) ==
  /\ left' = IF left = NoLease THEN NoLease ELSE IF left >= d THEN left - d ELSE -1
  /\ UNCHANGED <<armed, token>>

===============================================================================
