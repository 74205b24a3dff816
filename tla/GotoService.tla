------------------------------ MODULE GotoService ------------------------------
(***************************************************************************)
(* What Tier-3 promises to whoever sends body/drive/goto, without queues,  *)
(* threads, ticks or statuses: it has at most one goal, a command it takes *)
(* is newer than every one it took before, and a goal that ended is gone.  *)
(* A restart forgets everything.                                           *)
(***************************************************************************)
EXTENDS Integers

CONSTANT None   \* stands for "no goal"

VARIABLES
  active,       \* the id of the goal, or None
  used          \* the ids taken so far

serviceVars == <<active, used>>

Init == active = None /\ used = {}

\* A command is taken: it becomes the goal, or it is refused, and a refusal
\* may also end the goal before it.
Take(id) ==
  /\ \A i \in used : i < id
  /\ used' = used \cup {id}
  /\ active' \in {id, active, None}

End ==
  /\ active # None
  /\ active' = None
  /\ UNCHANGED used

Restart == active' = None /\ used' = {}

Next == (\E id \in used' : Take(id)) \/ End \/ Restart

Spec == Init /\ [][Next]_serviceVars

===============================================================================
