--------------------------- MODULE DriveSafetyProofs ---------------------------
(***************************************************************************)
(* What a desktop program may conclude from the statuses it reads: from    *)
(* the acknowledgement of a cancel, and from IDLE.  For the first, one     *)
(* program drives the robot, and its ids "strictly exceed any previous     *)
(* session's" (drive_client.py:56-63, the seed is the wall clock); two     *)
(* programs that give the same id may each take the other's status for     *)
(* their own.  The second needs neither.                                   *)
(***************************************************************************)
EXTENDS DriveLinkProofs

OneProgram ==
  /\ \A c, d \in Clients : c = d
  /\ \A c \in Clients : PiWatermark <= Seed[c]

Elems(q) == {q[i] : i \in 1 .. Len(q)}

\* The commands that wait to be put or are under way.
Flying(c) == Elems(gotoQ[c]) \cup ({callerPut[c], resendPut[c]} \ {NoCmd})

(***************************************************************************)
(* The client's own records: what it may still send has an id that it      *)
(* gave, the newest one if it is pending or a path to be refreshed, and    *)
(* the id says whether it is a cancel.                                     *)
(***************************************************************************)
Given(c, m) ==
  /\ m.id \in Seed[c] + 1 .. cmdId[c]
  /\ m.kind = "cancel" <=> m.id \in cancels[c]

Newest(c, m) == Given(c, m) /\ m.id = cmdId[c]

ClientInv ==
  \A c \in Clients :
    /\ Seed[c] <= cmdId[c]
    /\ cancels[c] \subseteq Seed[c] + 1 .. cmdId[c]
    /\ \A m \in Flying(c) : Given(c, m)
    /\ pending[c].cmd # NoCmd => Newest(c, pending[c].cmd)
    /\ route[c] # NoRoute => /\ route[c].id = cmdId[c]
                             /\ cmdId[c] \in Seed[c] + 1 .. cmdId[c] /\ cmdId[c] \notin cancels[c]
    /\ callerPut[c] # NoCmd => callerPut[c].id = cmdId[c]
    /\ AtomicPuts /\ resendPut[c] # NoCmd => resendPut[c].id = cmdId[c]

-------------------------------------------------------------------------------
(* What a step does to the records of a client                               *)

LEMMA QueueElems ==
  ASSUME NEW S, NEW q \in Seq(S)
  PROVE  /\ \A m \in S : Elems(Append(q, m)) = Elems(q) \cup {m}
         /\ q # <<>> => Elems(Tail(q)) \subseteq Elems(q) /\ Head(q) \in Elems(q)
         /\ Elems(<<>>) = {}
  <1>1. ASSUME NEW m \in S PROVE Elems(Append(q, m)) = Elems(q) \cup {m}
    <2>1. /\ Len(Append(q, m)) = Len(q) + 1 /\ Append(q, m)[Len(q) + 1] = m
          /\ \A i \in 1 .. Len(q) : Append(q, m)[i] = q[i]
          /\ Len(q) \in Nat
      OBVIOUS
    <2>2. 1 .. Len(q) + 1 = (1 .. Len(q)) \cup {Len(q) + 1}
      BY <2>1
    <2> QED
      BY <2>1, <2>2 DEF Elems
  <1>2. ASSUME q # <<>> PROVE Elems(Tail(q)) \subseteq Elems(q) /\ Head(q) \in Elems(q)
    <2>1. Head(q) = q[1] /\ 1 \in 1 .. Len(q)
      BY <1>2
    <2>2. \A i \in 1 .. Len(Tail(q)) : Tail(q)[i] = q[i + 1] /\ i + 1 \in 1 .. Len(q)
      BY <1>2
    <2> QED
      BY <2>1, <2>2 DEF Elems
  <1>3. Elems(<<>>) = {}
    BY DEF Elems
  <1> QED
    BY <1>1, <1>2, <1>3

\* The client gives the next id to m.
Issued(c, m) ==
  /\ m.id = NextId(c) /\ ~Putting(c)
  /\ cmdId'[c] = m.id
  /\ cancels'[c] = IF m.kind = "cancel" THEN cancels[c] \cup {m.id} ELSE cancels[c]
  /\ pending'[c].cmd = m /\ callerPut'[c] = m
  /\ route'[c] = NoRoute \/ (m.kind = "path" /\ route'[c].id = m.id)
  /\ UNCHANGED <<gotoQ, resendPut>>

\* The path of the client's route, sent again.
IsRoute(c, m) == route[c] # NoRoute /\ m.kind = "path" /\ m.id = route[c].id

\* It gives none.
Kept(c) ==
  /\ cmdId'[c] = cmdId[c] /\ cancels'[c] = cancels[c]
  /\ pending'[c].cmd \in {pending[c].cmd, NoCmd}
  /\ route'[c] = NoRoute \/ (route[c] # NoRoute /\ route'[c].id = route[c].id)
  /\ callerPut'[c] \in {callerPut[c], NoCmd}
  /\ resendPut'[c] \in {resendPut[c], pending[c].cmd, NoCmd}
  /\ \A m \in Flying(c)' : \/ m \in Flying(c)
                           \/ m # NoCmd /\ m = pending[c].cmd
                           \/ IsRoute(c, m)

LEMMA ClientEffect ==
  ASSUME TypeOK, OneProgram, NEW c \in Clients, [Next]_vars
  PROVE  Kept(c) \/ \E m \in Command : Issued(c, m)
  <1>0. /\ cmdId \in [Clients -> Nat] /\ pending \in [Clients -> PendingType]
        /\ callerPut \in [Clients -> Command \cup {NoCmd}]
        /\ resendPut \in [Clients -> Command \cup {NoCmd}]
        /\ route \in [Clients -> [id : Nat, seq : Nat]]
        /\ gotoQ \in [Clients -> Seq(Command)] /\ cancels \in [Clients -> SUBSET Nat]
        /\ NextId(c) \in Nat /\ NoPending.cmd = NoCmd /\ NoCmd \notin Command
    BY HeadTypes, Constants DEF TypeOK, ClientTypeOK, ClientIds, PendingType, NoPending, Ids
  <1>1. CASE IssueCmd(c)
    <2>1. PICK kind \in CmdKinds, ok \in {TRUE, ~Malformed} :
            /\ Issue(c, [kind |-> kind, id |-> NextId(c),
                         seq |-> IF kind = "path" THEN 1 ELSE 0, ok |-> ok])
            /\ cancels' = [cancels EXCEPT ![c] =
                             IF kind = "cancel" THEN @ \cup {NextId(c)} ELSE @]
      BY <1>1 DEF IssueCmd
    <2> DEFINE m == [kind |-> kind, id |-> NextId(c), seq |-> IF kind = "path" THEN 1 ELSE 0, ok |-> ok]
    <2>2. /\ m \in Command /\ m.id = NextId(c) /\ m.kind = kind
      BY <1>0, Constants DEF Command, Ids
    <2>3. /\ cmdId' = [cmdId EXCEPT ![c] = m.id]
          /\ pending' = [pending EXCEPT ![c] = [cmd |-> m, resends |-> 0]]
          /\ callerPut' = [callerPut EXCEPT ![c] = m]
          /\ route' = [route EXCEPT ![c] = IF m.kind = "path" THEN [id |-> m.id, seq |-> m.seq] ELSE NoRoute]
          /\ resendPut' = resendPut
      BY <2>1 DEF Issue
    <2>4. ~Putting(c) /\ gotoQ' = gotoQ
      BY <1>1 DEF IssueCmd
    <2> HIDE DEF m
    <2>5. /\ cmdId'[c] = m.id /\ pending'[c].cmd = m /\ callerPut'[c] = m
          /\ route'[c] = NoRoute \/ (m.kind = "path" /\ route'[c].id = m.id)
          /\ cancels'[c] = IF m.kind = "cancel" THEN cancels[c] \cup {m.id} ELSE cancels[c]
      BY <1>0, <2>1, <2>2, <2>3
    <2> QED
      BY <2>2, <2>3, <2>4, <2>5 DEF Issued
  <1>2. CASE PutCmd(c) \/ PutResend(c) \/ RefreshPath(c)
    <2>1. PICK m \in Command : /\ gotoQ' = [gotoQ EXCEPT ![c] = Append(@, m)]
                               /\ m \in Flying(c) \/ IsRoute(c, m)
      <3>1. CASE PutCmd(c)
        <4>1. callerPut[c] \in Command /\ callerPut[c] \in Flying(c)
          BY <1>0, <3>1 DEF PutCmd, CallerPuts, Flying
        <4> QED
          BY <3>1, <4>1 DEF PutCmd
      <3>2. CASE PutResend(c)
        <4>1. resendPut[c] \in Command /\ resendPut[c] \in Flying(c)
          BY <1>0, <3>2 DEF PutResend, PumpPuts, Flying
        <4> QED
          BY <3>2, <4>1 DEF PutResend
      <3>3. CASE RefreshPath(c)
        <4> DEFINE m == [kind |-> "path", id |-> route[c].id, seq |-> route'[c].seq, ok |-> TRUE]
        <4>1. route[c].id \in Nat /\ route'[c].seq \in Nat
          BY <1>0, <3>3 DEF RefreshPath, Refresh
        <4>2. m \in Command
          BY <4>1 DEF Command, Kind, Ids
        <4>3. IsRoute(c, m)
          BY <3>3 DEF RefreshPath, Refresh, IsRoute
        <4>4. gotoQ' = [gotoQ EXCEPT ![c] = Append(@, m)]
          BY <3>3 DEF RefreshPath
        <4> QED
          BY <4>2, <4>3, <4>4
      <3> QED
        BY <1>2, <3>1, <3>2, <3>3
    <2>2. /\ UNCHANGED <<cmdId, cancels, pending>>
          /\ callerPut'[c] \in {callerPut[c], NoCmd} /\ resendPut'[c] \in {resendPut[c], NoCmd}
      BY <1>0, <1>2 DEF PutCmd, CallerPuts, PutResend, PumpPuts, RefreshPath, Refresh, hist
    <2>3. route'[c] = route[c] \/ (route[c] # NoRoute /\ route'[c].id = route[c].id)
      BY <1>0, <1>2 DEF PutCmd, CallerPuts, PutResend, PumpPuts, RefreshPath, Refresh
    <2>4. gotoQ'[c] = Append(gotoQ[c], m) /\ gotoQ[c] \in Seq(Command)
      BY <1>0, <2>1
    <2>5. Elems(gotoQ'[c]) = Elems(gotoQ[c]) \cup {m}
      BY <2>4, QueueElems
    <2>6. \A x \in Flying(c)' : x \in Flying(c) \/ IsRoute(c, x)
      BY <2>1, <2>2, <2>5 DEF Flying, Elems
    <2> QED
      BY <2>2, <2>3, <2>6 DEF Kept
  <1>3. CASE ReceiveStatus(c) \/ Resend(c) \/ RestartDesktop(c)
    <2>1. /\ UNCHANGED <<cmdId, cancels, gotoQ>>
          /\ callerPut'[c] \in {callerPut[c], NoCmd} /\ route'[c] \in {route[c], NoRoute}
      BY <1>0, <1>3 DEF ReceiveStatus, OnStatus, Resend, PumpResend, PumpGivesUp, RestartDesktop,
                        ClientRestart, hist
    <2>2. resendPut'[c] \in {resendPut[c], pending[c].cmd, NoCmd}
      BY <1>0, <1>3 DEF ReceiveStatus, OnStatus, Resend, PumpResend, PumpGivesUp, RestartDesktop,
                        ClientRestart
    <2>3. pending'[c].cmd \in {pending[c].cmd, NoCmd}
      <3>1. \A p \in PendingType : [p EXCEPT !.resends = p.resends + 1].cmd = p.cmd
        BY DEF PendingType
      <3> QED
        BY <1>0, <1>3, <3>1 DEF ReceiveStatus, OnStatus, Resend, PumpResend, PumpGivesUp,
                                RestartDesktop, ClientRestart
    <2>4. \A x \in Flying(c)' : x \in Flying(c) \/ (x # NoCmd /\ x = pending[c].cmd)
      BY <2>1, <2>2 DEF Flying, Elems
    <2> QED
      BY <2>1, <2>2, <2>3, <2>4 DEF Kept
  <1>4. CASE LoseCmd(c) \/ ReceiveCmd(c)
    <2>1. UNCHANGED <<cmdId, cancels, pending, callerPut, resendPut, route>>
      BY <1>4 DEF LoseCmd, ReceiveCmd, clientVars, hist
    <2>2. Elems(gotoQ'[c]) \subseteq Elems(gotoQ[c])
      <3>1. gotoQ[c] # <<>> /\ gotoQ'[c] = Tail(gotoQ[c]) /\ gotoQ[c] \in Seq(Command)
        BY <1>0, <1>4 DEF LoseCmd, ReceiveCmd
      <3> QED
        BY <3>1, QueueElems
    <2>3. \A x \in Flying(c)' : x \in Flying(c)
      BY <2>1, <2>2 DEF Flying, Elems
    <2> QED
      BY <2>1, <2>3 DEF Kept
  <1>5. CASE LoseStatus(c) \/ OtherCallback \/ PiTick \/ RestartPi \/ UNCHANGED vars
    <2>1. UNCHANGED <<cmdId, cancels, pending, callerPut, resendPut, route, gotoQ>>
      BY <1>5 DEF LoseStatus, OtherCallback, PiTick, SilentStep, PublishingStep, ArrivingStep,
                  RestartPi, vars, clientVars, hist
    <2> QED
      BY <2>1 DEF Kept, Flying, Elems
  <1>6. \A d \in Clients : d = c
    BY DEF OneProgram
  <1> QED
    BY <1>1, <1>2, <1>3, <1>4, <1>5, <1>6 DEF Next

\* Ids only grow, and only the newest becomes a cancel's.
LEMMA IdsGrow ==
  ASSUME TypeOK, OneProgram, NEW c \in Clients, [Next]_vars
  PROVE  /\ cmdId[c] \in Nat /\ cmdId'[c] \in Nat /\ cmdId[c] <= cmdId'[c]
         /\ cancels[c] \subseteq cancels'[c]
         /\ \A id \in cancels'[c] : id \in cancels[c] \/ (id = cmdId'[c] /\ cmdId[c] < id)
  <1>1. cmdId[c] \in Nat /\ maxSeen[c] \in Nat
    BY DEF TypeOK, ClientTypeOK, ClientIds
  <1>2. NextId(c) \in Nat /\ cmdId[c] < NextId(c)
    BY <1>1 DEF NextId, Larger2
  <1>3. CASE Kept(c)
    BY <1>1, <1>3 DEF Kept
  <1>4. ASSUME NEW m \in Command, Issued(c, m)
        PROVE  /\ cmdId'[c] = NextId(c)
               /\ cancels[c] \subseteq cancels'[c]
               /\ \A id \in cancels'[c] : id \in cancels[c] \/ id = NextId(c)
    BY <1>4 DEF Issued
  <1> QED
    BY <1>1, <1>2, <1>3, <1>4, ClientEffect

LEMMA ClientInvStep ==
  ASSUME TypeOK, OneProgram, ClientInv, [Next]_vars
  PROVE  ClientInv'
  <1> SUFFICES ASSUME NEW c \in Clients
               PROVE  /\ Seed[c] <= cmdId'[c]
                      /\ cancels'[c] \subseteq Seed[c] + 1 .. cmdId'[c]
                      /\ \A m \in Flying(c)' : Given(c, m)'
                      /\ pending'[c].cmd # NoCmd => Newest(c, pending[c].cmd)'
                      /\ route'[c] # NoRoute =>
                           /\ route'[c].id = cmdId'[c]
                           /\ cmdId'[c] \in Seed[c] + 1 .. cmdId'[c] /\ cmdId'[c] \notin cancels'[c]
                      /\ callerPut'[c] # NoCmd => callerPut'[c].id = cmdId'[c]
                      /\ AtomicPuts /\ resendPut'[c] # NoCmd => resendPut'[c].id = cmdId'[c]
    BY DEF ClientInv, Newest, Given
  <1>0. Seed[c] \in Nat /\ \A m \in Command : m.id \in Nat /\ m # NoCmd
    BY Constants, RecordTypes
  <1>1. /\ cmdId[c] \in Nat /\ cmdId'[c] \in Nat /\ cmdId[c] <= cmdId'[c]
        /\ cancels[c] \subseteq cancels'[c]
        /\ \A id \in cancels'[c] : id \in cancels[c] \/ (id = cmdId'[c] /\ cmdId[c] < id)
    BY IdsGrow
  <1>2. /\ Seed[c] <= cmdId[c] /\ cancels[c] \subseteq Seed[c] + 1 .. cmdId[c]
        /\ \A m \in Flying(c) : Given(c, m)
        /\ pending[c].cmd # NoCmd => Newest(c, pending[c].cmd)
        /\ route[c] # NoRoute => /\ route[c].id = cmdId[c]
                                 /\ cmdId[c] \in Seed[c] + 1 .. cmdId[c] /\ cmdId[c] \notin cancels[c]
        /\ callerPut[c] # NoCmd => callerPut[c].id = cmdId[c]
        /\ AtomicPuts /\ resendPut[c] # NoCmd => resendPut[c].id = cmdId[c]
    BY DEF ClientInv
  <1>3. Seed[c] <= cmdId'[c] /\ cancels'[c] \subseteq Seed[c] + 1 .. cmdId'[c]
    BY <1>0, <1>1, <1>2
  <1>4. \A m : Given(c, m) => Given(c, m)'
    <2> SUFFICES ASSUME NEW m, Given(c, m) PROVE Given(c, m)'
      OBVIOUS
    <2>1. m.id \in Seed[c] + 1 .. cmdId[c]
      BY DEF Given
    <2>2. m.id \in Seed[c] + 1 .. cmdId'[c] /\ m.id <= cmdId[c]
      BY <1>0, <1>1, <2>1
    <2>3. m.id \in cancels'[c] <=> m.id \in cancels[c]
      BY <1>1, <2>2
    <2> QED
      BY <2>2, <2>3 DEF Given
  <1>5. CASE Kept(c)
    <2>1. cmdId'[c] = cmdId[c] /\ cancels'[c] = cancels[c]
      BY <1>5 DEF Kept
    <2>2. ASSUME NEW m \in Flying(c)' PROVE Given(c, m)'
      <3>1. CASE m \in Flying(c)
        BY <1>2, <1>4, <3>1
      <3>2. CASE m # NoCmd /\ m = pending[c].cmd
        BY <1>2, <1>4, <3>2 DEF Newest
      <3>3. CASE IsRoute(c, m)
        BY <1>2, <2>1, <3>3 DEF IsRoute, Given
      <3> QED
        BY <1>5, <2>2, <3>1, <3>2, <3>3 DEF Kept
    <2>3. pending'[c].cmd # NoCmd => Newest(c, pending[c].cmd)'
      BY <1>2, <1>4, <1>5, <2>1 DEF Kept, Newest
    <2>4. /\ route'[c] # NoRoute => route[c] # NoRoute /\ route'[c].id = route[c].id
          /\ callerPut'[c] \in {callerPut[c], NoCmd}
          /\ resendPut'[c] \in {resendPut[c], pending[c].cmd, NoCmd}
      BY <1>5 DEF Kept
    <2> QED
      BY <1>2, <1>3, <2>1, <2>2, <2>3, <2>4 DEF Newest
  <1>6. ASSUME NEW m \in Command, Issued(c, m)
        PROVE  /\ \A x \in Flying(c)' : Given(c, x)'
               /\ pending'[c].cmd # NoCmd => Newest(c, pending[c].cmd)'
               /\ route'[c] # NoRoute =>
                    /\ route'[c].id = cmdId'[c]
                    /\ cmdId'[c] \in Seed[c] + 1 .. cmdId'[c] /\ cmdId'[c] \notin cancels'[c]
               /\ callerPut'[c] # NoCmd => callerPut'[c].id = cmdId'[c]
               /\ AtomicPuts /\ resendPut'[c] # NoCmd => resendPut'[c].id = cmdId'[c]
    <2>1. cmdId'[c] = m.id /\ m.id \in Nat /\ cmdId[c] < m.id
      <3>1. maxSeen[c] \in Nat
        BY DEF TypeOK, ClientTypeOK, ClientIds
      <3> QED
        BY <1>0, <1>1, <1>6, <3>1 DEF Issued, NextId, Larger2
    <2>2. m.id \in Seed[c] + 1 .. m.id /\ m.id \notin cancels[c]
      BY <1>0, <1>1, <1>2, <2>1
    <2>3. m.kind = "cancel" <=> m.id \in cancels'[c]
      BY <1>6, <2>2 DEF Issued
    <2>4. Newest(c, m)'
      BY <2>1, <2>2, <2>3 DEF Newest, Given
    <2>5. \A x \in Flying(c)' : x \in Flying(c) \/ x = m
      BY <1>6 DEF Issued, Flying
    <2>6. \A x \in Flying(c)' : Given(c, x)'
      BY <1>2, <1>4, <2>4, <2>5 DEF Newest
    <2>7. route'[c] # NoRoute => route'[c].id = m.id /\ m.id \notin cancels'[c]
      BY <1>6, <2>3 DEF Issued
    <2>8. AtomicPuts => resendPut'[c] = NoCmd
      BY <1>6 DEF Issued, Putting
    <2>9. pending'[c].cmd = m /\ callerPut'[c] = m
      BY <1>6 DEF Issued
    <2> QED
      BY <2>1, <2>2, <2>4, <2>6, <2>7, <2>8, <2>9
  <1> QED
    BY <1>3, <1>5, <1>6, ClientEffect DEF Kept

-------------------------------------------------------------------------------
(* The ids that the Tier-3 process holds                                     *)

\* Every id of a goal, a fault or a reject, the tick's copy of one, is in S.
PiHolds(S) ==
  /\ goal.id \in S /\ g \in S /\ canceled \in S /\ fault.id \in S
  /\ \A i \in 1 .. Len(rejects) : rejects[i] \in S

\* The ids that the client gave to a goto or a path.
GotoIds(c) == {NoId} \cup ((Seed[c] + 1 .. cmdId[c]) \ cancels[c])

(***************************************************************************)
(* The process holds ids of gotos and paths only, and no goal once the     *)
(* watermark is a cancel's.                                                *)
(***************************************************************************)
GoalInv ==
  \A c \in Clients :
    /\ watermark <= cmdId[c]
    /\ PiHolds(GotoIds(c))
    /\ watermark \in cancels[c] => goal.id = NoId

\* A step, as the Tier-3 process sees it.
LEMMA PiEffect ==
  ASSUME [Next]_vars
  PROVE  \/ TickStep \/ RestartPi \/ \E c \in Clients : ReceiveCmd(c)
         \/ UNCHANGED <<arbVars, tickVars>>
  <1>1. \A c \in Clients : IssueCmd(c) \/ PutCmd(c) \/ RefreshPath(c) \/ ReceiveStatus(c) \/ Resend(c)
          \/ PutResend(c) \/ RestartDesktop(c) \/ LoseCmd(c) \/ LoseStatus(c)
          => UNCHANGED <<arbVars, tickVars>>
    BY DEF IssueCmd, PutCmd, RefreshPath, ReceiveStatus, Resend, PutResend, RestartDesktop,
           LoseCmd, LoseStatus, piVars
  <1>2. OtherCallback \/ UNCHANGED vars => UNCHANGED <<arbVars, tickVars>>
    BY DEF OtherCallback, EStopChanges, OdomReset, vars, piVars
  <1> QED
    BY <1>1, <1>2 DEF Next, PiTick, TickStep

LEMMA HoldsCallback ==
  ASSUME PiTypeOK, NEW S, NoId \in S, PiHolds(S),
         NEW m \in Command, m.kind # "cancel" => m.id \in S, GotoCallback(m)
  PROVE  PiHolds(S)'
  <1>0. /\ GoalOf(m).id = m.id /\ NoGoal.id = NoId /\ NoFault.id = NoId
        /\ rejects \in Seq(Int) /\ m.id \in Int
    BY RecordTypes, PiNumbers DEF GoalOf
  <1>1. OnCommand(m, estop) /\ g' = g
    BY DEF GotoCallback, tickVars
  <1>2. goal'.id \in S
    BY <1>0, <1>1 DEF OnCommand, OnCancel, OnRefresh, OnDuplicate, OnStale, OnMalformed, OnGoto,
                      arbVars, PiHolds
  <1>3. canceled' \in S
    BY <1>0, <1>1 DEF OnCommand, OnCancel, OnRefresh, OnDuplicate, OnStale, OnMalformed, OnGoto,
                      arbVars, PiHolds
  <1>4. fault'.id \in S
    BY <1>0, <1>1 DEF OnCommand, OnCancel, OnRefresh, OnDuplicate, OnStale, OnMalformed, OnGoto,
                      arbVars, PiHolds
  <1>5. rejects' = rejects \/ (rejects' = Append(rejects, m.id) /\ m.kind # "cancel")
    BY <1>1 DEF OnCommand, OnCancel, OnRefresh, OnDuplicate, OnStale, OnMalformed, OnGoto, arbVars
  <1>6. \A i \in 1 .. Len(rejects') : rejects'[i] \in S
    <2>1. CASE rejects' = rejects
      BY <2>1 DEF PiHolds
    <2>2. CASE rejects' = Append(rejects, m.id) /\ m.kind # "cancel"
      <3>1. \A i \in 1 .. Len(rejects') : rejects'[i] = m.id \/ (i \in 1 .. Len(rejects) /\ rejects'[i] = rejects[i])
        BY <1>0, <2>2
      <3> QED
        BY <2>2, <3>1 DEF PiHolds
    <2> QED
      BY <1>5, <2>1, <2>2
  <1> QED
    BY <1>1, <1>2, <1>3, <1>4, <1>6 DEF PiHolds

LEMMA HoldsTick ==
  ASSUME NEW S, NoId \in S, PiHolds(S), TickStep
  PROVE  PiHolds(S)'
  <1>0. NoGoal.id = NoId
    BY DEF NoGoal
  <1>1. g' \in {g, NoId, goal.id}
    BY DEF TickStep, SilentStep, PublishingStep, ArrivingStep, DropOnReset, DropOnEStop,
           FinishGoal, Snapshot, ReportEStop, Idle, OdomStale, Drive, TickFails, Arrive, EndTick
  <1>2. goal'.id \in {goal.id, NoId}
    BY <1>0, TickGoal DEF TickStep
  <1>3. canceled' \in {canceled, NoId}
    BY DEF TickStep, SilentStep, PublishingStep, ArrivingStep, DropOnReset, DropOnEStop,
           FinishGoal, Snapshot, ReportEStop, Idle, OdomStale, Drive, TickFails, Arrive,
           TakeRejects, IdleStatus, Drop, Finish, arbVars
  <1>4. fault'.id \in {fault.id, goal.id}
    BY DEF TickStep, SilentStep, PublishingStep, ArrivingStep, DropOnReset, DropOnEStop,
           FinishGoal, Snapshot, ReportEStop, Idle, OdomStale, Drive, TickFails, Arrive,
           TakeRejects, IdleStatus, Drop, Finish, arbVars
  <1>5. rejects' \in {rejects, <<>>}
    BY DEF TickStep, SilentStep, PublishingStep, ArrivingStep, DropOnReset, DropOnEStop,
           FinishGoal, Snapshot, ReportEStop, Idle, OdomStale, Drive, TickFails, Arrive,
           TakeRejects, IdleStatus, Drop, Finish, arbVars
  <1>6. \A i \in 1 .. Len(rejects') : rejects'[i] \in S
    BY <1>5 DEF PiHolds
  <1> QED
    BY <1>1, <1>2, <1>3, <1>4, <1>6 DEF PiHolds

\* The watermark after a command.
LEMMA CallbackWatermark ==
  ASSUME PiTypeOK, NEW m \in Command, GotoCallback(m)
  PROVE  \/ /\ m.kind = "cancel" /\ goal'.id = NoId /\ fault'.id = NoId
            /\ watermark' = Larger(watermark, m.id)
         \/ m.kind # "cancel" /\ watermark' = m.id /\ watermark < m.id
            /\ (goal'.id \in {goal.id, m.id} \/ goal'.id = NoId)
         \/ watermark' = watermark /\ goal'.id = goal.id /\ fault' = fault
  <1>0. GoalOf(m).id = m.id /\ NoGoal.id = NoId /\ NoFault.id = NoId /\ m.id \in Int /\ watermark \in Int
    BY RecordTypes, PiNumbers DEF GoalOf
  <1>1. OnCommand(m, estop)
    BY DEF GotoCallback
  <1>2. CASE OnCancel(m)
    BY <1>0, <1>2 DEF OnCancel
  <1>3. CASE OnRefresh(m) \/ OnDuplicate(m) \/ OnStale(m)
    BY <1>0, <1>3 DEF OnRefresh, IsRefresh, OnDuplicate, OnStale, arbVars
  <1>4. CASE OnMalformed(m)
    BY <1>0, <1>4 DEF OnMalformed
  <1>5. CASE OnGoto(m, estop)
    <2>1. (goal' = NoGoal /\ fault'.id = m.id) \/ goal' = GoalOf(m)
      BY <1>5 DEF OnGoto
    <2> QED
      BY <1>0, <1>5, <2>1 DEF OnGoto
  <1> QED
    BY <1>1, <1>2, <1>3, <1>4, <1>5 DEF OnCommand

\* What arrives was under way.
LEMMA Arriving ==
  ASSUME TypeOK, OneProgram, ClientInv, NEW c \in Clients, NEW d \in Clients, ReceiveCmd(d)
  PROVE  \E m \in Command : /\ m \in Elems(gotoQ[c]) /\ m \in Flying(c) /\ Given(c, m)
                            /\ m = gotoQ[c][1] /\ gotoQ[c] # <<>> /\ gotoQ'[c] = Tail(gotoQ[c])
                            /\ GotoCallback(m)
  <1>1. d = c
    BY DEF OneProgram
  <1>2. /\ gotoQ[c] \in Seq(Command) /\ gotoQ[c] # <<>> /\ gotoQ'[c] = Tail(gotoQ[c])
        /\ GotoCallback(Head(gotoQ[c]))
    BY <1>1 DEF ReceiveCmd, TypeOK
  <1>3. Head(gotoQ[c]) \in Command /\ Head(gotoQ[c]) = gotoQ[c][1]
    BY <1>2
  <1>4. Head(gotoQ[c]) \in Elems(gotoQ[c])
    BY <1>2, QueueElems
  <1>5. Head(gotoQ[c]) \in Flying(c)
    BY <1>4 DEF Flying
  <1> QED
    BY <1>2, <1>3, <1>4, <1>5 DEF ClientInv

LEMMA GotoIdsGrow ==
  ASSUME TypeOK, OneProgram, NEW c \in Clients, [Next]_vars
  PROVE  NoId \in GotoIds(c) /\ NoId \in GotoIds(c)' /\ GotoIds(c) \subseteq GotoIds(c)'
  <1>1. /\ cmdId[c] \in Nat /\ cmdId'[c] \in Nat /\ cmdId[c] <= cmdId'[c] /\ Seed[c] \in Nat
        /\ \A id \in cancels'[c] : id \in cancels[c] \/ (id = cmdId'[c] /\ cmdId[c] < id)
    BY IdsGrow, Constants
  <1> QED
    BY <1>1 DEF GotoIds

LEMMA GoalInvStep ==
  ASSUME TypeOK, OneProgram, ClientInv, GoalInv, [Next]_vars
  PROVE  GoalInv'
  <1> SUFFICES ASSUME NEW c \in Clients
               PROVE  /\ watermark' <= cmdId'[c]
                      /\ PiHolds(GotoIds(c))'
                      /\ watermark' \in cancels'[c] => goal'.id = NoId
    BY DEF GoalInv
  <1>0. /\ PiTypeOK /\ watermark \in Int /\ NoId \in Int /\ NoId < 0 /\ Seed[c] \in Nat
        /\ NoGoal.id = NoId /\ NoFault.id = NoId
    BY PiNumbers, Constants DEF TypeOK
  <1>1. /\ cmdId[c] \in Nat /\ cmdId'[c] \in Nat /\ cmdId[c] <= cmdId'[c]
        /\ cancels[c] \subseteq cancels'[c]
        /\ \A id \in cancels'[c] : id \in cancels[c] \/ (id = cmdId'[c] /\ cmdId[c] < id)
    BY IdsGrow
  <1>2. /\ watermark <= cmdId[c] /\ PiHolds(GotoIds(c))
        /\ watermark \in cancels[c] => goal.id = NoId
    BY DEF GoalInv
  <1>3. NoId \in GotoIds(c) /\ NoId \in GotoIds(c)'
    BY GotoIdsGrow
  <1>4. GotoIds(c) \subseteq GotoIds(c)'
    BY GotoIdsGrow
  <1> DEFINE IdsKept == /\ goal'.id \in GotoIds(c) /\ g' \in GotoIds(c) /\ canceled' \in GotoIds(c)
                        /\ fault'.id \in GotoIds(c)
                        /\ \A i \in 1 .. Len(rejects') : rejects'[i] \in GotoIds(c)
  <1>5. IdsKept => PiHolds(GotoIds(c))'
    BY <1>4 DEF PiHolds
  <1>6. CASE \E d \in Clients : ReceiveCmd(d)
    <2>1. PICK m \in Command : Given(c, m) /\ GotoCallback(m)
      BY <1>6, Arriving
    <2>2. m.id \in Nat /\ m.id <= cmdId[c] /\ (m.kind = "cancel" <=> m.id \in cancels[c])
      BY <1>0, <1>1, <2>1 DEF Given
    <2>3. m.kind # "cancel" => m.id \in GotoIds(c)
      BY <2>1 DEF Given, GotoIds
    <2>4. IdsKept
      <3>1. \A T : /\ NoId \in T /\ PiHolds(T) /\ (m.kind # "cancel" => m.id \in T)
                   => /\ goal'.id \in T /\ g' \in T /\ canceled' \in T /\ fault'.id \in T
                      /\ \A i \in 1 .. Len(rejects') : rejects'[i] \in T
        BY <1>0, <2>1, HoldsCallback DEF PiHolds
      <3> QED
        BY <1>2, <1>3, <2>3, <3>1
    <2>5. cmdId' = cmdId /\ cancels' = cancels
      BY <1>6 DEF ReceiveCmd, clientVars
    <2>6. watermark' <= cmdId[c] /\ (watermark' \in cancels[c] => goal'.id = NoId)
      BY <1>0, <1>1, <1>2, <2>1, <2>2, CallbackWatermark DEF Larger
    <2> QED
      BY <1>5, <2>4, <2>5, <2>6
  <1>7. CASE TickStep
    <2>1. IdsKept
      <3>1. \A T : NoId \in T /\ PiHolds(T)
                   => /\ goal'.id \in T /\ g' \in T /\ canceled' \in T /\ fault'.id \in T
                      /\ \A i \in 1 .. Len(rejects') : rejects'[i] \in T
        BY <1>7, HoldsTick DEF PiHolds
      <3> QED
        BY <1>2, <1>3, <3>1
    <2>2. watermark' = watermark /\ (goal' = goal \/ goal' = NoGoal)
      BY <1>7, TickGoal DEF TickStep
    <2>3. watermark \in cancels'[c] => watermark \in cancels[c]
      BY <1>0, <1>1, <1>2
    <2> QED
      BY <1>0, <1>1, <1>2, <1>5, <2>1, <2>2, <2>3
  <1>8. CASE RestartPi
    <2>1. /\ goal'.id = NoId /\ g' = NoId /\ canceled' = NoId /\ fault'.id = NoId
          /\ rejects' = <<>> /\ watermark' = NoId
      BY <1>0, <1>8 DEF RestartPi, PiRestart, EndTick
    <2>2. IdsKept
      BY <1>3, <2>1
    <2> QED
      BY <1>0, <1>1, <1>5, <2>1, <2>2
  <1>9. CASE UNCHANGED <<arbVars, tickVars>>
    <2>1. UNCHANGED <<goal, watermark, canceled, fault, rejects, g>>
      BY <1>9 DEF arbVars, tickVars
    <2>2. IdsKept
      BY <1>2, <2>1 DEF PiHolds
    <2>3. watermark \in cancels'[c] => watermark \in cancels[c]
      BY <1>0, <1>1, <1>2
    <2> QED
      BY <1>0, <1>1, <1>2, <1>5, <2>1, <2>2, <2>3
  <1> QED
    BY <1>6, <1>7, <1>8, <1>9, PiEffect

-------------------------------------------------------------------------------
(* What is published                                                         *)

\* A tick publishes ids that it holds, or the watermark, and IDLE under the watermark.
LEMMA PublishedIds ==
  ASSUME PiTypeOK, CopyInv, NEW S, PiHolds(S), TickStep
  PROVE  \/ statusQ' = statusQ
         \/ \E msgs \in Seq(Status) :
              /\ Publish(msgs)
              /\ \A i \in 1 .. Len(msgs) :
                   /\ msgs[i].id \in S \cup {0, watermark}
                   /\ msgs[i].state = "IDLE" => /\ fault.id = NoId
                                                /\ msgs[i].id = Larger(0, watermark)
  <1> DEFINE Fine(msgs) == \A i \in 1 .. Len(msgs) :
               /\ msgs[i].id \in S \cup {0, watermark}
               /\ msgs[i].state = "IDLE" => /\ fault.id = NoId
                                            /\ msgs[i].id = Larger(0, watermark)
  <1>1. Larger(0, watermark) \in {0, watermark}
    BY DEF Larger
  <1>2. \A st, id : id \in S \cup {0, watermark} /\ st # "IDLE" => Fine(<<Msg(st, id)>>)
    BY DEF Msg
  <1>3. goal.id \in S /\ g \in S /\ canceled \in S /\ fault.id \in S
        /\ \A i \in 1 .. Len(rejects) : rejects[i] \in S
    BY DEF PiHolds
  <1>4. Fine(EStopMsgs) /\ Fine(FailMsgs) /\ \A st \in {"FAULT", "DRIVING", "ARRIVED"} : Fine(<<Msg(st, g)>>)
    BY <1>1, <1>2, <1>3 DEF EStopMsgs, FailMsgs
  <1>5. phase = "idle" => Fine(IdleMsgs)
    <2>1. CASE IdleState # "IDLE"
      <3>1. IdleId \in S \cup {0, watermark}
        BY <1>1, <1>3 DEF IdleId
      <3> QED
        BY <1>2, <2>1, <3>1 DEF IdleMsgs
    <2>2. CASE IdleState = "IDLE"
      <3>1. fault.id = NoId /\ IdleId = Larger(0, watermark)
        BY <2>2 DEF IdleState, IdleId
      <3>2. \A i \in 1 .. Len(IdleMsgs) : IdleMsgs[i].id = Larger(0, watermark)
        BY <3>1 DEF IdleMsgs, Msg
      <3> QED
        BY <1>1, <3>1, <3>2
    <2> QED
      BY <2>1, <2>2
  <1>6. Fine(RejectMsgs)
    <2>1. DOMAIN rejects = 1 .. Len(rejects) /\ Len(rejects) \in Nat
      BY PiNumbers
    <2>2. Len(RejectMsgs) = Len(rejects)
          /\ \A i \in 1 .. Len(rejects) : RejectMsgs[i].id = rejects[i] /\ RejectMsgs[i].state = "REJECTED"
      BY <2>1 DEF RejectMsgs
    <2> QED
      BY <1>3, <2>2
  <1> HIDE DEF Fine
  <1>7. CASE PublishingStep
    <2>1. (OdomStale \/ Drive => phase = "step") /\ (Idle => phase = "idle")
      BY DEF OdomStale, Drive, Idle
    <2>2. {"FAULT", "DRIVING", "ARRIVED"} \subseteq States
      BY DEF States
    <2> QED
      BY <1>4, <1>5, <1>6, <1>7, <2>1, <2>2, PublishedType DEF PublishingStep, Fine
  <1>8. CASE ArrivingStep
    <2>1. phase = "step" /\ "ARRIVED" \in States
      BY <1>8 DEF ArrivingStep, Arrive, States
    <2> QED
      BY <1>4, <1>8, <2>1, PublishedType DEF ArrivingStep, Fine
  <1>9. CASE SilentStep
    BY <1>9 DEF SilentStep
  <1> QED
    BY <1>7, <1>8, <1>9 DEF TickStep

\* A status in a queue was there, or the tick has just published it.
LEMMA StatusOrigin ==
  ASSUME TypeOK, CopyInv, NEW S, PiHolds(S), [Next]_vars,
         NEW c \in Clients, NEW i \in 1 .. Len(statusQ'[c])
  PROVE  \/ \E j \in 1 .. Len(statusQ[c]) : statusQ'[c][i] = statusQ[c][j]
         \/ TickStep /\ statusQ'[c][i].id \in S \cup {0, watermark}
  <1>0. PiTypeOK /\ statusQ \in [Clients -> Seq(Status)]
    BY DEF TypeOK
  <1>1. CASE statusQ' = statusQ
    BY <1>1
  <1>2. ASSUME NEW d \in Clients, statusQ[d] # <<>>, statusQ' = [statusQ EXCEPT ![d] = Tail(@)]
        PROVE  \E j \in 1 .. Len(statusQ[c]) : statusQ'[c][i] = statusQ[c][j]
    <2>1. CASE c # d
      BY <1>0, <1>2, <2>1
    <2>2. CASE c = d
      <3>1. statusQ'[c] = Tail(statusQ[c]) /\ statusQ[c] \in Seq(Status) /\ statusQ[c] # <<>>
        BY <1>0, <1>2, <2>2
      <3>2. i + 1 \in 1 .. Len(statusQ[c]) /\ statusQ'[c][i] = statusQ[c][i + 1]
        BY <3>1
      <3> QED
        BY <3>2
    <2> QED
      BY <2>1, <2>2
  <1>3. CASE TickStep
    <2>1. SUFFICES ASSUME NEW msgs \in Seq(Status), Publish(msgs),
                          \A k \in 1 .. Len(msgs) : msgs[k].id \in S \cup {0, watermark}
                   PROVE  \/ \E j \in 1 .. Len(statusQ[c]) : statusQ'[c][i] = statusQ[c][j]
                          \/ \E k \in 1 .. Len(msgs) : statusQ'[c][i] = msgs[k]
      BY <1>0, <1>1, <1>3, PublishedIds
    <2>2. statusQ'[c] = statusQ[c] \o msgs \/ statusQ'[c] = statusQ[c]
      BY <2>1 DEF Publish
    <2>3. \/ i \in 1 .. Len(statusQ[c]) /\ statusQ'[c][i] = statusQ[c][i]
          \/ /\ i - Len(statusQ[c]) \in 1 .. Len(msgs)
             /\ statusQ'[c][i] = msgs[i - Len(statusQ[c])]
      BY <1>0, <2>2
    <2> QED
      BY <2>3
  <1>4. ASSUME NEW d \in Clients, ReceiveStatus(d) \/ LoseStatus(d)
        PROVE  \E j \in 1 .. Len(statusQ[c]) : statusQ'[c][i] = statusQ[c][j]
    <2>1. statusQ[d] # <<>> /\ statusQ' = [statusQ EXCEPT ![d] = Tail(@)]
      BY <1>4 DEF ReceiveStatus, LoseStatus
    <2> QED
      BY <1>2, <2>1
  <1>5. \A d \in Clients : IssueCmd(d) \/ PutCmd(d) \/ RefreshPath(d) \/ Resend(d) \/ PutResend(d)
          \/ RestartDesktop(d) \/ LoseCmd(d) \/ ReceiveCmd(d) => statusQ' = statusQ
    BY DEF IssueCmd, PutCmd, RefreshPath, Resend, PutResend, RestartDesktop, LoseCmd, ReceiveCmd
  <1>6. OtherCallback \/ RestartPi \/ UNCHANGED vars => statusQ' = statusQ
    BY DEF OtherCallback, RestartPi, vars
  <1> QED
    BY <1>1, <1>3, <1>4, <1>5, <1>6 DEF Next, PiTick, TickStep

-------------------------------------------------------------------------------
(* The order of commands                                                     *)

(***************************************************************************)
(* If no thread overtakes another, commands arrive in the order of their   *)
(* ids, and none under way is older than what the process has taken.       *)
(***************************************************************************)
OrderInv ==
  \A c \in Clients :
    /\ \A i \in 1 .. Len(gotoQ[c]) : watermark <= gotoQ[c][i].id
    /\ \A i, j \in 1 .. Len(gotoQ[c]) : i <= j => gotoQ[c][i].id <= gotoQ[c][j].id

\* The queue of commands gains the newest id, loses its head, or stays.
LEMMA GotoQueueStep ==
  ASSUME TypeOK, OneProgram, AtomicPuts, ClientInv, NEW c \in Clients, [Next]_vars
  PROVE  \/ RestartPi /\ gotoQ'[c] = gotoQ[c]
         \/ \E d \in Clients : ReceiveCmd(d)
         \/ /\ watermark' = watermark
            /\ \/ gotoQ'[c] = gotoQ[c]
               \/ gotoQ[c] # <<>> /\ gotoQ'[c] = Tail(gotoQ[c])
               \/ \E m \in Command : m.id = cmdId[c] /\ gotoQ'[c] = Append(gotoQ[c], m)
  <1>0. /\ gotoQ \in [Clients -> Seq(Command)] /\ route \in [Clients -> [id : Nat, seq : Nat]]
        /\ callerPut \in [Clients -> Command \cup {NoCmd}]
        /\ resendPut \in [Clients -> Command \cup {NoCmd}]
        /\ \A d \in Clients : d = c
    BY DEF TypeOK, ClientTypeOK, ClientIds, OneProgram
  <1>1. CASE PutCmd(c) \/ PutResend(c) \/ RefreshPath(c)
    <2>1. watermark' = watermark
      BY <1>1 DEF PutCmd, PutResend, RefreshPath, piVars, arbVars
    <2>2. CASE PutCmd(c)
      <3>1. callerPut[c] \in Command /\ callerPut[c].id = cmdId[c]
        BY <1>0, <2>2 DEF PutCmd, CallerPuts, ClientInv
      <3>2. gotoQ'[c] = Append(gotoQ[c], callerPut[c])
        BY <1>0, <2>2 DEF PutCmd
      <3> QED
        BY <2>1, <3>1, <3>2
    <2>3. CASE PutResend(c)
      <3>1. resendPut[c] \in Command /\ resendPut[c].id = cmdId[c]
        BY <1>0, <2>3 DEF PutResend, PumpPuts, ClientInv
      <3>2. gotoQ'[c] = Append(gotoQ[c], resendPut[c])
        BY <1>0, <2>3 DEF PutResend
      <3> QED
        BY <2>1, <3>1, <3>2
    <2>4. CASE RefreshPath(c)
      <3> DEFINE m == [kind |-> "path", id |-> route[c].id, seq |-> route'[c].seq, ok |-> TRUE]
      <3>1. route[c].id \in Nat /\ route'[c].seq \in Nat /\ route[c].id = cmdId[c]
        BY <1>0, <2>4 DEF RefreshPath, Refresh, ClientInv
      <3>2. m \in Command /\ m.id = cmdId[c]
        BY <3>1 DEF Command, Kind, Ids
      <3>3. gotoQ'[c] = Append(gotoQ[c], m)
        BY <1>0, <2>4 DEF RefreshPath
      <3> QED
        BY <2>1, <3>2, <3>3
    <2> QED
      BY <1>1, <2>2, <2>3, <2>4
  <1>2. CASE LoseCmd(c)
    BY <1>0, <1>2 DEF LoseCmd, piVars, arbVars
  <1>3. CASE IssueCmd(c) \/ ReceiveStatus(c) \/ Resend(c) \/ RestartDesktop(c) \/ LoseStatus(c)
    BY <1>3 DEF IssueCmd, ReceiveStatus, Resend, RestartDesktop, LoseStatus, piVars, arbVars
  <1>4. CASE PiTick
    <2>1. gotoQ' = gotoQ
      BY <1>4 DEF PiTick, SilentStep, PublishingStep, ArrivingStep
    <2> QED
      BY <1>4, <2>1, TickGoal DEF PiTick
  <1>5. CASE OtherCallback \/ UNCHANGED vars
    BY <1>5 DEF OtherCallback, EStopChanges, OdomReset, vars, piVars, arbVars
  <1>6. CASE RestartPi
    BY <1>6 DEF RestartPi
  <1> QED
    BY <1>0, <1>1, <1>2, <1>3, <1>4, <1>5, <1>6 DEF Next

LEMMA OrderStep ==
  ASSUME TypeOK, OneProgram, AtomicPuts, ClientInv, GoalInv, OrderInv, [Next]_vars
  PROVE  OrderInv'
  <1> SUFFICES ASSUME NEW c \in Clients
               PROVE  /\ \A i \in 1 .. Len(gotoQ'[c]) : watermark' <= gotoQ'[c][i].id
                      /\ \A i, j \in 1 .. Len(gotoQ'[c]) : i <= j => gotoQ'[c][i].id <= gotoQ'[c][j].id
    BY DEF OrderInv
  <1>0. /\ gotoQ[c] \in Seq(Command) /\ watermark \in Int /\ PiTypeOK /\ cmdId[c] \in Nat
        /\ \A m \in Command : m.id \in Nat
    BY PiNumbers, RecordTypes DEF TypeOK, ClientTypeOK, ClientIds
  <1>1. /\ \A i \in 1 .. Len(gotoQ[c]) : watermark <= gotoQ[c][i].id
        /\ \A i, j \in 1 .. Len(gotoQ[c]) : i <= j => gotoQ[c][i].id <= gotoQ[c][j].id
        /\ watermark <= cmdId[c]
    BY DEF OrderInv, GoalInv
  <1>2. \A i \in 1 .. Len(gotoQ[c]) : gotoQ[c][i].id \in Nat /\ gotoQ[c][i].id <= cmdId[c]
    <2>1. \A i \in 1 .. Len(gotoQ[c]) : gotoQ[c][i] \in Flying(c) /\ gotoQ[c][i] \in Command
      BY <1>0 DEF Flying, Elems
    <2>2. Seed[c] \in Nat /\ \A m \in Flying(c) : m.id \in Seed[c] + 1 .. cmdId[c]
      BY Constants DEF ClientInv, Given
    <2> QED
      BY <1>0, <2>1, <2>2
  <1>3. CASE RestartPi /\ gotoQ'[c] = gotoQ[c]
    <2>1. watermark' = NoId /\ NoId < 0 /\ NoId \in Int
      BY <1>3 DEF RestartPi, PiRestart, NoId
    <2> QED
      BY <1>1, <1>2, <1>3, <2>1
  <1>4. CASE gotoQ'[c] = gotoQ[c] /\ watermark' = watermark
    BY <1>1, <1>4
  <1>5. ASSUME gotoQ[c] # <<>>, gotoQ'[c] = Tail(gotoQ[c]),
               \A i \in 1 .. Len(gotoQ[c]) : watermark' <= gotoQ[c][i].id
        PROVE  /\ \A i \in 1 .. Len(gotoQ'[c]) : watermark' <= gotoQ'[c][i].id
               /\ \A i, j \in 1 .. Len(gotoQ'[c]) : i <= j => gotoQ'[c][i].id <= gotoQ'[c][j].id
    <2>1. \A i \in 1 .. Len(gotoQ'[c]) : i + 1 \in 1 .. Len(gotoQ[c]) /\ gotoQ'[c][i] = gotoQ[c][i + 1]
      BY <1>0, <1>5
    <2>2. \A i, j \in 1 .. Len(gotoQ'[c]) : i <= j => i + 1 <= j + 1
      OBVIOUS
    <2> QED
      BY <1>1, <1>5, <2>1, <2>2
  <1>6. ASSUME NEW m \in Command, m.id = cmdId[c], gotoQ'[c] = Append(gotoQ[c], m), watermark' = watermark
        PROVE  /\ \A i \in 1 .. Len(gotoQ'[c]) : watermark' <= gotoQ'[c][i].id
               /\ \A i, j \in 1 .. Len(gotoQ'[c]) : i <= j => gotoQ'[c][i].id <= gotoQ'[c][j].id
    <2>1. \A i \in 1 .. Len(gotoQ'[c]) : \/ i \in 1 .. Len(gotoQ[c]) /\ gotoQ'[c][i] = gotoQ[c][i]
                                         \/ i = Len(gotoQ[c]) + 1 /\ gotoQ'[c][i] = m
      BY <1>0, <1>6
    <2>2. \A i \in 1 .. Len(gotoQ'[c]) : gotoQ'[c][i].id <= cmdId[c] /\ watermark <= gotoQ'[c][i].id
      BY <1>0, <1>1, <1>2, <1>6, <2>1
    <2>3. ASSUME NEW i \in 1 .. Len(gotoQ'[c]), NEW j \in 1 .. Len(gotoQ'[c]), i <= j
          PROVE  gotoQ'[c][i].id <= gotoQ'[c][j].id
      <3>1. CASE j = Len(gotoQ[c]) + 1 /\ gotoQ'[c][j] = m
        BY <1>6, <2>2, <3>1
      <3>2. CASE j \in 1 .. Len(gotoQ[c]) /\ gotoQ'[c][j] = gotoQ[c][j]
        <4>1. i \in 1 .. Len(gotoQ[c]) /\ gotoQ'[c][i] = gotoQ[c][i]
          BY <1>0, <2>1, <2>3, <3>2
        <4> QED
          BY <1>1, <2>3, <3>2, <4>1
      <3> QED
        BY <2>1, <3>1, <3>2
    <2> QED
      BY <1>6, <2>2, <2>3
  <1>7. CASE \E d \in Clients : ReceiveCmd(d)
    <2>1. PICK m \in Command : m = gotoQ[c][1] /\ gotoQ[c] # <<>> /\ gotoQ'[c] = Tail(gotoQ[c]) /\ GotoCallback(m)
      BY <1>7, Arriving
    <2>2. 1 \in 1 .. Len(gotoQ[c]) /\ \A i \in 1 .. Len(gotoQ[c]) : 1 <= i
      BY <1>0, <2>1
    <2>3. \A i \in 1 .. Len(gotoQ[c]) : m.id <= gotoQ[c][i].id
      BY <1>1, <2>1, <2>2
    <2>4. watermark' \in {watermark, m.id}
      BY <1>0, <2>1, CallbackWatermark DEF Larger
    <2>5. \A i \in 1 .. Len(gotoQ[c]) : watermark' <= gotoQ[c][i].id
      BY <1>1, <2>3, <2>4
    <2> QED
      BY <1>5, <2>1, <2>5
  <1> QED
    BY <1>1, <1>3, <1>4, <1>5, <1>6, <1>7, GotoQueueStep

-------------------------------------------------------------------------------
(* An acknowledged cancel                                                    *)

(***************************************************************************)
(* No goal up to id i is left, and none will be taken: what is still under *)
(* way is newer, or the watermark of a process that does not restart keeps *)
(* it out.                                                                 *)
(***************************************************************************)
Gone(c, i) ==
  /\ goal.id \notin 0 .. i
  /\ \A m \in Flying(c) :
       m.kind # "cancel" /\ m.id <= i => ~AtomicPuts /\ m.id <= watermark

(***************************************************************************)
(* A status under a cancel's id is published when the watermark is that    *)
(* id, so when no goal is left: whether the client reads it or not, the    *)
(* goals before the cancel are gone.                                       *)
(***************************************************************************)
StatusInv ==
  \A c \in Clients :
    /\ \A i \in 1 .. Len(statusQ[c]) :
         /\ statusQ[c][i].id <= cmdId[c]
         /\ statusQ[c][i].id \in cancels[c] => Gone(c, statusQ[c][i].id)
    /\ \A id \in acked[c] : id <= cmdId[c] /\ (id \in cancels[c] => Gone(c, id))

\* Once the watermark is a cancel's, only newer commands are under way.
CancelOrder == AtomicPuts => OrderInv

LEMMA OnlyNewer ==
  ASSUME TypeOK, AtomicPuts, ClientInv, GoalInv, OrderInv, NEW c \in Clients, watermark \in cancels[c]
  PROVE  \A m \in Flying(c) : m.kind # "cancel" => ~(m.id <= watermark)
  <1> SUFFICES ASSUME NEW m \in Flying(c), m.kind # "cancel"
               PROVE  ~(m.id <= watermark)
    OBVIOUS
  <1>0. watermark \in Int /\ watermark <= cmdId[c] /\ Seed[c] \in Nat /\ cmdId[c] \in Nat
    BY PiNumbers, Constants DEF TypeOK, ClientTypeOK, ClientIds, GoalInv
  <1>1. m.id \in Seed[c] + 1 .. cmdId[c] /\ m.id # watermark
    BY DEF ClientInv, Given
  <1>2. m.id \in Int
    BY <1>0, <1>1
  <1>3. watermark <= m.id
    <2>1. CASE m \in Elems(gotoQ[c])
      BY <2>1 DEF OrderInv, Elems
    <2>2. CASE m \in {callerPut[c], resendPut[c]} \ {NoCmd}
      BY <1>0, <2>2 DEF ClientInv
    <2> QED
      BY <2>1, <2>2 DEF Flying
  <1> QED
    BY <1>0, <1>1, <1>2, <1>3

\* A command up to a cancel's id is not sent for the first time.
LEMMA OldFlying ==
  ASSUME TypeOK, OneProgram, ClientInv, [Next]_vars,
         NEW c \in Clients, NEW i \in cancels[c],
         NEW m \in Flying(c)', m.kind # "cancel", m.id <= i
  PROVE  m \in Flying(c)
  <1>0. /\ cmdId[c] \in Nat /\ maxSeen[c] \in Nat /\ Seed[c] \in Nat
        /\ cancels[c] \subseteq Seed[c] + 1 .. cmdId[c]
    BY Constants DEF TypeOK, ClientTypeOK, ClientIds, ClientInv
  <1>1. i \in Nat /\ i <= cmdId[c]
    BY <1>0
  <1>2. CASE Kept(c)
    <2>1. m # NoCmd /\ m = pending[c].cmd => FALSE
      <3>1. m # NoCmd /\ m = pending[c].cmd => m.id = cmdId[c] /\ (m.kind = "cancel" <=> m.id \in cancels[c])
        BY DEF ClientInv, Newest, Given
      <3> QED
        BY <1>0, <1>1, <3>1
    <2>2. IsRoute(c, m) => FALSE
      <3>1. IsRoute(c, m) => m.id = cmdId[c] /\ cmdId[c] \notin cancels[c]
        BY DEF ClientInv, IsRoute
      <3> QED
        BY <1>0, <1>1, <3>1
    <2> QED
      BY <1>2, <2>1, <2>2 DEF Kept
  <1>3. ASSUME NEW x \in Command, Issued(c, x) PROVE m \in Flying(c)
    <2>1. m \in Flying(c) \/ m = x
      BY <1>3 DEF Issued, Flying
    <2>2. x.id = NextId(c) /\ cmdId[c] < NextId(c) /\ NextId(c) \in Nat
      BY <1>0, <1>3 DEF Issued, NextId, Larger2
    <2> QED
      BY <1>0, <1>1, <2>1, <2>2
  <1> QED
    BY <1>2, <1>3, ClientEffect

LEMMA GoneStep ==
  ASSUME TypeOK, OneProgram, AtomicPuts \/ ~PiRestarts, ClientInv, [Next]_vars,
         NEW c \in Clients, NEW i \in cancels[c], Gone(c, i)
  PROVE  Gone(c, i)'
  <1>0. /\ PiTypeOK /\ watermark \in Int /\ goal.id \in Int /\ NoId < 0 /\ NoId \in Int
        /\ NoGoal.id = NoId
        /\ cmdId[c] \in Nat /\ Seed[c] \in Nat /\ cancels[c] \subseteq Seed[c] + 1 .. cmdId[c]
    BY PiNumbers, Constants DEF TypeOK, ClientTypeOK, ClientIds, ClientInv
  <1>1. i \in Nat /\ i <= cmdId[c]
    BY <1>0
  <1>2. \A m \in Flying(c)' : m.kind # "cancel" /\ m.id <= i
                             => m \in Flying(c) /\ ~AtomicPuts /\ m.id <= watermark
    BY OldFlying DEF Gone
  <1>a. \A m \in Flying(c) : m.id \in Nat
    <2>1. \A m \in Flying(c) : m.id \in Seed[c] + 1 .. cmdId[c]
      BY DEF ClientInv, Given
    <2> QED
      BY <1>0, <2>1
  <1>3. CASE RestartPi
    <2>1. goal'.id = NoId /\ AtomicPuts
      BY <1>0, <1>3 DEF RestartPi, PiRestart
    <2> QED
      BY <1>0, <1>1, <1>2, <2>1 DEF Gone
  <1>4. CASE \E d \in Clients : ReceiveCmd(d)
    <2>1. PICK m \in Command : m \in Flying(c) /\ GotoCallback(m)
      BY <1>4, Arriving
    <2>2. watermark' \in Int /\ watermark <= watermark' /\ goal'.id \notin 0 .. i
      <3>1. m.id \in Nat /\ goal.id \notin 0 .. i
            /\ (m.kind # "cancel" /\ m.id <= i => m.id <= watermark)
        BY <1>a, <2>1 DEF Gone
      <3> QED
        BY <1>0, <1>1, <2>1, <3>1, CallbackWatermark DEF Larger
    <2>3. \A m2 \in Flying(c)' : m2.kind # "cancel" /\ m2.id <= i => ~AtomicPuts /\ m2.id <= watermark'
      BY <1>0, <1>2, <1>a, <2>2
    <2> QED
      BY <2>2, <2>3 DEF Gone
  <1>5. CASE TickStep \/ UNCHANGED <<arbVars, tickVars>>
    <2>1. watermark' = watermark /\ (goal' = goal \/ goal' = NoGoal)
      BY <1>5, TickGoal DEF TickStep, arbVars
    <2>2. goal'.id \notin 0 .. i
      BY <1>0, <2>1 DEF Gone
    <2> QED
      BY <1>2, <2>1, <2>2 DEF Gone
  <1> QED
    BY <1>3, <1>4, <1>5, PiEffect

\* What is acknowledged was, or answers the pending command.
LEMMA AckedOrigin ==
  ASSUME TypeOK, OneProgram, NEW c \in Clients, [Next]_vars, NEW id \in acked'[c]
  PROVE  \/ id \in acked[c]
         \/ /\ pending[c].cmd # NoCmd /\ id = pending[c].cmd.id
            /\ \E i \in 1 .. Len(statusQ[c]) : Answers(statusQ[c][i], id)
  <1>0. acked \in [Clients -> SUBSET Nat] /\ statusQ \in [Clients -> Seq(Status)]
    BY DEF TypeOK, ClientTypeOK, ClientIds
  <1>1. \A d \in Clients : d = c
    BY DEF OneProgram
  <1>2. CASE ReceiveStatus(c)
    <2> DEFINE s == Head(statusQ[c])
               p == pending[c].cmd
    <2>1. OnStatus(c, s) /\ 1 \in 1 .. Len(statusQ[c]) /\ s = statusQ[c][1]
      BY <1>0, <1>2 DEF ReceiveStatus
    <2>2. acked' = [acked EXCEPT ![c] = IF p # NoCmd /\ Answers(s, p.id) THEN acked[c] \cup {p.id}
                                        ELSE acked[c]]
      BY <2>1 DEF OnStatus
    <2>3. id \in acked[c] \/ (id = p.id /\ p # NoCmd /\ Answers(s, p.id))
      BY <1>0, <2>2
    <2> QED
      BY <2>1, <2>3
  <1>3. CASE RestartDesktop(c)
    BY <1>0, <1>3 DEF RestartDesktop, ClientRestart
  <1>4. IssueCmd(c) \/ PutCmd(c) \/ RefreshPath(c) \/ Resend(c) \/ PutResend(c)
          \/ LoseCmd(c) \/ LoseStatus(c) \/ ReceiveCmd(c) => acked' = acked
    BY DEF IssueCmd, Issue, PutCmd, CallerPuts, RefreshPath, Refresh, Resend, PumpResend,
           PumpGivesUp, PutResend, PumpPuts, LoseCmd, LoseStatus, ReceiveCmd, clientVars
  <1>5. OtherCallback \/ PiTick \/ RestartPi \/ UNCHANGED vars => acked' = acked
    BY DEF OtherCallback, PiTick, SilentStep, PublishingStep, ArrivingStep, RestartPi, vars, clientVars
  <1> QED
    BY <1>1, <1>2, <1>3, <1>4, <1>5 DEF Next

LEMMA StatusInvStep ==
  ASSUME TypeOK, CopyInv, OneProgram, AtomicPuts \/ ~PiRestarts,
         ClientInv, GoalInv, CancelOrder, StatusInv, [Next]_vars
  PROVE  StatusInv'
  <1> SUFFICES ASSUME NEW c \in Clients
               PROVE  /\ \A i \in 1 .. Len(statusQ'[c]) :
                           /\ statusQ'[c][i].id <= cmdId'[c]
                           /\ statusQ'[c][i].id \in cancels'[c] => Gone(c, statusQ[c][i].id)'
                      /\ \A id \in acked'[c] : id <= cmdId'[c] /\ (id \in cancels'[c] => Gone(c, id)')
    BY DEF StatusInv, Gone
  <1>0. /\ PiTypeOK /\ watermark \in Int /\ NoId < 0 /\ NoId \in Int /\ NoGoal.id = NoId
        /\ Seed[c] \in Nat /\ cancels[c] \subseteq Seed[c] + 1 .. cmdId[c]
        /\ statusQ[c] \in Seq(Status) /\ acked[c] \subseteq Nat
        /\ \A m \in Command : m.id \in Nat
    BY PiNumbers, Constants, RecordTypes DEF TypeOK, ClientTypeOK, ClientIds, ClientInv
  <1>1. /\ cmdId[c] \in Nat /\ cmdId'[c] \in Nat /\ cmdId[c] <= cmdId'[c]
        /\ cancels[c] \subseteq cancels'[c]
        /\ \A id \in cancels'[c] : id \in cancels[c] \/ (id = cmdId'[c] /\ cmdId[c] < id)
    BY IdsGrow
  <1>2. ASSUME NEW id \in Int, id <= cmdId[c], id \in cancels[c] => Gone(c, id)
        PROVE  id <= cmdId'[c] /\ (id \in cancels'[c] => Gone(c, id)')
    <2>1. id <= cmdId'[c] /\ (id \in cancels'[c] => id \in cancels[c])
      BY <1>1, <1>2
    <2>2. \A x \in cancels[c] : Gone(c, x) => Gone(c, x)'
      BY GoneStep
    <2> QED
      BY <1>2, <2>1, <2>2
  <1>3. ASSUME NEW i \in 1 .. Len(statusQ'[c])
        PROVE  /\ statusQ'[c][i].id <= cmdId'[c]
               /\ statusQ'[c][i].id \in cancels'[c] => Gone(c, statusQ[c][i].id)'
    <2> DEFINE id == statusQ'[c][i].id
    <2>1. CASE \E j \in 1 .. Len(statusQ[c]) : statusQ'[c][i] = statusQ[c][j]
      <3>1. id \in Int /\ id <= cmdId[c] /\ (id \in cancels[c] => Gone(c, id))
        BY <1>0, <2>1, StatusIds DEF StatusInv
      <3>2. id <= cmdId'[c] /\ (id \in cancels'[c] =>
              /\ goal'.id \notin 0 .. id
              /\ \A m \in Flying(c)' :
                   m.kind # "cancel" /\ m.id <= id => ~AtomicPuts /\ m.id <= watermark')
        <4>1. \A n \in Int : n <= cmdId[c] /\ (n \in cancels[c] => Gone(c, n)) =>
                n <= cmdId'[c] /\ (n \in cancels'[c] =>
                  /\ goal'.id \notin 0 .. n
                  /\ \A m \in Flying(c)' :
                       m.kind # "cancel" /\ m.id <= n => ~AtomicPuts /\ m.id <= watermark')
          BY <1>2 DEF Gone
        <4> QED
          BY <3>1, <4>1
      <3> QED
        BY <3>2 DEF Gone
    <2>2. CASE TickStep /\ id \in GotoIds(c) \cup {0, watermark}
      <3>1. cmdId' = cmdId /\ cancels' = cancels /\ watermark' = watermark
            /\ (goal' = goal \/ goal' = NoGoal)
        BY <2>2, TickGoal DEF TickStep, SilentStep, PublishingStep, ArrivingStep, clientVars
      <3>a. watermark <= cmdId[c]
        BY DEF GoalInv
      <3>b. \A x \in GotoIds(c) \cup {0, watermark} : x <= cmdId[c] /\ (x \in cancels[c] => x = watermark)
        <4>1. \A x \in GotoIds(c) : x \in Int /\ x <= cmdId[c] /\ x \notin cancels[c]
          BY <1>0, <1>1 DEF GotoIds
        <4>2. 0 <= cmdId[c] /\ 0 \notin cancels[c]
          BY <1>0, <1>1
        <4> QED
          BY <3>a, <4>1, <4>2
      <3>2. id <= cmdId[c] /\ (id \in cancels[c] => id = watermark)
        BY <2>2, <3>b
      <3>3. id \in cancels[c] => goal.id = NoId
        BY <3>2 DEF GoalInv
      <3>4. Flying(c)' = Flying(c)
        BY <2>2 DEF TickStep, SilentStep, PublishingStep, ArrivingStep, clientVars, Flying, Elems
      <3>5. id \in cancels[c] => \A m \in Flying(c)' : m.kind # "cancel" /\ m.id <= watermark => ~AtomicPuts
        BY <3>2, <3>4, OnlyNewer DEF CancelOrder
      <3> QED
        BY <1>0, <3>1, <3>2, <3>3, <3>5 DEF Gone
    <2>3. PiHolds(GotoIds(c))
      BY DEF GoalInv
    <2>4. \A T : PiHolds(T) =>
             \/ \E j \in 1 .. Len(statusQ[c]) : statusQ'[c][i] = statusQ[c][j]
             \/ TickStep /\ statusQ'[c][i].id \in T \cup {0, watermark}
      BY StatusOrigin
    <2> QED
      BY <2>1, <2>2, <2>3, <2>4
  <1>4. ASSUME NEW id \in acked'[c]
        PROVE  id <= cmdId'[c] /\ (id \in cancels'[c] => Gone(c, id)')
    <2>1. CASE id \in acked[c]
      BY <1>0, <1>2, <2>1 DEF StatusInv
    <2>2. ASSUME NEW i \in 1 .. Len(statusQ[c]), Answers(statusQ[c][i], id),
                 pending[c].cmd # NoCmd, id = pending[c].cmd.id
          PROVE  id <= cmdId'[c] /\ (id \in cancels'[c] => Gone(c, id)')
      <3>1. id = cmdId[c]
        BY <2>2 DEF ClientInv, Newest
      <3>2. /\ statusQ[c][i].id \in Nat /\ statusQ[c][i].id <= cmdId[c]
            /\ statusQ[c][i].id \in cancels[c] => Gone(c, statusQ[c][i].id)
        BY <1>0, StatusIds DEF StatusInv
      <3>3. statusQ[c][i].id = id
        BY <1>1, <2>2, <3>1, <3>2 DEF Answers
      <3> QED
        BY <1>1, <1>2, <3>1, <3>2, <3>3
    <2> QED
      BY <2>1, <2>2, AckedOrigin
  <1> QED
    BY <1>3, <1>4

CancelInv == ClientInv /\ GoalInv /\ CancelOrder /\ StatusInv

LEMMA CancelInvInit ==
  ASSUME OneProgram, Init
  PROVE  CancelInv
  <1>0. /\ Seed \in [Clients -> Nat] /\ PiWatermark \in Int /\ NoGoal.id = NoId /\ NoFault.id = NoId
        /\ NoPending.cmd = NoCmd /\ NoId \in Int
    BY Constants DEF IdOrNone, NoId, NoGoal, NoFault, NoPending
  <1>1. ClientInv
    <2>1. \A c \in Clients : Flying(c) = {}
      BY DEF Init, ClientInit, Flying, Elems
    <2> QED
      BY <1>0, <2>1 DEF Init, ClientInit, ClientInv
  <1>2. GoalInv
    <2>1. \A c \in Clients : watermark <= cmdId[c] /\ cancels[c] = {}
      BY <1>0 DEF Init, ClientInit, PiInit, ArbInit, OneProgram
    <2>2. \A c \in Clients : PiHolds(GotoIds(c))
      BY <1>0 DEF Init, PiInit, ArbInit, PiHolds, GotoIds
    <2> QED
      BY <2>1, <2>2 DEF GoalInv
  <1>3. StatusInv
    BY DEF Init, ClientInit, StatusInv
  <1>4. CancelOrder
    BY DEF Init, CancelOrder, OrderInv
  <1> QED
    BY <1>1, <1>2, <1>3, <1>4 DEF CancelInv

(***************************************************************************)
(* A cancel that a client believes acknowledged has stopped what it        *)
(* revokes, whatever the link loses, drops or delays: over restarts of the *)
(* Tier-3 process if the client's threads do not overtake each other, and  *)
(* with threads that do if the process does not restart.  With both, or    *)
(* with two clients, TLC finds a behaviour that violates it.               *)
(***************************************************************************)
THEOREM AckedCancelsHold ==
  ASSUME OneProgram, AtomicPuts \/ ~PiRestarts
  PROVE  Spec => []AckedCancelStops
  <1>1. Init => CancelInv
    BY CancelInvInit
  <1>2. TypeOK /\ CopyInv /\ CancelInv /\ [Next]_vars => CancelInv'
    BY ClientInvStep, GoalInvStep, OrderStep, StatusInvStep DEF CancelInv, CancelOrder
  <1>3. CancelInv => AckedCancelStops
    BY DEF CancelInv, StatusInv, Gone, AckedCancelStops
  <1> QED
    BY <1>1, <1>2, <1>3, TypeCorrect, PTL DEF Spec

-------------------------------------------------------------------------------
(* IDLE means arrived                                                        *)

(***************************************************************************)
(* If the watermark's goal is over without having arrived, it has left the *)
(* fault that is latched, or is one of the exceptions.  There is no fault  *)
(* while there is a goal, so none is lost when that goal is dropped.       *)
(***************************************************************************)
RememberedInv ==
  /\ watermark \in ended => watermark \in arrived \cup stray \cup {fault.id}
  /\ goal.id # NoId => fault.id = NoId
  /\ phase = "done" => g \in arrived

LEMMA RememberedCallback ==
  ASSUME TypeOK, EndedInv, RememberedInv, NEW c \in Clients, ReceiveCmd(c)
  PROVE  RememberedInv'
  <1> DEFINE m == Head(gotoQ[c])
  <1>0. /\ m \in Command /\ m.id \in Nat /\ GoalOf(m).id = m.id
        /\ watermark \in Int /\ goal.id \in IdOrNone /\ fault.id \in IdOrNone /\ ended \subseteq Nat
        /\ NoGoal.id = NoId /\ NoFault.id = NoId /\ NoId \notin Nat
    BY HeadTypes, RecordTypes, PiNumbers
       DEF ReceiveCmd, TypeOK, PiTypeOK, ArbTypeOK, GoalOf, NoGoal, NoFault, NoId, Ids
  <1>1. /\ OnCommand(m, estop) /\ phase' = phase /\ g' = g /\ arrived' = arrived
        /\ Ends(IF m.kind # "cancel" /\ m.id > watermark /\ goal'.id # m.id THEN {m.id} ELSE {})
        /\ stray' = stray \cup Strays(m)
    BY DEF ReceiveCmd, GotoCallback, tickVars
  <1> HIDE DEF m
  <1>2. phase' = "done" => g' \in arrived'
    BY <1>1 DEF RememberedInv
  <1>3. \A id \in ended' : \/ id \in ended
                           \/ id = goal.id /\ id # goal'.id /\ id # NoId
                           \/ id = m.id /\ m.kind # "cancel" /\ m.id > watermark /\ goal'.id # m.id
    BY <1>1 DEF Ends
  <1>4. /\ goal.id <= watermark /\ \A id \in ended : id <= watermark
        /\ watermark \in ended => watermark \in arrived \cup stray \cup {fault.id}
        /\ goal.id # NoId => fault.id = NoId
    BY DEF EndedInv, RememberedInv
  <1>5. CASE OnCancel(m)
    <2>1. /\ goal'.id = NoId /\ fault'.id = NoId /\ watermark' = Larger(watermark, m.id)
          /\ m.kind = "cancel"
      BY <1>0, <1>5 DEF OnCancel
    <2>2. CASE m.id <= watermark
      <3>1. watermark' = watermark /\ stray' = stray \cup ({goal.id, fault.id} \ {NoId})
        BY <1>0, <1>1, <2>1, <2>2 DEF Larger, Strays
      <3>2. watermark \in ended' => watermark \in ended \/ watermark = goal.id
        BY <1>3, <2>1
      <3>3. ASSUME watermark \in ended' PROVE watermark \in arrived \cup stray'
        <4>1. CASE watermark = goal.id
          <5>1. watermark # NoId
            BY <1>0, <1>1, <2>1, <3>3 DEF Ends
          <5> QED
            BY <3>1, <4>1, <5>1
        <4>2. CASE watermark \in ended
          <5>1. watermark # NoId
            BY <1>0, <4>2
          <5> QED
            BY <1>4, <3>1, <4>2, <5>1
        <4> QED
          BY <3>2, <3>3, <4>1, <4>2
      <3> QED
        BY <1>1, <1>2, <2>1, <3>1, <3>3 DEF RememberedInv
    <2>3. CASE ~(m.id <= watermark)
      <3>1. watermark' = m.id /\ watermark < m.id
        BY <1>0, <2>1, <2>3 DEF Larger
      <3>2. \A id \in ended' : id # m.id
        BY <1>0, <1>3, <1>4, <2>1, <3>1 DEF IdOrNone
      <3> QED
        BY <1>2, <2>1, <3>1, <3>2 DEF RememberedInv
    <2> QED
      BY <2>2, <2>3
  <1>6. CASE OnRefresh(m) \/ OnDuplicate(m) \/ OnStale(m)
    <2>1. /\ watermark' = watermark /\ goal'.id = goal.id /\ fault' = fault
          /\ m.kind # "cancel" /\ m.id <= watermark
      BY <1>0, <1>6 DEF OnRefresh, IsRefresh, OnDuplicate, OnStale, arbVars
    <2>2. ended' \subseteq ended
      BY <1>0, <1>3, <2>1
    <2> QED
      BY <1>1, <1>2, <1>4, <2>1, <2>2 DEF RememberedInv
  <1>7. CASE OnMalformed(m)
    <2>1. watermark' = m.id /\ goal' = goal /\ fault' = fault
      BY <1>7 DEF OnMalformed
    <2>2. m.id \in stray'
      BY <1>1, <1>7 DEF OnMalformed, Strays
    <2> QED
      BY <1>2, <1>4, <2>1, <2>2 DEF RememberedInv
  <1>8. CASE OnGoto(m, estop)
    <2>1. /\ watermark' = m.id /\ watermark < m.id
          /\ \/ goal'.id = NoId /\ fault'.id = m.id
             \/ goal'.id = m.id /\ fault'.id = NoId
      <3>1. (goal' = NoGoal /\ fault'.id = m.id) \/ (goal' = GoalOf(m) /\ fault' = NoFault)
        BY <1>8 DEF OnGoto
      <3> QED
        BY <1>0, <1>8, <3>1 DEF OnGoto
    <2>2. goal'.id = m.id => m.id \notin ended'
      BY <1>0, <1>3, <1>4, <2>1
    <2> QED
      BY <1>2, <2>1, <2>2 DEF RememberedInv
  <1> QED
    BY <1>1, <1>5, <1>6, <1>7, <1>8 DEF OnCommand

\* A goal that a tick drops leaves a fault, unless it has arrived.
LEMMA TickFault ==
  ASSUME TickStep
  PROVE  \/ goal' = goal /\ fault' = fault
         \/ goal.id # NoId /\ goal' = NoGoal /\ fault'.id = goal.id
         \/ phase = "done" /\ goal.id = g /\ goal' = NoGoal /\ fault' = fault
  <1>1. CASE SilentStep
    BY <1>1 DEF SilentStep, DropOnReset, DropOnEStop, FinishGoal, Drop, Finish, HasGoal, arbVars
  <1>2. CASE PublishingStep
    BY <1>2 DEF PublishingStep, Snapshot, TakeRejects, ReportEStop, Idle, IdleStatus, OdomStale, Drive,
                TickFails, Drop, HasGoal, arbVars
  <1>3. CASE ArrivingStep
    BY <1>3 DEF ArrivingStep, Arrive, arbVars
  <1> QED
    BY <1>1, <1>2, <1>3 DEF TickStep

LEMMA RememberedTick ==
  ASSUME TypeOK, RememberedInv, TickStep
  PROVE  RememberedInv'
  <1>0. NoGoal.id = NoId /\ watermark' = watermark /\ stray' = stray
    BY TickGoal DEF NoGoal, TickStep, SilentStep, PublishingStep, ArrivingStep
  <1>1. /\ watermark \in ended => watermark \in arrived \cup stray \cup {fault.id}
        /\ goal.id # NoId => fault.id = NoId
        /\ phase = "done" => g \in arrived
    BY DEF RememberedInv
  <1>2. ended \subseteq Nat /\ NoId \notin Nat
    BY DEF TypeOK, Ids, NoId
  <1>3. arrived \subseteq arrived' /\ (phase' = "done" => g' \in arrived')
    BY DEF TickStep, SilentStep, PublishingStep, ArrivingStep, DropOnReset, DropOnEStop, FinishGoal,
           Snapshot, ReportEStop, Idle, OdomStale, Drive, TickFails, Arrive, EndTick
  <1>4. \A id \in ended' : id \in ended \/ (id = goal.id /\ id # goal'.id /\ id # NoId)
    BY DEF TickStep, SilentStep, PublishingStep, ArrivingStep, Ends
  <1>5. CASE goal' = goal /\ fault' = fault
    BY <1>0, <1>1, <1>3, <1>4, <1>5 DEF RememberedInv
  <1>6. CASE goal.id # NoId /\ goal' = NoGoal /\ fault'.id = goal.id
    BY <1>0, <1>1, <1>2, <1>3, <1>4, <1>6 DEF RememberedInv
  <1>7. CASE phase = "done" /\ goal.id = g /\ goal' = NoGoal /\ fault' = fault
    BY <1>0, <1>1, <1>3, <1>4, <1>7 DEF RememberedInv
  <1> QED
    BY <1>5, <1>6, <1>7, TickFault

LEMMA RememberedStep ==
  ASSUME TypeOK, EndedInv, RememberedInv, [Next]_vars
  PROVE  RememberedInv'
  <1>1. ASSUME NEW c \in Clients, ReceiveCmd(c) PROVE RememberedInv'
    BY <1>1, RememberedCallback
  <1>2. CASE TickStep
    BY <1>2, RememberedTick
  <1>3. CASE RestartPi
    <2>1. /\ ended' = {} /\ goal' = NoGoal /\ NoGoal.id = NoId /\ phase' # "done"
      BY <1>3 DEF RestartPi, PiRestart, EndTick, NoGoal
    <2> QED
      BY <2>1 DEF RememberedInv
  <1>4. CASE UNCHANGED <<arbVars, tickVars, ended, arrived, stray>>
    BY <1>4 DEF arbVars, tickVars, RememberedInv
  <1>5. \A c \in Clients : IssueCmd(c) \/ PutCmd(c) \/ RefreshPath(c) \/ ReceiveStatus(c) \/ Resend(c)
          \/ PutResend(c) \/ RestartDesktop(c) \/ LoseCmd(c) \/ LoseStatus(c)
          => UNCHANGED <<arbVars, tickVars, ended, arrived, stray>>
    BY DEF IssueCmd, PutCmd, RefreshPath, ReceiveStatus, Resend, PutResend, RestartDesktop,
           LoseCmd, LoseStatus, piVars, hist
  <1>6. OtherCallback \/ UNCHANGED vars => UNCHANGED <<arbVars, tickVars, ended, arrived, stray>>
    BY DEF OtherCallback, EStopChanges, OdomReset, vars, piVars, hist
  <1> QED
    BY <1>1, <1>2, <1>3, <1>4, <1>5, <1>6 DEF Next, PiTick, TickStep

\* What a step adds to the queue of a client, a tick has published.
LEMMA PublishedIdle ==
  ASSUME TypeOK, CopyInv, [Next]_vars, NEW c \in Clients,
         NEW i \in Len(statusQ[c]) + 1 .. Len(statusQ'[c]), statusQ'[c][i].state = "IDLE"
  PROVE  fault.id = NoId /\ statusQ'[c][i].id = Larger(0, watermark)
  <1>0. PiTypeOK /\ statusQ \in [Clients -> Seq(Status)]
    BY DEF TypeOK
  <1>1. PiHolds(IdOrNone)
    <2>1. \A k \in 1 .. Len(rejects) : rejects[k] \in IdOrNone
      BY <1>0 DEF PiTypeOK, ArbTypeOK, IdOrNone, Ids
    <2> QED
      BY <1>0, <2>1, RecordTypes DEF PiHolds, PiTypeOK, ArbTypeOK
  <1>2. \A d \in Clients : statusQ[d] # <<>> => Len(Tail(statusQ[d])) < Len(statusQ[d])
    BY <1>0
  <1>3. Len(statusQ[c]) \in Nat /\ ~(Len(statusQ'[c]) <= Len(statusQ[c]))
    BY <1>0
  <1>4. ASSUME NEW d \in Clients, ReceiveStatus(d) \/ LoseStatus(d) PROVE FALSE
    <2>1. statusQ[d] # <<>> /\ statusQ' = [statusQ EXCEPT ![d] = Tail(@)]
      BY <1>4 DEF ReceiveStatus, LoseStatus
    <2>2. statusQ'[c] = statusQ[c] \/ (c = d /\ statusQ'[c] = Tail(statusQ[d]))
      BY <1>0, <2>1
    <2> QED
      BY <1>0, <1>2, <1>3, <2>1, <2>2
  <1>5. statusQ' # statusQ
    BY <1>0, <1>3
  <1>6. \A d \in Clients : IssueCmd(d) \/ PutCmd(d) \/ RefreshPath(d) \/ Resend(d) \/ PutResend(d)
          \/ RestartDesktop(d) \/ LoseCmd(d) \/ ReceiveCmd(d) => statusQ' = statusQ
    BY DEF IssueCmd, PutCmd, RefreshPath, Resend, PutResend, RestartDesktop, LoseCmd, ReceiveCmd
  <1>7. OtherCallback \/ RestartPi \/ UNCHANGED vars => statusQ' = statusQ
    BY DEF OtherCallback, RestartPi, vars
  <1>8. TickStep
    BY <1>4, <1>5, <1>6, <1>7 DEF Next, PiTick, TickStep
  <1>9. SUFFICES ASSUME NEW msgs \in Seq(Status), Publish(msgs),
                        \A k \in 1 .. Len(msgs) :
                          msgs[k].state = "IDLE" => /\ fault.id = NoId
                                                    /\ msgs[k].id = Larger(0, watermark)
                 PROVE  fault.id = NoId /\ statusQ'[c][i].id = Larger(0, watermark)
    BY <1>0, <1>1, <1>5, <1>8, PublishedIds
  <1>10. statusQ'[c] = statusQ[c] \o msgs
    BY <1>3, <1>9 DEF Publish
  <1>11. i - Len(statusQ[c]) \in 1 .. Len(msgs) /\ statusQ'[c][i] = msgs[i - Len(statusQ[c])]
    BY <1>0, <1>10
  <1> QED
    BY <1>9, <1>11

(***************************************************************************)
(* A desktop that reads IDLE under the id of its goto may take it for an   *)
(* arrival, however its commands are lost, resent or reordered and         *)
(* wherever in a tick they arrive: never does a dropped, refused or        *)
(* revoked goal decay into IDLE, but for the two exceptions that Strays    *)
(* names, each of which TLC shows to be needed.                            *)
(***************************************************************************)
THEOREM IdleIsArrival == Spec => IdleMeansArrived
  <1>1. Init => EndedInv /\ RememberedInv
    <2>1. PiWatermark \in IdOrNone /\ NoGoal.id = NoId
      BY Constants DEF NoGoal
    <2>2. Init => EndedInv
      BY <2>1 DEF Init, PiInit, ArbInit, EndedInv, IdOrNone, NoId
    <2>3. Init => RememberedInv
      BY <2>1 DEF Init, PiInit, ArbInit, RememberedInv
    <2> QED
      BY <2>2, <2>3
  <1>2. TypeOK /\ EndedInv /\ RememberedInv /\ [Next]_vars => (EndedInv /\ RememberedInv)'
    BY EndedStep, RememberedStep
  <1>3. ASSUME TypeOK, CopyInv, EndedInv, RememberedInv, [Next]_vars,
               NEW c \in Clients, NEW i \in Len(statusQ[c]) + 1 .. Len(statusQ'[c]),
               statusQ'[c][i].state = "IDLE", statusQ'[c][i].id \in ended
        PROVE  statusQ'[c][i].id \in arrived \cup stray
    <2>a. PiTypeOK /\ ended \subseteq Nat /\ NoId \notin Nat
      BY <1>3 DEF TypeOK, Ids, NoId
    <2>0. watermark \in Int /\ ended \subseteq Nat /\ NoId \notin Nat
      BY <2>a, PiNumbers
    <2>1. fault.id = NoId /\ statusQ'[c][i].id = Larger(0, watermark)
      BY <1>3, PublishedIdle
    <2>2. statusQ'[c][i].id = watermark
      BY <1>3, <2>0, <2>1 DEF Larger, EndedInv
    <2> QED
      BY <1>3, <2>0, <2>1, <2>2 DEF RememberedInv
  <1>4. TypeOK /\ CopyInv /\ EndedInv /\ RememberedInv /\ [Next]_vars =>
          [\A c \in Clients : \A i \in Len(statusQ[c]) + 1 .. Len(statusQ'[c]) :
             statusQ'[c][i].state = "IDLE" /\ statusQ'[c][i].id \in ended
               => statusQ'[c][i].id \in arrived \cup stray]_vars
    BY <1>3
  <1> QED
    BY <1>1, <1>2, <1>4, TypeCorrect, PTL DEF Spec, IdleMeansArrived
===============================================================================
