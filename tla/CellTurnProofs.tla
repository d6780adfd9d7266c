--------------------------- MODULE CellTurnProofs ---------------------------
(***************************************************************************)
(* Theorems about CellTurn, for every value of its constants.              *)
(***************************************************************************)
EXTENDS CellTurn, FiniteSetTheorems, WellFoundedInduction, TLAPS

(***************************************************************************)
(* The strengthening of NoLostWakeup: the flag `processing` is set exactly *)
(* while a turn is queued or running, so the steps of a turn need not be   *)
(* looked at for lost wakeups until they end it.                           *)
(***************************************************************************)
WakeupInv ==
    /\ processing \in BOOLEAN
    /\ processing <=> turn # "off"
    /\ NoLostWakeup

\* Schedule never leaves work behind that it was called for.
LEMMA ScheduleKeepsWakeup ==
    ASSUME WakeupInv, Schedule, state' = state, timer' = timer
    PROVE  WakeupInv'
BY DEF WakeupInv, Schedule, NoLostWakeup, HasDispatchableWork, HasMessages

\* Neither does the finally of run().
LEMMA EndTurnKeepsWakeup ==
    ASSUME EndTurn
    PROVE  WakeupInv'
BY DEF WakeupInv, EndTurn, NoLostWakeup, HasDispatchableWork, HasMessages

\* A step inside a turn that does not end it.
LEMMA InTurnKeepsWakeup ==
    ASSUME WakeupInv, turn # "off", turn' # "off", processing' = processing
    PROVE  WakeupInv'
BY DEF WakeupInv, NoLostWakeup

\* A system command done: the turn goes on, or it ends with the cell.
LEMMA DoneKeepsWakeup ==
    ASSUME WakeupInv, turn # "off", CommandDone
    PROVE  WakeupInv'
BY EndTurnKeepsWakeup, InTurnKeepsWakeup DEF CommandDone, Goto

\* throttle, cancelThrottle and the timer disarm the pause and wake a running cell.
LEMMA DisarmKeepsWakeup ==
    ASSUME WakeupInv, ScheduleIfRunning, timer' = FALSE,
           UNCHANGED <<state, queue, sysq, suspended>>
    PROVE  WakeupInv'
BY DEF WakeupInv, ScheduleIfRunning, Schedule, NoLostWakeup, HasDispatchableWork, HasMessages

LEMMA InitWakeup == Init => WakeupInv
BY DEF Init, WakeupInv, NoLostWakeup

LEMMA NextWakeup == WakeupInv /\ [Next]_vars => WakeupInv'
<1> SUFFICES ASSUME WakeupInv, [Next]_vars PROVE WakeupInv'
  OBVIOUS
<1>1. CASE UNCHANGED vars
  BY <1>1 DEF vars, lane, life, pace, WakeupInv, NoLostWakeup
<1>2. CASE Arrive
  <2>1. CASE PostUserMessage
    BY <2>1, ScheduleKeepsWakeup DEF PostUserMessage, life, pace, WakeupInv, NoLostWakeup
  <2>2. CASE PostSignal
    BY <2>2, ScheduleKeepsWakeup DEF PostSignal, life, pace, WakeupInv, NoLostWakeup
  <2>3. CASE ChildStops
    BY <2>3, ScheduleKeepsWakeup DEF ChildStops, life, pace
  <2>4. ASSUME NEW c \in {"suspend", "recreate", "terminate"}, Supervise(c)
        PROVE  WakeupInv'
    BY <2>4, ScheduleKeepsWakeup DEF Supervise, pace
  <2>5. ASSUME NEW c \in {"resume", "recreate", "terminate"}, Decide(c)
        PROVE  WakeupInv'
    BY <2>5, ScheduleKeepsWakeup DEF Decide, pace
  <2> QED BY <1>2, <2>1, <2>2, <2>3, <2>4, <2>5 DEF Arrive
<1>3. CASE Clock
  <2>1. CASE Refill
    BY <2>1 DEF Refill, lane, life, WakeupInv, NoLostWakeup
  <2>2. CASE ResumeTimer
    BY <2>2, DisarmKeepsWakeup DEF ResumeTimer, lane, life
  <2> QED BY <1>3, <2>1, <2>2 DEF Clock
<1>4. CASE Turn
  <2>1. CASE TurnStart
    BY <2>1, InTurnKeepsWakeup DEF TurnStart
  <2>2. CASE LoopEnds \/ ThrottleExcess
    BY <2>2, EndTurnKeepsWakeup DEF LoopEnds, ThrottleExcess
  <2>3. CASE OnCreate
    BY <2>3, InTurnKeepsWakeup DEF OnCreate, TakeCommand, Goto
  <2>4. CASE OnSuspend \/ OnResume \/ OnRecreate
    BY <2>4, InTurnKeepsWakeup, DoneKeepsWakeup
    DEF OnSuspend, OnResume, OnRecreate, TakeCommand, Goto
  <2>5. CASE OnTerminate \/ PoisonPill
    BY <2>5, InTurnKeepsWakeup, DoneKeepsWakeup
    DEF OnTerminate, PoisonPill, Dequeue, UserTurn, TakeCommand, BeginTermination
  <2>6. CASE OnChildTerminated
    BY <2>6, InTurnKeepsWakeup, DoneKeepsWakeup
    DEF OnChildTerminated, TakeCommand, Goto, BeginRebuild
  <2>7. CASE HandlerStarts \/ Kill
    BY <2>7, InTurnKeepsWakeup DEF HandlerStarts, Kill, Dequeue, UserTurn, Goto
  <2> QED BY <1>4, <2>1, <2>2, <2>3, <2>4, <2>5, <2>6, <2>7 DEF Turn
<1>5. CASE Settle
  <2>1. CASE PostStopSettles
    BY <2>1, EndTurnKeepsWakeup, InTurnKeepsWakeup DEF PostStopSettles, Goto
  <2>2. CASE PreStartSettles \/ PreRestartSettles \/ PostRestartSettles \/ HandlerSettles
    BY <2>2, InTurnKeepsWakeup, DoneKeepsWakeup
    DEF PreStartSettles, PreRestartSettles, PostRestartSettles, HandlerSettles, Goto, BeginRebuild
  <2> QED BY <1>5, <2>1, <2>2 DEF Settle
<1>6. CASE ContextCall
  <2>1. CASE Stash \/ SpawnChild
    BY <2>1, InTurnKeepsWakeup DEF Stash, SpawnChild
  <2>2. CASE UnstashAll
    BY <2>2, ScheduleKeepsWakeup DEF UnstashAll, life, pace
  <2>3. CASE CancelThrottle
    BY <2>3, DisarmKeepsWakeup DEF CancelThrottle, lane, life
  <2>4. ASSUME NEW mode \in {"pause", "drop"}, Throttle(mode)
        PROVE  WakeupInv'
    BY <2>4, DisarmKeepsWakeup DEF Throttle, lane, life
  <2> QED BY <1>6, <2>1, <2>2, <2>3, <2>4 DEF ContextCall
<1> QED BY <1>1, <1>2, <1>3, <1>4, <1>5, <1>6 DEF Next

(***************************************************************************)
(* No call of schedule() is missing from ActorCell: whatever the constants *)
(* a live cell without a dispatched turn has nothing to do.                *)
(***************************************************************************)
THEOREM WakeupNeverLost == Spec => []NoLostWakeup
<1>1. WakeupInv => NoLostWakeup
  BY DEF WakeupInv
<1> QED BY InitWakeup, NextWakeup, <1>1, PTL DEF Spec

-----------------------------------------------------------------------------
(***************************************************************************)
(* The strengthening of StopIsFinal.  A cell on its way to stopping waits  *)
(* for children or for postStop, so a restart it is handed parks behind    *)
(* the children (StopChildrenOnRestart) and is then dropped; a terminated  *)
(* one is past reviving once its turn is over; and the only "create" a     *)
(* cell ever sees is the first command of its life.                        *)
(***************************************************************************)
StopInv ==
    /\ sysq \in Seq(Commands) /\ children \in Nat
    /\ \A i \in 1..Len(sysq) :
          sysq[i] = "create" => i = 1 /\ state = "creating" /\ turn \in {"queued", "loop"}
    /\ state = "terminating" => turn \in {"postStop", "pillStop"} \/ children > 0
    /\ turn = "postRestart" => state # "terminating"

\* What StopIsFinal says of a step.
StaysStopped == Stopping /\ ~LastTurn => Stopping'

LEMMA InitStop == Init => StopInv
BY DEF Init, StopInv, Stopping, Commands

\* Where a turn stands after schedule(): it never moves one that exists.
LEMMA ScheduleTurn ==
    ASSUME WakeupInv, Schedule, UNCHANGED state
    PROVE  \/ turn' = turn
           \/ turn = "off" /\ turn' = "queued" /\ state # "terminated"
BY DEF WakeupInv, Schedule

\* A step that leaves the system lane alone and at most arms a turn.
LEMMA ScheduleKeepsStop ==
    ASSUME StopInv, WakeupInv, Schedule \/ UNCHANGED turn, UNCHANGED <<state, children, sysq>>
    PROVE  StopInv'
BY ScheduleTurn DEF StopInv, Stopping

\* Appending a command other than "create", and arming a turn.
LEMMA ArriveKeepsStop ==
    ASSUME StopInv, WakeupInv, NEW c \in Commands \ {"create"}, sysq' = Append(sysq, c), Schedule,
           UNCHANGED <<state, children>>
    PROVE  StopInv'
<1>1. sysq' \in Seq(Commands) /\ Len(sysq') = Len(sysq) + 1 /\ sysq'[Len(sysq) + 1] = c
  BY DEF StopInv
<1>2. \A i \in 1..Len(sysq) : sysq'[i] = sysq[i]
  BY DEF StopInv
<1>3. \A i \in 1..Len(sysq') :
        sysq'[i] = "create" => i = 1 /\ state' = "creating" /\ turn' \in {"queued", "loop"}
  BY <1>1, <1>2, ScheduleTurn DEF StopInv
<1> QED BY <1>1, <1>3, ScheduleTurn DEF StopInv, Stopping

\* Taking a command: no "create" is left behind the head.
LEMMA TakeKeepsLane ==
    ASSUME StopInv, NEW c \in Commands, TakeCommand(c)
    PROVE  /\ sysq' \in Seq(Commands)
           /\ \A i \in 1..Len(sysq') : sysq'[i] # "create"
           /\ c = "create" => state = "creating"
           /\ turn = "loop" /\ (state = "terminating" => children > 0)
<1>1. sysq \in Seq(Commands) /\ sysq # <<>> /\ sysq' = Tail(sysq) /\ sysq[1] = c
  BY DEF TakeCommand, StopInv
<1>2. Len(sysq') = Len(sysq) - 1 /\ \A i \in 1..Len(sysq') : sysq'[i] = sysq[i + 1]
  BY <1>1
<1>3. Len(sysq) \in Nat /\ Len(sysq) # 0
  BY <1>1
<1>4. \A i \in 1..Len(sysq') : sysq'[i] # "create"
  BY <1>2, <1>3 DEF StopInv
<1> QED BY <1>1, <1>3, <1>4 DEF StopInv, TakeCommand

LEMMA NextStop ==
    ASSUME StopChildrenOnRestart, StopInv, WakeupInv, [Next]_vars
    PROVE  StopInv' /\ StaysStopped
<1>1. CASE UNCHANGED vars
  BY <1>1 DEF vars, lane, life, StopInv, Stopping, StaysStopped, LastTurn
<1>2. CASE Arrive
  <2>1. CASE PostUserMessage
    BY <2>1, ScheduleKeepsStop DEF PostUserMessage, life, Stopping, StaysStopped, LastTurn
  <2>2. CASE PostSignal
    BY <2>2, ScheduleKeepsStop DEF PostSignal, life, Stopping, StaysStopped, LastTurn
  <2>3. CASE ChildStops
    BY <2>3, ArriveKeepsStop
    DEF ChildStops, EnqueueSystem, life, Commands, Stopping, StaysStopped, LastTurn
  <2>4. ASSUME NEW c \in {"suspend", "recreate", "terminate"}, Supervise(c)
        PROVE  StopInv' /\ StaysStopped
    BY <2>4, ArriveKeepsStop
    DEF Supervise, EnqueueSystem, Commands, Stopping, StaysStopped, LastTurn
  <2>5. ASSUME NEW c \in {"resume", "recreate", "terminate"}, Decide(c)
        PROVE  StopInv' /\ StaysStopped
    BY <2>5, ArriveKeepsStop DEF Decide, EnqueueSystem, Commands, Stopping, StaysStopped, LastTurn
  <2> QED BY <1>2, <2>1, <2>2, <2>3, <2>4, <2>5 DEF Arrive
<1>3. CASE Clock
  BY <1>3, ScheduleKeepsStop
  DEF Clock, Refill, ResumeTimer, ScheduleIfRunning, lane, life, Stopping, StaysStopped, LastTurn
<1>4. CASE Turn
  <2>1. CASE TurnStart
    BY <2>1 DEF TurnStart, lane, life, StopInv, Stopping, StaysStopped, LastTurn
  <2>2. CASE LoopEnds
    <3>1. sysq # <<>> => turn' = "queued" \/ state = "terminated"
      BY <2>2 DEF LoopEnds, EndTurn, lane, life, HasDispatchableWork, HasMessages
    <3> QED BY <2>2, <3>1
        DEF LoopEnds, EndTurn, lane, life, StopInv, Stopping, StaysStopped, LastTurn
  <2>3. CASE ThrottleExcess
    BY <2>3 DEF ThrottleExcess, UserTurn, EndTurn, life, StopInv, Stopping, StaysStopped, LastTurn
  <2>4. CASE OnCreate
    BY <2>4, TakeKeepsLane
    DEF OnCreate, Goto, FailToParent, Commands, StopInv, Stopping, StaysStopped, LastTurn
  <2>5. CASE OnSuspend
    BY <2>5, TakeKeepsLane
    DEF OnSuspend, CommandDone, EndTurn, Goto, Commands, StopInv, Stopping, StaysStopped, LastTurn
  <2>6. CASE OnResume
    BY <2>6, TakeKeepsLane
    DEF OnResume, CommandDone, EndTurn, Goto, Commands, StopInv, Stopping, StaysStopped, LastTurn
  <2>7. CASE OnTerminate
    BY <2>7, TakeKeepsLane
    DEF OnTerminate, CommandDone, EndTurn, Goto, BeginTermination, Commands, StopInv, Stopping,
        StaysStopped, LastTurn
  <2>8. CASE OnRecreate
    BY <2>8, TakeKeepsLane
    DEF OnRecreate, CommandDone, EndTurn, Goto, Commands, life, StopInv, Stopping, StaysStopped,
        LastTurn
  <2>9. CASE OnChildTerminated
    BY <2>9, TakeKeepsLane
    DEF OnChildTerminated, CommandDone, EndTurn, Goto, BeginRebuild, FailToParent, Commands,
        StopInv, Stopping, StaysStopped, LastTurn
  <2>10. CASE HandlerStarts
    BY <2>10
    DEF HandlerStarts, Dequeue, UserTurn, Goto, life, StopInv, Stopping, StaysStopped, LastTurn
  <2>11. CASE PoisonPill
    BY <2>11
    DEF PoisonPill, Dequeue, UserTurn, BeginTermination, StopInv, Stopping, StaysStopped, LastTurn
  <2>12. CASE Kill
    BY <2>12 DEF Kill, Dequeue, UserTurn, FailToParent, StopInv, Stopping, StaysStopped, LastTurn
  <2> QED BY <1>4, <2>1, <2>2, <2>3, <2>4, <2>5, <2>6, <2>7, <2>8, <2>9, <2>10, <2>11, <2>12
          DEF Turn
<1>5. CASE Settle
  <2>1. CASE PreStartSettles
    BY <2>1 DEF PreStartSettles, Goto, FailToParent, StopInv, Stopping, StaysStopped, LastTurn
  <2>2. CASE PreRestartSettles
    BY <2>2
    DEF PreRestartSettles, CommandDone, EndTurn, Goto, BeginRebuild, FailToParent, StopInv,
        Stopping, StaysStopped, LastTurn
  <2>3. CASE PostRestartSettles
    BY <2>3
    DEF PostRestartSettles, CommandDone, EndTurn, Goto, FailToParent, StopInv, Stopping,
        StaysStopped, LastTurn
  <2>4. CASE PostStopSettles
    BY <2>4 DEF PostStopSettles, EndTurn, Goto, StopInv, Stopping, StaysStopped, LastTurn
  <2>5. CASE HandlerSettles
    BY <2>5 DEF HandlerSettles, FailToParent, StopInv, Stopping, StaysStopped, LastTurn
  <2> QED BY <1>5, <2>1, <2>2, <2>3, <2>4, <2>5 DEF Settle
<1>6. CASE ContextCall
  <2>1. CASE Stash
    BY <2>1 DEF Stash, lane, life, StopInv, Stopping, StaysStopped, LastTurn
  <2>2. CASE SpawnChild
    BY <2>2 DEF SpawnChild, lane, StopInv, Stopping, StaysStopped, LastTurn
  <2>3. CASE UnstashAll
    BY <2>3, ScheduleKeepsStop DEF UnstashAll, life, Stopping, StaysStopped, LastTurn
  <2>4. CASE CancelThrottle
    BY <2>4, ScheduleKeepsStop
    DEF CancelThrottle, ScheduleIfRunning, lane, life, Stopping, StaysStopped, LastTurn
  <2>5. ASSUME NEW mode \in {"pause", "drop"}, Throttle(mode)
        PROVE  StopInv' /\ StaysStopped
    BY <2>5, ScheduleKeepsStop
    DEF Throttle, ScheduleIfRunning, lane, life, Stopping, StaysStopped, LastTurn
  <2> QED BY <1>6, <2>1, <2>2, <2>3, <2>4, <2>5 DEF ContextCall
<1> QED BY <1>1, <1>2, <1>3, <1>4, <1>5, <1>6 DEF Next

(***************************************************************************)
(* With the default stopChildrenOnRestart, an actor ordered to stop is     *)
(* never revived, whatever restarts, resumes and failures race the order,  *)
(* unless a recreate reaches it in the turn that handled its PoisonPill:   *)
(* a stopping cell is revived by nothing, and a terminated one by nothing  *)
(* once that turn is over.  Run cell_turn_revive shows both the exception  *)
(* and the need for the assumption.                                        *)
(***************************************************************************)
THEOREM StopNeverRevoked == ASSUME StopChildrenOnRestart PROVE Spec => StopIsFinal
<1>1. StopInv /\ WakeupInv /\ [Next]_vars => StopInv' /\ WakeupInv' /\ [StaysStopped]_vars
  BY NextStop, NextWakeup
<1> QED BY InitStop, InitWakeup, <1>1, PTL DEF Spec, StopIsFinal, StaysStopped

-----------------------------------------------------------------------------
(* Sequences of envelopes *)

\* The messages of a sequence; no message twice; in arrival order.
Ids(s) == {s[i].id : i \in 1..Len(s)}

Distinct(s) == \A i, j \in 1..Len(s) : s[i].id = s[j].id => i = j

Ordered(s) == \A i, j \in 1..Len(s) : i < j => s[i].id < s[j].id

Below(A, B) == \A a \in A : \A b \in B : a < b

\* Every non-empty set of naturals has a least element.
LEMMA LeastNatural ==
    ASSUME NEW T, T \subseteq Nat, T # {}
    PROVE  \E n \in T : \A m \in T : n <= m
<1> DEFINE R == OpToRel(<, Nat)
<1>1. IsWellFoundedOn(R, Nat)
  BY NatLessThanWellFounded
<1>2. \E x \in T : \A y \in T : ~(<<y, x>> \in R)
  <2> HIDE DEF R
  <2> QED BY <1>1, WFMin
<1>3. PICK x \in T : \A y \in T : ~(<<y, x>> \in R)
  BY <1>2
<1>4. \A y \in T : ~(y < x)
  BY <1>3 DEF OpToRel
<1>5. \A y \in T : x \in Nat /\ y \in Nat
  OBVIOUS
<1>6. \A y \in T : x <= y
  BY <1>4, <1>5
<1> QED BY <1>6

LEMMA DroppableFinite ==
    ASSUME NEW s \in Seq(Envelope)
    PROVE  /\ IsFiniteSet(DroppableAt(s)) /\ DroppableIn(s) = Cardinality(DroppableAt(s))
           /\ DroppableIn(s) \in Nat /\ DroppableIn(s) <= Len(s)
<1>1. Len(s) \in Nat
  OBVIOUS
<1>2. IsFiniteSet(1..Len(s)) /\ Cardinality(1..Len(s)) = Len(s)
  BY <1>1, FS_Interval
<1>3. IsFiniteSet(DroppableAt(s)) /\ Cardinality(DroppableAt(s)) <= Len(s)
  BY <1>2, FS_Subset DEF DroppableAt
<1>4. Cardinality(DroppableAt(s)) \in Nat
  BY <1>3, FS_CardinalityType
<1> QED BY <1>3, <1>4 DEF DroppableIn, DroppableAt

\* Two sequences, one behind the other.
LEMMA Joined ==
    ASSUME NEW s \in Seq(Envelope), NEW t \in Seq(Envelope)
    PROVE  /\ s \o t \in Seq(Envelope) /\ Len(s \o t) = Len(s) + Len(t)
           /\ Ids(s \o t) = Ids(s) \cup Ids(t)
           /\ Distinct(s \o t) <=> Distinct(s) /\ Distinct(t) /\ Ids(s) \cap Ids(t) = {}
           /\ Ordered(s \o t) <=> Ordered(s) /\ Ordered(t) /\ Below(Ids(s), Ids(t))
           /\ DroppableIn(s \o t) = DroppableIn(s) + DroppableIn(t)
<1> DEFINE u == s \o t
           n == Len(s)
           m == Len(t)
<1>1. u \in Seq(Envelope) /\ Len(u) = n + m /\ n \in Nat /\ m \in Nat
  OBVIOUS
<1>2. \A i \in 1..n : i \in 1..Len(u) /\ u[i] = s[i]
  BY <1>1
<1>3. \A i \in 1..m : n + i \in 1..Len(u) /\ u[n + i] = t[i]
  BY <1>1
<1>4. \A i \in 1..Len(u) : i \in 1..n \/ (i - n \in 1..m /\ i = n + (i - n))
  BY <1>1
<1> HIDE DEF u
<1>5. Ids(u) = Ids(s) \cup Ids(t)
  <2>1. Ids(u) \subseteq Ids(s) \cup Ids(t)
    <3> SUFFICES ASSUME NEW i \in 1..Len(u) PROVE u[i].id \in Ids(s) \cup Ids(t)
      BY DEF Ids
    <3>1. CASE i \in 1..n
      BY <1>2, <3>1 DEF Ids
    <3>2. CASE i - n \in 1..m /\ i = n + (i - n)
      <4>1. u[i] = t[i - n]
        BY <1>3, <3>2
      <4> QED BY <3>2, <4>1 DEF Ids
    <3> QED BY <1>4, <3>1, <3>2
  <2>2. Ids(s) \subseteq Ids(u)
    BY <1>2 DEF Ids
  <2>3. Ids(t) \subseteq Ids(u)
    BY <1>3 DEF Ids
  <2> QED BY <2>1, <2>2, <2>3
<1>6. ASSUME Distinct(u) PROVE Distinct(s) /\ Distinct(t) /\ Ids(s) \cap Ids(t) = {}
  <2>1. Distinct(s)
    BY <1>2, <1>6 DEF Distinct
  <2>2. Distinct(t)
    <3> SUFFICES ASSUME NEW i \in 1..m, NEW j \in 1..m, t[i].id = t[j].id PROVE i = j
      BY DEF Distinct
    <3>1. n + i = n + j
      BY <1>3, <1>6 DEF Distinct
    <3> QED BY <1>1, <3>1
  <2>3. \A i \in 1..n, j \in 1..m : s[i].id # t[j].id
    <3> SUFFICES ASSUME NEW i \in 1..n, NEW j \in 1..m, s[i].id = t[j].id PROVE FALSE
      OBVIOUS
    <3>1. i = n + j
      BY <1>2, <1>3, <1>6 DEF Distinct
    <3> QED BY <1>1, <3>1
  <2> QED BY <2>1, <2>2, <2>3 DEF Ids
<1>7. ASSUME Distinct(s), Distinct(t), Ids(s) \cap Ids(t) = {} PROVE Distinct(u)
  <2>1. \A i \in 1..n, j \in 1..m : s[i].id # t[j].id
    BY <1>7 DEF Ids
  <2> SUFFICES ASSUME NEW i \in 1..Len(u), NEW j \in 1..Len(u), u[i].id = u[j].id PROVE i = j
    BY DEF Distinct
  <2>2. CASE i \in 1..n /\ j \in 1..n
    BY <1>2, <1>7, <2>2 DEF Distinct
  <2>3. CASE i - n \in 1..m /\ i = n + (i - n) /\ j - n \in 1..m /\ j = n + (j - n)
    <3>1. i - n = j - n
      BY <1>3, <1>7, <2>3 DEF Distinct
    <3> QED BY <1>1, <2>3, <3>1
  <2>4. CASE i \in 1..n /\ j - n \in 1..m /\ j = n + (j - n)
    <3>1. u[i] = s[i] /\ u[j] = t[j - n]
      BY <1>2, <1>3, <2>4
    <3> QED BY <2>1, <2>4, <3>1
  <2>5. CASE j \in 1..n /\ i - n \in 1..m /\ i = n + (i - n)
    <3>1. u[j] = s[j] /\ u[i] = t[i - n]
      BY <1>2, <1>3, <2>5
    <3> QED BY <2>1, <2>5, <3>1
  <2> QED BY <1>4, <2>2, <2>3, <2>4, <2>5
<1>8. ASSUME Ordered(u) PROVE Ordered(s) /\ Ordered(t) /\ Below(Ids(s), Ids(t))
  <2>1. Ordered(s)
    BY <1>2, <1>8 DEF Ordered
  <2>2. Ordered(t)
    <3> SUFFICES ASSUME NEW i \in 1..m, NEW j \in 1..m, i < j PROVE t[i].id < t[j].id
      BY DEF Ordered
    <3>1. n + i < n + j
      BY <1>1
    <3> QED BY <1>3, <1>8, <3>1 DEF Ordered
  <2>3. \A i \in 1..n, j \in 1..m : s[i].id < t[j].id
    <3> SUFFICES ASSUME NEW i \in 1..n, NEW j \in 1..m PROVE s[i].id < t[j].id
      OBVIOUS
    <3>1. i < n + j
      BY <1>1
    <3> QED BY <1>2, <1>3, <1>8, <3>1 DEF Ordered
  <2> QED BY <2>1, <2>2, <2>3 DEF Ids, Below
<1>9. ASSUME Ordered(s), Ordered(t), Below(Ids(s), Ids(t)) PROVE Ordered(u)
  <2>1. \A i \in 1..n, j \in 1..m : s[i].id < t[j].id
    BY <1>9 DEF Ids, Below
  <2> SUFFICES ASSUME NEW i \in 1..Len(u), NEW j \in 1..Len(u), i < j PROVE u[i].id < u[j].id
    BY DEF Ordered
  <2>2. CASE i \in 1..n /\ j \in 1..n
    BY <1>2, <1>9, <2>2 DEF Ordered
  <2>3. CASE i - n \in 1..m /\ i = n + (i - n) /\ j - n \in 1..m /\ j = n + (j - n)
    <3>1. i - n < j - n
      BY <1>1, <2>3
    <3>2. t[i - n].id < t[j - n].id
      BY <1>9, <2>3, <3>1 DEF Ordered
    <3> QED BY <1>3, <2>3, <3>2
  <2>4. CASE i \in 1..n /\ j - n \in 1..m /\ j = n + (j - n)
    <3>1. u[i] = s[i] /\ u[j] = t[j - n]
      BY <1>2, <1>3, <2>4
    <3> QED BY <2>1, <2>4, <3>1
  <2>5. CASE j \in 1..n /\ i - n \in 1..m /\ i = n + (i - n)
    BY <1>1, <2>5
  <2> QED BY <1>4, <2>2, <2>3, <2>4, <2>5
<1>10. DroppableIn(u) = DroppableIn(s) + DroppableIn(t)
  <2> DEFINE A == DroppableAt(s)
             B == DroppableAt(t)
             C == {n + i : i \in B}
             f == [i \in B |-> n + i]
  <2>1. IsFiniteSet(A) /\ IsFiniteSet(B)
    BY DroppableFinite
  <2>2. IsFiniteSet(C) /\ Cardinality(C) = Cardinality(B)
    <3>1. B \subseteq Int /\ n \in Int
      BY <1>1 DEF DroppableAt
    <3> HIDE DEF B
    <3>2. f \in Bijection(B, C)
      BY <3>1 DEF Bijection, Injection, IsInjective, Surjection
    <3> HIDE DEF C, f
    <3>3. ExistsBijection(B, C)
      BY <3>2 DEF ExistsBijection
    <3> QED BY <2>1, <3>3, FS_Bijection
  <2>3. DroppableAt(u) = A \cup C
    <3>1. \A i \in DroppableAt(u) : i \in A \/ i \in C
      BY <1>1, <1>2, <1>3, <1>4 DEF DroppableAt
    <3>2. A \subseteq DroppableAt(u)
      BY <1>2 DEF DroppableAt
    <3>3. C \subseteq DroppableAt(u)
      BY <1>3 DEF DroppableAt
    <3> QED BY <3>1, <3>2, <3>3
  <2>4. A \cap C = {}
    BY <1>1 DEF DroppableAt
  <2>5. Cardinality(A \cup C) = Cardinality(A) + Cardinality(C)
    <3> HIDE DEF A, C
    <3>1. Cardinality(A \cup C) = Cardinality(A) + Cardinality(C) - Cardinality(A \cap C)
      BY <2>1, <2>2, FS_Union
    <3>2. Cardinality(A \cap C) = 0
      BY <2>4, FS_EmptySet
    <3>3. Cardinality(A) \in Nat /\ Cardinality(C) \in Nat
      BY <2>1, <2>2, FS_CardinalityType
    <3> QED BY <3>1, <3>2, <3>3
  <2> QED BY <1>1, <2>2, <2>3, <2>5, DroppableFinite
<1> QED BY <1>1, <1>5, <1>6, <1>7, <1>8, <1>9, <1>10 DEF u

LEMMA Single ==
    ASSUME NEW e \in Envelope
    PROVE  /\ <<e>> \in Seq(Envelope) /\ Len(<<e>>) = 1 /\ Ids(<<e>>) = {e.id}
           /\ Distinct(<<e>>) /\ Ordered(<<e>>)
           /\ DroppableIn(<<e>>) = IF Droppable(e) THEN 1 ELSE 0
<1>1. <<e>> \in Seq(Envelope) /\ Len(<<e>>) = 1 /\ <<e>>[1] = e
  OBVIOUS
<1>2. \A i \in 1..Len(<<e>>) : i = 1
  BY <1>1
<1>3. Ids(<<e>>) = {e.id} /\ Distinct(<<e>>) /\ Ordered(<<e>>)
  BY <1>1, <1>2 DEF Ids, Distinct, Ordered
<1>4. DroppableAt(<<e>>) = IF Droppable(e) THEN {1} ELSE {}
  BY <1>1, <1>2 DEF DroppableAt
<1>5. DroppableIn(<<e>>) = IF Droppable(e) THEN 1 ELSE 0
  BY <1>1, <1>4, DroppableFinite, FS_EmptySet, FS_Singleton
<1> QED BY <1>1, <1>3, <1>5

LEMMA Empty ==
    /\ <<>> \in Seq(Envelope) /\ Len(<<>>) = 0 /\ Ids(<<>>) = {} /\ Distinct(<<>>) /\ Ordered(<<>>)
    /\ DroppableIn(<<>>) = 0
<1>1. <<>> \in Seq(Envelope) /\ Len(<<>>) = 0 /\ 1..Len(<<>>) = {}
  OBVIOUS
<1>2. DroppableAt(<<>>) = {}
  BY <1>1 DEF DroppableAt
<1>3. DroppableIn(<<>>) = 0
  BY <1>1, <1>2, DroppableFinite, FS_EmptySet
<1>4. Ids(<<>>) = {} /\ Distinct(<<>>) /\ Ordered(<<>>)
  BY <1>1 DEF Ids, Distinct, Ordered
<1> QED BY <1>1, <1>3, <1>4

\* One more envelope at the tail.
LEMMA Appended ==
    ASSUME NEW s \in Seq(Envelope), NEW e \in Envelope
    PROVE  /\ Append(s, e) \in Seq(Envelope) /\ Len(Append(s, e)) = Len(s) + 1
           /\ Ids(Append(s, e)) = Ids(s) \cup {e.id}
           /\ Distinct(Append(s, e)) <=> Distinct(s) /\ e.id \notin Ids(s)
           /\ Ordered(Append(s, e)) <=> Ordered(s) /\ Below(Ids(s), {e.id})
           /\ DroppableIn(Append(s, e)) = DroppableIn(s) + IF Droppable(e) THEN 1 ELSE 0
<1>1. Append(s, e) = s \o <<e>>
  OBVIOUS
<1>2. /\ <<e>> \in Seq(Envelope) /\ Len(<<e>>) = 1 /\ Ids(<<e>>) = {e.id}
      /\ Distinct(<<e>>) /\ Ordered(<<e>>)
      /\ DroppableIn(<<e>>) = IF Droppable(e) THEN 1 ELSE 0
  BY Single
<1> DEFINE one == <<e>>
<1>3. /\ s \o one \in Seq(Envelope) /\ Len(s \o one) = Len(s) + Len(one)
      /\ Ids(s \o one) = Ids(s) \cup Ids(one)
      /\ Distinct(s \o one) <=> Distinct(s) /\ Distinct(one) /\ Ids(s) \cap Ids(one) = {}
      /\ Ordered(s \o one) <=> Ordered(s) /\ Ordered(one) /\ Below(Ids(s), Ids(one))
      /\ DroppableIn(s \o one) = DroppableIn(s) + DroppableIn(one)
  <2>1. one \in Seq(Envelope)
    BY <1>2
  <2> HIDE DEF one
  <2> QED BY <2>1, Joined
<1>4. Ids(s) \cap {e.id} = {} <=> e.id \notin Ids(s)
  OBVIOUS
<1> QED BY <1>1, <1>2, <1>3, <1>4

\* The envelope e, taken out of s, leaves t.
TakenOut(s, e, t) ==
    /\ t \in Seq(Envelope) /\ e \in Envelope /\ Len(s) = Len(t) + 1
    /\ Ids(s) = Ids(t) \cup {e.id}
    /\ Distinct(s) => Distinct(t) /\ e.id \notin Ids(t)
    /\ Ordered(s) => Ordered(t)
    /\ DroppableIn(s) = DroppableIn(t) + IF Droppable(e) THEN 1 ELSE 0

LEMMA Middle ==
    ASSUME NEW a \in Seq(Envelope), NEW e \in Envelope, NEW b \in Seq(Envelope)
    PROVE  TakenOut(Append(a, e) \o b, e, a \o b)
<1> DEFINE c == Append(a, e)
<1>1. /\ c \in Seq(Envelope) /\ Len(c) = Len(a) + 1 /\ Ids(c) = Ids(a) \cup {e.id}
      /\ Distinct(c) <=> Distinct(a) /\ e.id \notin Ids(a)
      /\ Ordered(c) <=> Ordered(a) /\ Below(Ids(a), {e.id})
      /\ DroppableIn(c) = DroppableIn(a) + IF Droppable(e) THEN 1 ELSE 0
  BY Appended
<1> HIDE DEF c
<1>2. /\ c \o b \in Seq(Envelope) /\ Len(c \o b) = Len(c) + Len(b)
      /\ Ids(c \o b) = Ids(c) \cup Ids(b)
      /\ Distinct(c \o b) <=> Distinct(c) /\ Distinct(b) /\ Ids(c) \cap Ids(b) = {}
      /\ Ordered(c \o b) <=> Ordered(c) /\ Ordered(b) /\ Below(Ids(c), Ids(b))
      /\ DroppableIn(c \o b) = DroppableIn(c) + DroppableIn(b)
  BY <1>1, Joined
<1>3. /\ a \o b \in Seq(Envelope) /\ Len(a \o b) = Len(a) + Len(b)
      /\ Ids(a \o b) = Ids(a) \cup Ids(b)
      /\ Distinct(a \o b) <=> Distinct(a) /\ Distinct(b) /\ Ids(a) \cap Ids(b) = {}
      /\ Ordered(a \o b) <=> Ordered(a) /\ Ordered(b) /\ Below(Ids(a), Ids(b))
      /\ DroppableIn(a \o b) = DroppableIn(a) + DroppableIn(b)
  BY Joined
<1>4. /\ Len(a) \in Nat /\ Len(b) \in Nat /\ DroppableIn(a) \in Nat /\ DroppableIn(b) \in Nat
  BY DroppableFinite
<1>5. Len(c \o b) = Len(a \o b) + 1
  BY <1>1, <1>2, <1>3, <1>4
<1>6. DroppableIn(c \o b) = DroppableIn(a \o b) + IF Droppable(e) THEN 1 ELSE 0
  BY <1>1, <1>2, <1>3, <1>4
<1>7. Ids(c \o b) = Ids(a \o b) \cup {e.id}
  BY <1>1, <1>2, <1>3
<1>8. Distinct(c \o b) => Distinct(a \o b) /\ e.id \notin Ids(a \o b)
  BY <1>1, <1>2, <1>3
<1>9. Ordered(c \o b) => Ordered(a \o b)
  BY <1>1, <1>2, <1>3 DEF Below
<1> QED BY <1>3, <1>5, <1>6, <1>7, <1>8, <1>9 DEF TakenOut, c

\* removeOldest, removeNewest: one envelope leaves from its place.
LEMMA Removed ==
    ASSUME NEW s \in Seq(Envelope), NEW i \in 1..Len(s)
    PROVE  TakenOut(s, s[i], Without(s, i))
<1> DEFINE a == SubSeq(s, 1, i - 1)
           b == SubSeq(s, i + 1, Len(s))
<1>0. Len(s) \in Nat /\ i \in Int /\ s[i] \in Envelope
  OBVIOUS
<1>1. /\ a \in Seq(Envelope) /\ Len(a) = i - 1 /\ \A k \in 1..i - 1 : a[k] = s[k]
  BY <1>0
<1>2. /\ b \in Seq(Envelope) /\ Len(b) = Len(s) - i /\ \A k \in 1..Len(s) - i : b[k] = s[i + k]
  BY <1>0
<1> HIDE DEF a, b
<1>3. Append(a, s[i]) \o b = s
  <2> DEFINE c == Append(a, s[i])
             d == c \o b
  <2>1. /\ c \in Seq(Envelope) /\ Len(c) = i /\ c[i] = s[i]
        /\ \A k \in 1..i - 1 : c[k] = s[k]
    BY <1>0, <1>1
  <2> HIDE DEF c
  <2>2. /\ d \in Seq(Envelope) /\ Len(d) = Len(s) /\ \A k \in 1..i : d[k] = c[k]
        /\ \A k \in 1..Len(s) - i : d[i + k] = b[k]
    BY <1>0, <1>2, <2>1
  <2> HIDE DEF d
  <2>3. ASSUME NEW k \in 1..Len(s) PROVE d[k] = s[k]
    <3>1. CASE k < i
      BY <2>1, <2>2, <3>1
    <3>2. CASE k = i
      BY <2>1, <2>2, <3>2
    <3>3. CASE k > i
      <4>1. k - i \in 1..Len(s) - i /\ i + (k - i) = k
        BY <1>0, <3>3
      <4>2. d[i + (k - i)] = b[k - i] /\ b[k - i] = s[i + (k - i)]
        BY <1>2, <2>2, <4>1
      <4> QED BY <4>1, <4>2
    <3> QED BY <1>0, <3>1, <3>2, <3>3
  <2>4. d = s
    BY <2>2, <2>3
  <2> QED BY <2>4 DEF d, c
<1>4. TakenOut(Append(a, s[i]) \o b, s[i], a \o b)
  BY <1>0, <1>1, <1>2, Middle
<1> QED BY <1>3, <1>4 DEF Without, a, b

\* dequeue: the head leaves.
LEMMA Dequeued ==
    ASSUME NEW s \in Seq(Envelope), s # <<>>
    PROVE  /\ TakenOut(s, Head(s), Tail(s))
           /\ Ordered(s) => Below({Head(s).id}, Ids(Tail(s)))
<1> DEFINE e == Head(s)
           t == Tail(s)
           one == <<e>>
<1>1. e \in Envelope /\ t \in Seq(Envelope) /\ s = one \o t
  OBVIOUS
<1>2. /\ one \in Seq(Envelope) /\ Len(one) = 1 /\ Ids(one) = {e.id} /\ Distinct(one)
      /\ DroppableIn(one) = IF Droppable(e) THEN 1 ELSE 0
  BY <1>1, Single
<1> HIDE DEF e, t, one
<1>3. /\ Len(s) = Len(one) + Len(t) /\ Ids(s) = Ids(one) \cup Ids(t)
      /\ Distinct(s) <=> Distinct(one) /\ Distinct(t) /\ Ids(one) \cap Ids(t) = {}
      /\ Ordered(s) <=> Ordered(one) /\ Ordered(t) /\ Below(Ids(one), Ids(t))
      /\ DroppableIn(s) = DroppableIn(one) + DroppableIn(t)
  BY <1>1, <1>2, Joined
<1>4. Len(t) \in Nat /\ DroppableIn(t) \in Nat
  BY <1>1, DroppableFinite
<1>5. Len(s) = Len(t) + 1 /\ DroppableIn(s) = DroppableIn(t) + IF Droppable(e) THEN 1 ELSE 0
  BY <1>2, <1>3, <1>4
<1>6. /\ Ids(s) = Ids(t) \cup {e.id} /\ (Distinct(s) => Distinct(t) /\ e.id \notin Ids(t))
      /\ Ordered(s) => Ordered(t) /\ Below({e.id}, Ids(t))
  BY <1>2, <1>3
<1> QED BY <1>1, <1>5, <1>6 DEF TakenOut, e, t

-----------------------------------------------------------------------------
(* What the mailbox's operations return *)

\* A search finds nothing only where there is nothing to find.
LEMMA IndexFound ==
    ASSUME NEW s \in Seq(Envelope), NEW i, i \in {OldestIndex(s), NewestIndex(s)}
    PROVE  \/ i = 0 /\ DroppableIn(s) = 0
           \/ i \in 1..Len(s) /\ Droppable(s[i])
<1> DEFINE I == DroppableAt(s)
           J == {Len(s) - k : k \in I}
<1>1. Len(s) \in Nat /\ I \subseteq 1..Len(s) /\ \A k \in I : Droppable(s[k])
  BY DEF DroppableAt
<1>2. /\ OldestIndex(s) = IF I # {} THEN Min(I) ELSE 0
      /\ NewestIndex(s) = IF I # {} THEN Max(I) ELSE 0
  BY DEF OldestIndex, NewestIndex
<1>3. I = {} => DroppableIn(s) = 0
  BY DroppableFinite, FS_EmptySet
<1> HIDE DEF I
<1>4. ASSUME I # {} PROVE Min(I) \in I /\ Max(I) \in I
  <2>0. I \subseteq Nat
    BY <1>1
  <2>1. PICK n \in I : \A m \in I : n <= m
    BY <1>4, <2>0, LeastNatural
  <2>2. Min(I) \in I
    BY <2>1 DEF Min
  <2>3. J \subseteq Nat /\ J # {}
    BY <1>1, <1>4
  <2>4. PICK n1 \in J : \A m \in J : n1 <= m
    BY <2>3, LeastNatural
  <2>5. PICK k \in I : n1 = Len(s) - k
    BY <2>4
  <2>6. \A m \in I : k >= m
    <3> SUFFICES ASSUME NEW m \in I PROVE k >= m
      OBVIOUS
    <3>1. Len(s) - k <= Len(s) - m
      BY <2>4, <2>5
    <3> QED BY <1>1, <2>0, <3>1
  <2>7. Max(I) \in I
    BY <2>6 DEF Max
  <2> QED BY <2>2, <2>7
<1>5. CASE I = {}
  BY <1>2, <1>3, <1>5
<1>6. CASE I # {}
  <2>1. i \in I
    BY <1>2, <1>4, <1>6
  <2> QED BY <1>1, <2>1
<1> QED BY <1>5, <1>6

\* Of the lane s, q is kept, in its order, and d, which may be shed, is not.
Sheds(s, q, d) ==
    /\ q \in Seq(Envelope) /\ d \in Seq(Envelope)
    /\ Ids(s) = Ids(q) \cup Ids(d)
    /\ Distinct(s) => Distinct(q) /\ Distinct(d) /\ Ids(q) \cap Ids(d) = {}
    /\ Ordered(s) => Ordered(q)
    /\ \A i \in 1..Len(d) : Droppable(d[i])

LEMMA ShedsNothing ==
    ASSUME NEW s \in Seq(Envelope) PROVE Sheds(s, s, <<>>)
BY Empty DEF Sheds

\* enqueue sheds within the bound, or refuses and changes nothing.
LEMMA EnqueueSheds ==
    ASSUME NEW q \in Seq(Envelope), NEW e \in Envelope, Droppable(e),
           NEW capacity \in Nat \ {0}, NEW policy \in Policies, DroppableIn(q) <= capacity
    PROVE  LET r == Enqueue(q, e, capacity, policy)
           IN  /\ r.refused \in BOOLEAN
               /\ ~r.refused => /\ Sheds(Append(q, e), r.queue, r.dropped)
                                /\ DroppableIn(r.queue) <= capacity
<1> DEFINE r == Enqueue(q, e, capacity, policy)
           i == OldestIndex(q)
           t == Without(q, i)
<1>1. /\ Append(q, e) \in Seq(Envelope) /\ Ids(Append(q, e)) = Ids(q) \cup {e.id}
      /\ Distinct(Append(q, e)) <=> Distinct(q) /\ e.id \notin Ids(q)
      /\ Ordered(Append(q, e)) <=> Ordered(q) /\ Below(Ids(q), {e.id})
      /\ DroppableIn(Append(q, e)) = DroppableIn(q) + 1
  BY Appended
<1>2. DroppableIn(q) \in Nat /\ DroppableIn(q) <= Len(q) /\ Len(q) \in Nat
  BY DroppableFinite
<1>3. Sheds(Append(q, e), Append(q, e), <<>>)
  BY <1>1, ShedsNothing
<1>4. CASE Len(q) < capacity
  <2>1. r = Accept(Append(q, e))
    BY <1>4 DEF Enqueue
  <2>2. DroppableIn(Append(q, e)) <= capacity
    BY <1>1, <1>2, <1>4
  <2> QED BY <1>3, <2>1, <2>2 DEF Accept
<1>5. CASE Len(q) >= capacity /\ policy = "drop-head"
  <2>1. r = EnqueueDropHead(q, e)
    BY <1>2, <1>5 DEF Enqueue
  <2>2. CASE i = 0 /\ DroppableIn(q) = 0
    <3>1. r = Accept(Append(q, e))
      BY <2>1, <2>2 DEF EnqueueDropHead
    <3> QED BY <1>1, <1>3, <2>2, <3>1 DEF Accept
  <2>3. CASE i \in 1..Len(q) /\ Droppable(q[i])
    <3>1. r = Shed(Append(t, e), <<q[i]>>)
      BY <2>1, <2>3 DEF EnqueueDropHead
    <3> DEFINE d == <<q[i]>>
    <3>2. TakenOut(q, q[i], t)
      BY <2>3, Removed
    <3>3. /\ t \in Seq(Envelope) /\ q[i] \in Envelope /\ Ids(q) = Ids(t) \cup {q[i].id}
          /\ Distinct(q) => Distinct(t) /\ q[i].id \notin Ids(t)
          /\ Ordered(q) => Ordered(t)
          /\ DroppableIn(q) = DroppableIn(t) + 1
      BY <2>3, <3>2 DEF TakenOut
    <3>4. /\ d \in Seq(Envelope) /\ Ids(d) = {q[i].id} /\ Distinct(d)
          /\ \A k \in 1..Len(d) : d[k] = q[i]
      BY <3>3, Single
    <3> HIDE DEF t, d
    <3>5. /\ Append(t, e) \in Seq(Envelope) /\ Ids(Append(t, e)) = Ids(t) \cup {e.id}
          /\ Distinct(Append(t, e)) <=> Distinct(t) /\ e.id \notin Ids(t)
          /\ Ordered(Append(t, e)) <=> Ordered(t) /\ Below(Ids(t), {e.id})
          /\ DroppableIn(Append(t, e)) = DroppableIn(t) + 1
      BY <3>3, Appended
    <3>6. DroppableIn(Append(t, e)) <= capacity
      BY <3>3, <3>5
    <3>7. Ordered(Append(q, e)) => Ordered(Append(t, e))
      BY <1>1, <3>3, <3>5 DEF Below
    <3>8. Distinct(Append(q, e)) => Distinct(Append(t, e)) /\ Ids(Append(t, e)) \cap Ids(d) = {}
      BY <1>1, <3>3, <3>4, <3>5
    <3>9. Ids(Append(q, e)) = Ids(Append(t, e)) \cup Ids(d)
      BY <1>1, <3>3, <3>4, <3>5
    <3>10. Sheds(Append(q, e), Append(t, e), d)
      BY <2>3, <3>4, <3>5, <3>7, <3>8, <3>9 DEF Sheds
    <3> QED BY <3>1, <3>6, <3>10 DEF Shed, d
  <2> QED BY <2>2, <2>3, IndexFound
<1>6. CASE Len(q) >= capacity /\ policy = "drop-new"
  <2>1. r = Shed(q, <<e>>)
    BY <1>2, <1>6 DEF Enqueue
  <2> DEFINE d == <<e>>
  <2>2. d \in Seq(Envelope) /\ Ids(d) = {e.id} /\ Distinct(d) /\ \A k \in 1..Len(d) : d[k] = e
    BY Single
  <2> HIDE DEF d
  <2>3. Sheds(Append(q, e), q, d)
    BY <1>1, <2>2 DEF Sheds
  <2> QED BY <2>1, <2>3 DEF Shed, d
<1>7. CASE Len(q) >= capacity /\ policy = "reject"
  <2>1. r = Refuse(q)
    BY <1>2, <1>7 DEF Enqueue
  <2> QED BY <2>1 DEF Refuse
<1> QED BY <1>2, <1>4, <1>5, <1>6, <1>7 DEF Policies

\* The loop of prependUser after k turns.
Replays(acc, n, old, envs, capacity, policy) ==
    acc = [k \in 0..n |-> IF k = 0 THEN [queue |-> old, admitted |-> <<>>, dropped |-> <<>>]
                                   ELSE AdmitReplay(acc[k - 1], envs[k], capacity, policy)]

\* The recursion of PrependShedding is well founded.
LEMMA ReplayExists ==
    ASSUME NEW n \in Nat, NEW old, NEW envs, NEW capacity, NEW policy
    PROVE  \E acc : Replays(acc, n, old, envs, capacity, policy)
<1> DEFINE start == [queue |-> old, admitted |-> <<>>, dropped |-> <<>>]
           Step(x, k) == AdmitReplay(x, envs[k], capacity, policy)
           Runs(g, m) == g = [k \in 0..m |-> IF k = 0 THEN start ELSE Step(g[k - 1], k)]
           T == {m \in Nat : ~\E g : Runs(g, m)}
<1> HIDE DEF start, Step
<1>1. ASSUME T # {} PROVE FALSE
  <2>1. T \subseteq Nat
    OBVIOUS
  <2>2. PICK m \in T : \A j \in T : m <= j
    <3> HIDE DEF T
    <3> QED BY <1>1, <2>1, LeastNatural
  <2>3. m \in Nat /\ ~\E g : Runs(g, m)
    BY <2>2
  <2>4. CASE m = 0
    <3> DEFINE g == [k \in 0..0 |-> start]
    <3>1. \A k \in 0..0 : k = 0
      OBVIOUS
    <3>2. g = [k \in 0..0 |-> IF k = 0 THEN start ELSE Step(g[k - 1], k)]
      BY <3>1
    <3> HIDE DEF g
    <3> QED BY <2>3, <2>4, <3>2
  <2>5. CASE m # 0
    <3>1. m - 1 \in Nat /\ m - 1 < m
      BY <2>3, <2>5
    <3>2. m - 1 \notin T
      <4> HIDE DEF T
      <4>1. m - 1 \in T => m <= m - 1
        BY <2>2
      <4> QED BY <2>3, <4>1
    <3>3. PICK g : Runs(g, m - 1)
      BY <3>1, <3>2
    <3> DEFINE h == [k \in 0..m |-> IF k = m THEN Step(g[m - 1], m) ELSE g[k]]
    <3>4. ASSUME NEW k \in 0..m
          PROVE  h[k] = IF k = 0 THEN start ELSE Step(h[k - 1], k)
      <4>1. CASE k = m
        <5>1. m - 1 \in 0..m /\ m - 1 # m
          BY <2>3, <3>1
        <5>2. h[m - 1] = g[m - 1]
          BY <5>1
        <5>3. h[m] = Step(g[m - 1], m)
          BY <2>3
        <5> QED BY <2>5, <4>1, <5>2, <5>3
      <4>2. CASE k = 0
        <5>1. 0 \in 0..m - 1 /\ k # m
          BY <2>3, <2>5, <3>1, <4>2
        <5>2. g[0] = start
          BY <3>3, <5>1
        <5> QED BY <4>2, <5>1, <5>2
      <4>3. CASE k # m /\ k # 0
        <5>1. k \in 0..m - 1 /\ k - 1 \in 0..m - 1 /\ k - 1 \in 0..m /\ k - 1 # m
          BY <2>3, <4>3
        <5>2. g[k] = Step(g[k - 1], k)
          BY <3>3, <4>3, <5>1
        <5>3. h[k] = g[k] /\ h[k - 1] = g[k - 1]
          BY <4>3, <5>1
        <5> QED BY <4>3, <5>2, <5>3
      <4> QED BY <4>1, <4>2, <4>3
    <3>5. h = [k \in 0..m |-> h[k]]
      OBVIOUS
    <3> HIDE DEF h
    <3>6. h = [k \in 0..m |-> IF k = 0 THEN start ELSE Step(h[k - 1], k)]
      BY <3>4, <3>5
    <3> QED BY <2>3, <3>6
  <2> QED BY <2>4, <2>5
<1>2. \E g : Runs(g, n)
  BY <1>1
<1> QED BY <1>2 DEF Replays, start, Step

\* What the loop keeps: x after the envelopes pre, in front of the queue old.
Loop(x, pre, old, capacity) ==
    /\ x \in [queue : Seq(Envelope), admitted : Seq(Envelope), dropped : Seq(Envelope)]
    /\ Ids(x.queue) \cup Ids(x.admitted) \cup Ids(x.dropped) = Ids(old) \cup Ids(pre)
    /\ Ids(x.queue) \subseteq Ids(old) /\ Ids(x.admitted) \subseteq Ids(pre)
    /\ Distinct(pre) /\ Distinct(old) /\ Ids(pre) \cap Ids(old) = {} =>
          /\ Distinct(x.queue) /\ Distinct(x.admitted) /\ Distinct(x.dropped)
          /\ Ids(x.dropped) \cap (Ids(x.queue) \cup Ids(x.admitted)) = {}
    /\ Ordered(old) => Ordered(x.queue)
    /\ Ordered(pre) => Ordered(x.admitted)
    /\ \A i \in 1..Len(x.dropped) : Droppable(x.dropped[i])
    /\ DroppableIn(x.queue) + DroppableIn(x.admitted) <= capacity

\* One turn of the loop, the decision of drop-head and drop-new.
LEMMA AdmitKeeps ==
    ASSUME NEW old \in Seq(Envelope), NEW pre \in Seq(Envelope), NEW e \in Envelope,
           NEW capacity \in Nat, NEW policy, NEW x, Loop(x, pre, old, capacity)
    PROVE  Loop(AdmitReplay(x, e, capacity, policy), Append(pre, e), old, capacity)
<1> DEFINE y == AdmitReplay(x, e, capacity, policy)
           all == Append(pre, e)
           i == NewestIndex(x.queue)
           a == Append(x.admitted, e)
<1>1. /\ x.queue \in Seq(Envelope) /\ x.admitted \in Seq(Envelope) /\ x.dropped \in Seq(Envelope)
      /\ x = [queue |-> x.queue, admitted |-> x.admitted, dropped |-> x.dropped]
  BY DEF Loop
<1>2. /\ all \in Seq(Envelope) /\ Ids(all) = Ids(pre) \cup {e.id}
      /\ Distinct(all) <=> Distinct(pre) /\ e.id \notin Ids(pre)
      /\ Ordered(all) <=> Ordered(pre) /\ Below(Ids(pre), {e.id})
  BY Appended
<1>3. /\ a \in Seq(Envelope) /\ Ids(a) = Ids(x.admitted) \cup {e.id}
      /\ Distinct(a) <=> Distinct(x.admitted) /\ e.id \notin Ids(x.admitted)
      /\ Ordered(a) <=> Ordered(x.admitted) /\ Below(Ids(x.admitted), {e.id})
      /\ DroppableIn(a) = DroppableIn(x.admitted) + IF Droppable(e) THEN 1 ELSE 0
  BY <1>1, Appended
<1>4. /\ DroppableIn(x.queue) \in Nat /\ DroppableIn(x.queue) <= Len(x.queue)
      /\ DroppableIn(x.admitted) \in Nat /\ DroppableIn(x.admitted) <= Len(x.admitted)
      /\ Len(x.queue) \in Nat /\ Len(x.admitted) \in Nat
  BY <1>1, DroppableFinite
<1>5. Ordered(all) => Ordered(a)
  BY <1>2, <1>3 DEF Loop, Below
<1>6. Ids(a) \subseteq Ids(all)
  BY <1>2, <1>3 DEF Loop
<1> HIDE DEF all, a
<1>7. CASE e.undroppable \/ Len(x.queue) + Len(x.admitted) < capacity
  <2>1. y = [queue |-> x.queue, admitted |-> a, dropped |-> x.dropped]
    BY <1>1, <1>7 DEF AdmitReplay, a
  <2>2. y.queue = x.queue /\ y.admitted = a /\ y.dropped = x.dropped
    BY <2>1
  <2>3. DroppableIn(x.queue) + DroppableIn(a) <= capacity
    <3>1. CASE e.undroppable
      BY <1>3, <1>4, <3>1 DEF Loop, Droppable
    <3>2. CASE Len(x.queue) + Len(x.admitted) < capacity
      <4>1. DroppableIn(a) \in Nat /\ DroppableIn(a) <= DroppableIn(x.admitted) + 1
        BY <1>3, <1>4
      <4> DEFINE da == DroppableIn(a)
                 dq == DroppableIn(x.queue)
                 dx == DroppableIn(x.admitted)
                 lq == Len(x.queue)
                 lx == Len(x.admitted)
      <4>2. /\ da \in Nat /\ da <= dx + 1 /\ dq \in Nat /\ dq <= lq /\ dx \in Nat /\ dx <= lx
            /\ lq \in Nat /\ lx \in Nat /\ lq + lx < capacity
        BY <1>4, <3>2, <4>1
      <4> HIDE DEF da, dq, dx, lq, lx
      <4>3. dq + da <= capacity
        BY <4>2
      <4> QED BY <4>3 DEF da, dq
    <3> QED BY <1>7, <3>1, <3>2
  <2>4. ASSUME Distinct(all), Distinct(old), Ids(all) \cap Ids(old) = {}
        PROVE  /\ Distinct(x.queue) /\ Distinct(a) /\ Distinct(x.dropped)
               /\ Ids(x.dropped) \cap (Ids(x.queue) \cup Ids(a)) = {}
    BY <1>2, <1>3, <2>4 DEF Loop
  <2>5. Ids(x.queue) \cup Ids(a) \cup Ids(x.dropped) = Ids(old) \cup Ids(all)
    BY <1>2, <1>3 DEF Loop
  <2>6. y \in [queue : Seq(Envelope), admitted : Seq(Envelope), dropped : Seq(Envelope)]
    BY <1>1, <1>3, <2>1
  <2> HIDE DEF y
  <2>7. Loop(y, all, old, capacity)
    BY <1>5, <1>6, <2>2, <2>3, <2>4, <2>5, <2>6 DEF Loop
  <2> QED BY <2>7 DEF y, all
<1>8. CASE /\ ~(e.undroppable \/ Len(x.queue) + Len(x.admitted) < capacity)
           /\ policy = "drop-head" /\ i # 0
  <2> DEFINE v == x.queue[i]
             t == Without(x.queue, i)
             d == Append(x.dropped, v)
  <2>1. i \in 1..Len(x.queue) /\ Droppable(v)
    BY <1>1, <1>8, IndexFound
  <2>2. TakenOut(x.queue, v, t)
    BY <1>1, <2>1, Removed
  <2>3. y = [queue |-> t, admitted |-> a, dropped |-> d]
    BY <1>8 DEF AdmitReplay, a
  <2> HIDE DEF v, t
  <2>4. /\ d \in Seq(Envelope) /\ Ids(d) = Ids(x.dropped) \cup {v.id} /\ Len(d) = Len(x.dropped) + 1
        /\ Distinct(d) <=> Distinct(x.dropped) /\ v.id \notin Ids(x.dropped)
    BY <1>1, <2>2, Appended DEF TakenOut
  <2>5. \A k \in 1..Len(d) : Droppable(d[k])
    <3> SUFFICES ASSUME NEW k \in 1..Len(d) PROVE Droppable(d[k])
      OBVIOUS
    <3>1. CASE k = Len(x.dropped) + 1
      BY <1>1, <2>1, <2>2, <3>1 DEF TakenOut
    <3>2. CASE k \in 1..Len(x.dropped)
      BY <1>1, <2>2, <3>2 DEF TakenOut, Loop
    <3> QED BY <1>1, <2>4, <3>1, <3>2
  <2> HIDE DEF d
  <2>6. y.queue = t /\ y.admitted = a /\ y.dropped = d
    BY <2>3
  <2>7. /\ t \in Seq(Envelope) /\ Ids(x.queue) = Ids(t) \cup {v.id}
        /\ Distinct(x.queue) => Distinct(t) /\ v.id \notin Ids(t)
        /\ Ordered(x.queue) => Ordered(t)
        /\ DroppableIn(x.queue) = DroppableIn(t) + 1
    BY <2>1, <2>2 DEF TakenOut
  <2>8. DroppableIn(t) + DroppableIn(a) <= capacity
    <3>1. DroppableIn(t) \in Nat
      BY <2>7, DroppableFinite
    <3> QED BY <1>3, <1>4, <2>7, <3>1 DEF Loop
  <2>9. ASSUME Distinct(all), Distinct(old), Ids(all) \cap Ids(old) = {}
        PROVE  /\ Distinct(t) /\ Distinct(a) /\ Distinct(d)
               /\ Ids(d) \cap (Ids(t) \cup Ids(a)) = {}
    <3>1. /\ Distinct(x.queue) /\ Distinct(x.admitted) /\ Distinct(x.dropped)
          /\ Ids(x.dropped) \cap (Ids(x.queue) \cup Ids(x.admitted)) = {}
      BY <1>2, <2>9 DEF Loop
    <3>2. v.id \in Ids(old) /\ v.id \notin Ids(all) /\ e.id \notin Ids(old) /\ e.id \notin Ids(pre)
      BY <1>2, <2>7, <2>9 DEF Loop
    <3>3. e.id \notin Ids(x.dropped)
      BY <3>2 DEF Loop
    <3>4. e.id \notin Ids(t) /\ e.id # v.id /\ v.id \notin Ids(a)
      BY <1>2, <1>6, <2>7, <3>2 DEF Loop
    <3>5. Distinct(t) /\ Distinct(d) /\ Distinct(a)
      BY <1>3, <2>4, <2>7, <3>1, <3>2 DEF Loop
    <3> QED BY <1>3, <2>4, <2>7, <3>1, <3>3, <3>4, <3>5
  <2>10. Ids(t) \cup Ids(a) \cup Ids(d) = Ids(old) \cup Ids(all)
    BY <1>2, <1>3, <2>4, <2>7 DEF Loop
  <2>11. y \in [queue : Seq(Envelope), admitted : Seq(Envelope), dropped : Seq(Envelope)]
    BY <1>3, <2>3, <2>4, <2>7
  <2>12. Ids(t) \subseteq Ids(old) /\ (Ordered(old) => Ordered(t))
    BY <2>7 DEF Loop
  <2> HIDE DEF y
  <2>13. Loop(y, all, old, capacity)
    BY <1>5, <1>6, <2>5, <2>6, <2>8, <2>9, <2>10, <2>11, <2>12 DEF Loop
  <2> QED BY <2>13 DEF y, all
<1>9. CASE /\ ~(e.undroppable \/ Len(x.queue) + Len(x.admitted) < capacity)
           /\ ~(policy = "drop-head" /\ i # 0)
  <2> DEFINE d == Append(x.dropped, e)
  <2>1. y = [queue |-> x.queue, admitted |-> x.admitted, dropped |-> d]
    BY <1>1, <1>9 DEF AdmitReplay
  <2>2. /\ d \in Seq(Envelope) /\ Ids(d) = Ids(x.dropped) \cup {e.id} /\ Len(d) = Len(x.dropped) + 1
        /\ Distinct(d) <=> Distinct(x.dropped) /\ e.id \notin Ids(x.dropped)
    BY <1>1, Appended
  <2>3. \A k \in 1..Len(d) : Droppable(d[k])
    <3> SUFFICES ASSUME NEW k \in 1..Len(d) PROVE Droppable(d[k])
      OBVIOUS
    <3>1. CASE k = Len(x.dropped) + 1
      BY <1>1, <1>9, <3>1 DEF Droppable
    <3>2. CASE k \in 1..Len(x.dropped)
      BY <1>1, <3>2 DEF Loop
    <3> QED BY <1>1, <2>2, <3>1, <3>2
  <2> HIDE DEF d
  <2>4. y.queue = x.queue /\ y.admitted = x.admitted /\ y.dropped = d
    BY <2>1
  <2>5. ASSUME Distinct(all), Distinct(old), Ids(all) \cap Ids(old) = {}
        PROVE  /\ Distinct(x.queue) /\ Distinct(x.admitted) /\ Distinct(d)
               /\ Ids(d) \cap (Ids(x.queue) \cup Ids(x.admitted)) = {}
    <3>1. /\ Distinct(x.queue) /\ Distinct(x.admitted) /\ Distinct(x.dropped)
          /\ Ids(x.dropped) \cap (Ids(x.queue) \cup Ids(x.admitted)) = {}
      BY <1>2, <2>5 DEF Loop
    <3>2. e.id \notin Ids(old) /\ e.id \notin Ids(pre)
      BY <1>2, <2>5
    <3> QED BY <2>2, <3>1, <3>2 DEF Loop
  <2>6. Ids(x.queue) \cup Ids(x.admitted) \cup Ids(d) = Ids(old) \cup Ids(all)
    BY <1>2, <2>2 DEF Loop
  <2>7. y \in [queue : Seq(Envelope), admitted : Seq(Envelope), dropped : Seq(Envelope)]
    BY <1>1, <2>1, <2>2
  <2>8. Ids(x.admitted) \subseteq Ids(all) /\ (Ordered(all) => Ordered(x.admitted))
    BY <1>2 DEF Loop
  <2> HIDE DEF y
  <2>9. Loop(y, all, old, capacity)
    BY <2>3, <2>4, <2>5, <2>6, <2>7, <2>8 DEF Loop
  <2> QED BY <2>9 DEF y, all
<1> QED BY <1>7, <1>8, <1>9

\* prependUser for drop-head and drop-new.
LEMMA PrependSheddingSheds ==
    ASSUME NEW old \in Seq(Envelope), NEW envs \in Seq(Envelope),
           NEW capacity \in Nat, NEW policy, DroppableIn(old) <= capacity
    PROVE  LET r == PrependShedding(old, envs, capacity, policy)
           IN  /\ r.refused = FALSE
               /\ Sheds(envs \o old, r.queue, r.dropped)
               /\ DroppableIn(r.queue) <= capacity
<1> DEFINE n == Len(envs)
           acc == CHOOSE acc : acc = [k \in 0..n |->
                      IF k = 0 THEN [queue |-> old, admitted |-> <<>>, dropped |-> <<>>]
                               ELSE AdmitReplay(acc[k - 1], envs[k], capacity, policy)]
           end == acc[n]
           Pre(k) == SubSeq(envs, 1, k)
           r == PrependShedding(old, envs, capacity, policy)
<1>1. r = Shed(end.admitted \o end.queue, end.dropped)
  BY DEF PrependShedding
<1>2. n \in Nat
  OBVIOUS
<1>3. acc = [k \in 0..n |->
                IF k = 0 THEN [queue |-> old, admitted |-> <<>>, dropped |-> <<>>]
                         ELSE AdmitReplay(acc[k - 1], envs[k], capacity, policy)]
  <2> DEFINE P(g) == g = [k \in 0..n |->
                IF k = 0 THEN [queue |-> old, admitted |-> <<>>, dropped |-> <<>>]
                         ELSE AdmitReplay(g[k - 1], envs[k], capacity, policy)]
  <2>1. \E g : P(g)
    <3> HIDE DEF n
    <3>1. PICK g : Replays(g, n, old, envs, capacity, policy)
      BY <1>2, ReplayExists
    <3>2. P(g)
      BY <3>1 DEF Replays
    <3> HIDE DEF P
    <3> QED BY <3>2
  <2>2. acc = CHOOSE g : P(g)
    BY Zenon
  <2> HIDE DEF P, acc
  <2>3. P(acc)
    BY <2>1, <2>2, Zenon
  <2> QED BY <2>3 DEF P
<1> HIDE DEF acc
<1>4. acc[0] = [queue |-> old, admitted |-> <<>>, dropped |-> <<>>]
  BY <1>2, <1>3
<1>5. ASSUME NEW k \in 1..n PROVE acc[k] = AdmitReplay(acc[k - 1], envs[k], capacity, policy)
  <2>1. k \in 0..n /\ k # 0
    BY <1>2
  <2> QED BY <1>3, <2>1
<1>6. ASSUME NEW k \in 1..n
      PROVE  /\ Pre(k - 1) \in Seq(Envelope) /\ envs[k] \in Envelope
             /\ Pre(k) = Append(Pre(k - 1), envs[k])
  <2>1. k \in Nat /\ k - 1 \in Nat /\ envs[k] \in Envelope
    BY <1>2
  <2>2. /\ Pre(k) \in Seq(Envelope) /\ Len(Pre(k)) = k /\ \A i \in 1..k : Pre(k)[i] = envs[i]
        /\ Pre(k - 1) \in Seq(Envelope) /\ Len(Pre(k - 1)) = k - 1
        /\ \A i \in 1..k - 1 : Pre(k - 1)[i] = envs[i]
    BY <1>2, <2>1
  <2> DEFINE p == Pre(k)
             q == Append(Pre(k - 1), envs[k])
  <2>3. /\ q \in Seq(Envelope) /\ Len(q) = k /\ q[k] = envs[k]
        /\ \A i \in 1..k - 1 : q[i] = envs[i]
    BY <2>1, <2>2
  <2>4. \A i \in 1..k : i = k \/ i \in 1..k - 1
    BY <2>1
  <2>5. p \in Seq(Envelope) /\ Len(p) = k /\ \A i \in 1..k : p[i] = envs[i]
    BY <2>2
  <2> HIDE DEF p, q
  <2>6. \A i \in 1..k : p[i] = q[i]
    BY <2>3, <2>4, <2>5
  <2>7. p = q
    BY <2>3, <2>5, <2>6
  <2> QED BY <2>1, <2>2, <2>7 DEF p, q
<1>7. Loop(acc[0], Pre(0), old, capacity)
  <2>1. Pre(0) = <<>>
    OBVIOUS
  <2>2. DroppableIn(old) \in Nat
    BY DroppableFinite
  <2>3. acc[0].queue = old /\ acc[0].admitted = <<>> /\ acc[0].dropped = <<>>
    BY <1>4
  <2>4. acc[0] \in [queue : Seq(Envelope), admitted : Seq(Envelope), dropped : Seq(Envelope)]
    BY <1>4, Empty
  <2> HIDE DEF Pre
  <2> QED BY <2>1, <2>2, <2>3, <2>4, Empty DEF Loop
<1>8. Loop(end, Pre(n), old, capacity)
  <2> DEFINE T == {k \in 0..n : ~Loop(acc[k], Pre(k), old, capacity)}
  <2> HIDE DEF Pre
  <2>1. ASSUME T # {} PROVE FALSE
    <3>1. T \subseteq Nat
      OBVIOUS
    <3>2. PICK k \in T : \A j \in T : k <= j
      <4> HIDE DEF T
      <4> QED BY <2>1, <3>1, LeastNatural
    <3>3. k \in 0..n /\ ~Loop(acc[k], Pre(k), old, capacity)
      BY <3>2
    <3>4. k \in 1..n /\ k - 1 \in 0..n
      BY <1>2, <1>7, <3>3
    <3>5. k - 1 \notin T
      <4> HIDE DEF T
      <4>1. k - 1 \in T => k <= k - 1
        BY <3>2
      <4> QED BY <3>4, <4>1
    <3>6. Loop(acc[k - 1], Pre(k - 1), old, capacity)
      BY <3>4, <3>5
    <3>7. Loop(AdmitReplay(acc[k - 1], envs[k], capacity, policy), Append(Pre(k - 1), envs[k]),
               old, capacity)
      BY <1>6, <3>4, <3>6, AdmitKeeps
    <3> QED BY <1>5, <1>6, <3>3, <3>4, <3>7
  <2>2. n \in 0..n
    BY <1>2
  <2> QED BY <2>1, <2>2
<1>9. Pre(n) = envs
  BY <1>2
<1>10. Loop(end, envs, old, capacity)
  BY <1>8, <1>9
<1> DEFINE a == end.admitted
           q == end.queue
           d == end.dropped
<1> HIDE DEF end, r
<1>11. a \in Seq(Envelope) /\ q \in Seq(Envelope) /\ d \in Seq(Envelope)
  BY <1>10 DEF Loop
<1>12. /\ a \o q \in Seq(Envelope) /\ Ids(a \o q) = Ids(a) \cup Ids(q)
       /\ Distinct(a \o q) <=> Distinct(a) /\ Distinct(q) /\ Ids(a) \cap Ids(q) = {}
       /\ Ordered(a \o q) <=> Ordered(a) /\ Ordered(q) /\ Below(Ids(a), Ids(q))
       /\ DroppableIn(a \o q) = DroppableIn(a) + DroppableIn(q)
  <2> HIDE DEF a, q
  <2> QED BY <1>11, Joined
<1>13. /\ envs \o old \in Seq(Envelope) /\ Ids(envs \o old) = Ids(envs) \cup Ids(old)
       /\ Distinct(envs \o old) <=> Distinct(envs) /\ Distinct(old) /\ Ids(envs) \cap Ids(old) = {}
       /\ Ordered(envs \o old) <=> Ordered(envs) /\ Ordered(old) /\ Below(Ids(envs), Ids(old))
  BY Joined
<1>14. DroppableIn(a \o q) <= capacity
  <2>1. /\ DroppableIn(a) \in Nat /\ DroppableIn(q) \in Nat
        /\ DroppableIn(q) + DroppableIn(a) <= capacity
    BY <1>10, <1>11, DroppableFinite DEF Loop
  <2> QED BY <1>12, <2>1
<1>15. Ids(envs \o old) = Ids(a \o q) \cup Ids(d)
  BY <1>10, <1>12, <1>13 DEF Loop
<1>16. ASSUME Distinct(envs \o old)
       PROVE  Distinct(a \o q) /\ Distinct(d) /\ Ids(a \o q) \cap Ids(d) = {}
  <2>1. /\ Distinct(q) /\ Distinct(a) /\ Distinct(d) /\ Ids(d) \cap (Ids(q) \cup Ids(a)) = {}
    BY <1>10, <1>13, <1>16 DEF Loop
  <2>2. Ids(a) \cap Ids(q) = {}
    BY <1>10, <1>13, <1>16 DEF Loop
  <2> QED BY <1>12, <2>1, <2>2
<1>17. ASSUME Ordered(envs \o old) PROVE Ordered(a \o q)
  <2>1. Ordered(a) /\ Ordered(q)
    BY <1>10, <1>13, <1>17 DEF Loop
  <2>2. Below(Ids(a), Ids(q))
    BY <1>10, <1>13, <1>17 DEF Loop, Below
  <2> QED BY <1>12, <2>1, <2>2
<1>18. \A i \in 1..Len(d) : Droppable(d[i])
  BY <1>10 DEF Loop
<1>19. Sheds(envs \o old, a \o q, d)
  <2> HIDE DEF a, q, d
  <2> QED BY <1>11, <1>12, <1>15, <1>16, <1>17, <1>18 DEF Sheds
<1> QED BY <1>1, <1>14, <1>19 DEF Shed, r

\* prependUser: nothing is lost but what the policy sheds, and the bound holds.
LEMMA PrependSheds ==
    ASSUME NEW old \in Seq(Envelope), NEW envs \in Seq(Envelope),
           NEW capacity \in Nat \ {0}, NEW policy \in Policies, DroppableIn(old) <= capacity
    PROVE  LET r == PrependUser(old, envs, capacity, policy)
           IN  /\ r.refused \in BOOLEAN
               /\ r.refused => r.queue = old
               /\ ~r.refused => /\ Sheds(envs \o old, r.queue, r.dropped)
                                /\ DroppableIn(r.queue) <= capacity
<1> DEFINE r == PrependUser(old, envs, capacity, policy)
           all == envs \o old
           G == /\ r.refused \in BOOLEAN
                /\ r.refused => r.queue = old
                /\ ~r.refused => Sheds(all, r.queue, r.dropped) /\ DroppableIn(r.queue) <= capacity
<1> SUFFICES G
  OBVIOUS
<1>1. /\ DroppableIn(old) \in Nat /\ DroppableIn(old) <= Len(old) /\ Len(old) \in Nat
      /\ DroppableIn(envs) \in Nat
  BY DroppableFinite
<1>2. /\ all \in Seq(Envelope) /\ DroppableIn(all) = DroppableIn(envs) + DroppableIn(old)
  BY Joined
<1>3. Sheds(all, all, <<>>)
  BY <1>2, ShedsNothing
<1>4. CASE envs = <<>>
  <2>1. all = old /\ r = Accept(old)
    BY <1>4 DEF PrependUser
  <2> QED BY <1>3, <2>1 DEF Accept
<1>5. CASE envs # <<>> /\ policy = "reject"
  <2> DEFINE room == IF capacity > Len(old) THEN capacity - Len(old) ELSE 0
  <2>1. r = IF DroppableIn(envs) > room THEN Refuse(old) ELSE Accept(all)
    BY <1>5 DEF PrependUser, PrependReject
  <2>2. CASE DroppableIn(envs) > room
    <3>1. r = Refuse(old)
      BY <2>1, <2>2
    <3> QED BY <3>1 DEF Refuse
  <2>3. CASE ~(DroppableIn(envs) > room)
    <3>1. r = Accept(all)
      BY <2>1, <2>3
    <3>2. DroppableIn(all) <= capacity
      BY <1>1, <1>2, <2>3
    <3> QED BY <1>3, <3>1, <3>2 DEF Accept
  <2> QED BY <2>2, <2>3
<1>6. CASE envs # <<>> /\ policy # "reject"
  <2>1. r = PrependShedding(old, envs, capacity, policy)
    BY <1>6 DEF PrependUser
  <2>2. capacity \in Nat
    OBVIOUS
  <2> DEFINE t == PrependShedding(old, envs, capacity, policy)
  <2>3. t.refused = FALSE /\ Sheds(all, t.queue, t.dropped) /\ DroppableIn(t.queue) <= capacity
    BY <2>2, PrependSheddingSheds
  <2> HIDE DEF r, t, all
  <2> QED BY <2>1, <2>3 DEF t
<1> HIDE DEF G
<1> QED BY <1>4, <1>5, <1>6

-----------------------------------------------------------------------------
(* The messages of the cell *)

LogIds(l) == {o.env.id : o \in l}

\* Where the messages 1..n are: queued, stashed, in hand or accounted for.
Apart(q, s, c, d) ==
    /\ Distinct(q) /\ Distinct(s) /\ Distinct(c) /\ Distinct(d)
    /\ Ids(q) \cap Ids(s) = {} /\ Ids(q) \cap Ids(c) = {} /\ Ids(s) \cap Ids(c) = {}
    /\ Ids(d) \cap (Ids(q) \cup Ids(s) \cup Ids(c)) = {}

Ledger(q, s, c, l, n) ==
    /\ \A o \in l : o.env \in Envelope
    /\ \A o, p \in l : o.env.id = p.env.id => o = p
    /\ Apart(q, s, c, <<>>)
    /\ LogIds(l) \cap (Ids(q) \cup Ids(s) \cup Ids(c)) = {}
    /\ LogIds(l) \cup (Ids(q) \cup Ids(s) \cup Ids(c)) = 1..n

\* A step moves messages, takes in the fresh ones and accounts for those in d.
LEMMA LedgerMoves ==
    ASSUME NEW q, NEW s, NEW c, NEW l, NEW n, Ledger(q, s, c, l, n),
           NEW q2, NEW s2, NEW c2, NEW n2, NEW d \in Seq(Envelope), NEW how, NEW fresh,
           Apart(q2, s2, c2, d), fresh \cap 1..n = {}, 1..n2 = 1..n \cup fresh,
           Ids(q2) \cup Ids(s2) \cup Ids(c2) \cup Ids(d) = Ids(q) \cup Ids(s) \cup Ids(c) \cup fresh
    PROVE  Ledger(q2, s2, c2, l \cup Outcomes(d, how), n2)
<1> DEFINE new == Outcomes(d, how)
           all == l \cup new
<1>1. \A o \in new : \E i \in 1..Len(d) : o = Outcome(d[i], how)
  BY DEF Outcomes
<1>2. \A i \in 1..Len(d) : /\ Outcome(d[i], how) \in new /\ Outcome(d[i], how).env = d[i]
                           /\ d[i] \in Envelope
  BY DEF Outcomes, Outcome
<1> HIDE DEF new
<1>3. LogIds(new) = Ids(d)
  BY <1>1, <1>2 DEF LogIds, Ids
<1>4. LogIds(all) = LogIds(l) \cup Ids(d)
  BY <1>3 DEF LogIds
<1>5. \A o \in all : o.env \in Envelope
  BY <1>1, <1>2 DEF Ledger
<1>6. Ids(d) \cap LogIds(l) = {}
  BY DEF Ledger, Apart
<1>7. ASSUME NEW o \in all, NEW p \in all, o.env.id = p.env.id PROVE o = p
  <2>1. CASE o \in l /\ p \in l
    BY <1>7, <2>1 DEF Ledger
  <2>2. CASE o \in new /\ p \in new
    <3>1. PICK i \in 1..Len(d) : o = Outcome(d[i], how)
      BY <1>1, <2>2
    <3>2. PICK j \in 1..Len(d) : p = Outcome(d[j], how)
      BY <1>1, <2>2
    <3>3. d[i].id = d[j].id
      BY <1>2, <1>7, <3>1, <3>2
    <3>4. i = j
      BY <3>3 DEF Apart, Distinct
    <3> QED BY <3>1, <3>2, <3>4
  <2>3. CASE o \in l /\ p \in new
    <3>1. o.env.id \in LogIds(l) /\ p.env.id \in LogIds(new)
      BY <2>3 DEF LogIds
    <3> QED BY <1>3, <1>6, <1>7, <3>1
  <2>4. CASE o \in new /\ p \in l
    <3>1. o.env.id \in LogIds(new) /\ p.env.id \in LogIds(l)
      BY <2>4 DEF LogIds
    <3> QED BY <1>3, <1>6, <1>7, <3>1
  <2> QED BY <2>1, <2>2, <2>3, <2>4
<1>8. Apart(q2, s2, c2, <<>>)
  BY Empty DEF Apart
<1> DEFINE held == Ids(q) \cup Ids(s) \cup Ids(c)
           held2 == Ids(q2) \cup Ids(s2) \cup Ids(c2)
<1>9. /\ LogIds(l) \cap held = {} /\ LogIds(l) \cup held = 1..n
      /\ held2 \cup Ids(d) = held \cup fresh /\ Ids(d) \cap held2 = {}
  BY DEF Ledger, Apart
<1> HIDE DEF all, held, held2
<1>10. LogIds(all) \cap held2 = {} /\ LogIds(all) \cup held2 = 1..n2
  BY <1>4, <1>9
<1> QED BY <1>5, <1>7, <1>8, <1>10 DEF Ledger, all, held2, new

\* What a signal's entry in the log may say.
Spared(l) == \A o \in l : o.env.undroppable => o.how \in {"handled", "dead"}

LEMMA SignalsSpared ==
    ASSUME NEW l, Spared(l), NEW d \in Seq(Envelope), NEW how,
           how \in {"handled", "dead"} \/ \A i \in 1..Len(d) : Droppable(d[i])
    PROVE  Spared(l \cup Outcomes(d, how))
<1> DEFINE new == Outcomes(d, how)
<1>1. \A o \in new : \E i \in 1..Len(d) : o.env = d[i] /\ o.how = how
  BY DEF Outcomes, Outcome
<1> HIDE DEF new
<1>2. Spared(new)
  BY <1>1 DEF Spared, Droppable
<1> QED BY <1>2 DEF Spared, new

\* The entry of one message, and of none.
LEMMA OneOutcome ==
    ASSUME NEW e, NEW how PROVE Outcomes(<<e>>, how) = {Outcome(e, how)}
<1>1. Len(<<e>>) = 1 /\ <<e>>[1] = e
  OBVIOUS
<1>2. 1..1 = {1}
  OBVIOUS
<1> QED BY <1>1, <1>2 DEF Outcomes

LEMMA NoOutcome == ASSUME NEW how PROVE Outcomes(<<>>, how) = {}
BY DEF Outcomes

\* What waits is in arrival order, and the message in hand comes between the
\* stash and the queue unless its handler has replayed the stash.
InOrder(q, s, c, again, late) ==
    ~late => /\ Ordered(s) /\ Ordered(q) /\ Below(Ids(s), Ids(q))
             /\ again => s = <<>>
             /\ ~again => Below(Ids(s), Ids(c)) /\ Below(Ids(c), Ids(q))

(***************************************************************************)
(* The inductive invariant behind EachMessageOnce, SignalsSurvive,         *)
(* ArrivalOrder, BoundHeld and TypeOK.                                     *)
(***************************************************************************)
Boxes ==
    /\ queue \in Seq(Envelope) /\ stash \in Seq(Envelope) /\ current \in Seq(Envelope)
    /\ overflow \in Policies /\ posted \in 0..MaxMessages
    /\ DroppableIn(queue) <= Capacity

InHand ==
    /\ Len(current) <= 1
    /\ current # <<>> => turn = "handler"
    /\ turn = "handler" => handled < Throughput

MailInv ==
    /\ Boxes /\ InHand
    /\ Ledger(queue, stash, current, log, posted)
    /\ InOrder(queue, stash, current, replayed, lateStash)
    /\ Spared(log)

\* schedule() leaves a handler alone.
LEMMA ScheduleKeepsHand ==
    ASSUME WakeupInv, InHand, Schedule \/ UNCHANGED turn, UNCHANGED <<current, handled>>
    PROVE  InHand'
BY DEF WakeupInv, InHand, Schedule

\* A step that moves no message and takes none up.
LEMMA StillKeeps ==
    ASSUME MailInv, UNCHANGED <<queue, overflow, keep, book>>, InHand'
    PROVE  MailInv'
BY DEF MailInv, Boxes, keep, book

\* A message newly posted: its number is above all the others.
LEMMA FreshMessage ==
    ASSUME MailInv, posted < MaxMessages, posted' = posted + 1,
           NEW e \in [id : {posted + 1}, undroppable : BOOLEAN]
    PROVE  /\ e \in Envelope /\ posted' \in 0..MaxMessages /\ e.id = posted + 1
           /\ {e.id} \cap 1..posted = {} /\ 1..posted' = 1..posted \cup {e.id}
           /\ Ids(queue) \subseteq 1..posted /\ Ids(stash) \subseteq 1..posted
           /\ Ids(current) \subseteq 1..posted
           /\ \A k \in 1..posted : k < e.id
<1>1. posted \in 0..MaxMessages /\ MaxMessages \in Nat
  BY ConstantsAssumption DEF MailInv, Boxes
<1>2. posted + 1 \in 1..MaxMessages /\ posted' \in 0..MaxMessages
  BY <1>1
<1>3. e \in Envelope /\ e.id = posted + 1
  BY <1>2 DEF Envelope
<1>4. /\ {e.id} \cap 1..posted = {} /\ 1..posted' = 1..posted \cup {e.id}
      /\ \A k \in 1..posted : k < e.id
  BY <1>1, <1>3
<1>5. /\ Ids(queue) \subseteq 1..posted /\ Ids(stash) \subseteq 1..posted
      /\ Ids(current) \subseteq 1..posted
  BY DEF MailInv, Ledger
<1> QED BY <1>2, <1>3, <1>4, <1>5

\* One that the cell does not take: after termination, or refused.
LEMMA PostedAway ==
    ASSUME MailInv, posted < MaxMessages, posted' = posted + 1,
           NEW e \in [id : {posted + 1}, undroppable : BOOLEAN],
           NEW how, how = "dead" \/ Droppable(e),
           log' = log \cup {Outcome(e, how)}, UNCHANGED <<queue, overflow, keep>>, InHand'
    PROVE  MailInv'
<1> DEFINE d == <<e>>
<1>1. /\ e \in Envelope /\ posted' \in 0..MaxMessages /\ e.id = posted + 1
      /\ {e.id} \cap 1..posted = {} /\ 1..posted' = 1..posted \cup {e.id}
      /\ Ids(queue) \subseteq 1..posted /\ Ids(stash) \subseteq 1..posted
      /\ Ids(current) \subseteq 1..posted
  BY FreshMessage
<1>2. d \in Seq(Envelope) /\ Ids(d) = {e.id} /\ Distinct(d) /\ \A i \in 1..Len(d) : d[i] = e
  BY <1>1, Single
<1>3. log' = log \cup Outcomes(d, how)
  BY OneOutcome
<1> HIDE DEF d
<1>4. Apart(queue, stash, current, d)
  BY <1>1, <1>2 DEF MailInv, Ledger, Apart
<1>5. Ledger(queue, stash, current, log', posted')
  <2>1. Ids(queue) \cup Ids(stash) \cup Ids(current) \cup Ids(d)
          = Ids(queue) \cup Ids(stash) \cup Ids(current) \cup {e.id}
    BY <1>2
  <2>2. Ledger(queue, stash, current, log, posted)
    BY DEF MailInv
  <2>3. Ledger(queue, stash, current, log \cup Outcomes(d, how), posted')
    BY <1>1, <1>2, <1>4, <2>1, <2>2, LedgerMoves
  <2> QED BY <1>3, <2>3
<1>6. Spared(log')
  <2>1. Spared(log) /\ (how \in {"handled", "dead"} \/ \A i \in 1..Len(d) : Droppable(d[i]))
    BY <1>2 DEF MailInv
  <2>2. Spared(log \cup Outcomes(d, how))
    BY <1>2, <2>1, SignalsSpared
  <2> QED BY <1>3, <2>2
<1> QED BY <1>1, <1>5, <1>6 DEF MailInv, Boxes, keep

\* One that enters the queue at its tail, where the policy may shed.
LEMMA PostedIn ==
    ASSUME MailInv, posted < MaxMessages, posted' = posted + 1,
           NEW e \in [id : {posted + 1}, undroppable : BOOLEAN],
           NEW d, Sheds(Append(queue, e), queue', d), DroppableIn(queue') <= Capacity,
           log' = log \cup Outcomes(d, "dropped"), UNCHANGED <<overflow, keep>>, InHand'
    PROVE  MailInv'
<1>1. /\ e \in Envelope /\ posted' \in 0..MaxMessages /\ e.id = posted + 1
      /\ {e.id} \cap 1..posted = {} /\ 1..posted' = 1..posted \cup {e.id}
      /\ Ids(queue) \subseteq 1..posted /\ Ids(stash) \subseteq 1..posted
      /\ Ids(current) \subseteq 1..posted /\ \A k \in 1..posted : k < e.id
  BY FreshMessage
<1> DEFINE t == Append(queue, e)
<1>2. /\ t \in Seq(Envelope) /\ Ids(t) = Ids(queue) \cup {e.id}
      /\ Distinct(t) <=> Distinct(queue) /\ e.id \notin Ids(queue)
      /\ Ordered(t) <=> Ordered(queue) /\ Below(Ids(queue), {e.id})
  BY <1>1, Appended DEF MailInv, Boxes
<1> HIDE DEF t
<1>3. Sheds(t, queue', d)
  BY DEF t
<1>4. Distinct(t)
  BY <1>1, <1>2 DEF MailInv, Ledger, Apart
<1>5. /\ queue' \in Seq(Envelope) /\ d \in Seq(Envelope) /\ Ids(t) = Ids(queue') \cup Ids(d)
      /\ Distinct(queue') /\ Distinct(d) /\ Ids(queue') \cap Ids(d) = {}
      /\ \A i \in 1..Len(d) : Droppable(d[i])
  BY <1>3, <1>4 DEF Sheds
<1>6. Apart(queue', stash, current, d)
  BY <1>1, <1>2, <1>5 DEF MailInv, Ledger, Apart
<1>7. Ledger(queue', stash, current, log', posted')
  <2>1. Ids(queue') \cup Ids(stash) \cup Ids(current) \cup Ids(d)
          = Ids(queue) \cup Ids(stash) \cup Ids(current) \cup {e.id}
    BY <1>2, <1>5
  <2>2. Ledger(queue, stash, current, log, posted)
    BY DEF MailInv
  <2> DEFINE q2 == queue'
             n2 == posted'
             fresh == {e.id}
  <2>3. /\ d \in Seq(Envelope) /\ Apart(q2, stash, current, d)
        /\ fresh \cap 1..posted = {} /\ 1..n2 = 1..posted \cup fresh
        /\ Ids(q2) \cup Ids(stash) \cup Ids(current) \cup Ids(d)
             = Ids(queue) \cup Ids(stash) \cup Ids(current) \cup fresh
    BY <1>1, <1>5, <1>6, <2>1
  <2> HIDE DEF q2, n2, fresh
  <2>4. Ledger(q2, stash, current, log \cup Outcomes(d, "dropped"), n2)
    BY <2>2, <2>3, LedgerMoves
  <2> QED BY <2>4 DEF q2, n2
<1>8. Spared(log')
  BY <1>5, SignalsSpared DEF MailInv
<1>9. InOrder(queue', stash, current, replayed, lateStash)
  <2> SUFFICES ASSUME ~lateStash PROVE InOrder(queue', stash, current, replayed, lateStash)
    BY DEF InOrder
  <2>1. /\ Ordered(stash) /\ Ordered(queue) /\ Below(Ids(stash), Ids(queue))
        /\ replayed => stash = <<>>
        /\ ~replayed => Below(Ids(stash), Ids(current)) /\ Below(Ids(current), Ids(queue))
    BY DEF MailInv, InOrder
  <2>2. Ordered(queue')
    BY <1>1, <1>2, <1>3, <2>1 DEF Sheds, Below
  <2>3. \A k \in Ids(queue') : k \in Ids(queue) \/ k = e.id
    BY <1>2, <1>5
  <2>4. Below(Ids(stash), Ids(queue'))
    BY <1>1, <2>1, <2>3 DEF Below
  <2>5. Below(Ids(current), Ids(queue)) => Below(Ids(current), Ids(queue'))
    BY <1>1, <2>1, <2>3 DEF Below
  <2> QED BY <2>1, <2>2, <2>4, <2>5 DEF InOrder
<1> QED BY <1>1, <1>5, <1>7, <1>8, <1>9 DEF MailInv, Boxes, keep

\* A step that moves messages and accounts for those in d, and posts none.
LEMMA MovesKeep ==
    ASSUME MailInv, UNCHANGED <<overflow, posted>>,
           queue' \in Seq(Envelope), stash' \in Seq(Envelope), current' \in Seq(Envelope),
           NEW d \in Seq(Envelope), NEW how, log' = log \cup Outcomes(d, how),
           how \in {"handled", "dead"} \/ \A i \in 1..Len(d) : Droppable(d[i]),
           Apart(queue', stash', current', d),
           Ids(queue') \cup Ids(stash') \cup Ids(current') \cup Ids(d)
             = Ids(queue) \cup Ids(stash) \cup Ids(current),
           DroppableIn(queue') <= Capacity,
           InOrder(queue', stash', current', replayed', lateStash'), InHand'
    PROVE  MailInv'
<1> DEFINE q2 == queue'
           s2 == stash'
           c2 == current'
           n2 == posted'
           fresh == {}
<1>1. /\ Apart(q2, s2, c2, d) /\ fresh \cap 1..posted = {} /\ 1..n2 = 1..posted \cup fresh
      /\ Ids(q2) \cup Ids(s2) \cup Ids(c2) \cup Ids(d)
           = Ids(queue) \cup Ids(stash) \cup Ids(current) \cup fresh
  OBVIOUS
<1>2. Ledger(queue, stash, current, log, posted)
  BY DEF MailInv
<1>3. Ledger(q2, s2, c2, log \cup Outcomes(d, how), n2)
  <2> HIDE DEF q2, s2, c2, n2, fresh
  <2> QED BY <1>1, <1>2, LedgerMoves
<1>4. Spared(log')
  <2>1. Spared(log \cup Outcomes(d, how))
    BY SignalsSpared DEF MailInv
  <2> QED BY <2>1
<1>5. Boxes'
  BY DEF MailInv, Boxes
<1> QED BY <1>3, <1>4, <1>5 DEF MailInv

\* The head of the queue is accounted for.
LEMMA HeadLogged ==
    ASSUME MailInv, queue # <<>>, queue' = Tail(queue), NEW how,
           log' = log \cup {Outcome(Head(queue), how)}, how = "handled" \/ Droppable(Head(queue)),
           UNCHANGED <<overflow, keep, posted>>, InHand'
    PROVE  MailInv'
<1> DEFINE e == Head(queue)
           t == Tail(queue)
           d == <<e>>
<1>1. TakenOut(queue, e, t) /\ (Ordered(queue) => Below({e.id}, Ids(t)))
  BY Dequeued DEF MailInv, Boxes
<1>2. queue' = t /\ log' = log \cup {Outcome(e, how)} /\ (how = "handled" \/ Droppable(e))
  OBVIOUS
<1> HIDE DEF e, t
<1>3. d \in Seq(Envelope) /\ Ids(d) = {e.id} /\ Distinct(d) /\ \A i \in 1..Len(d) : d[i] = e
  BY <1>1, Single DEF TakenOut
<1>4. log' = log \cup Outcomes(d, how)
  BY <1>2, OneOutcome
<1> HIDE DEF d
<1>5. /\ t \in Seq(Envelope) /\ e \in Envelope /\ Ids(queue) = Ids(t) \cup {e.id}
      /\ Distinct(t) /\ e.id \notin Ids(t) /\ (Ordered(queue) => Ordered(t))
  BY <1>1 DEF TakenOut, MailInv, Ledger, Apart
<1>6. Apart(t, stash, current, d)
  BY <1>3, <1>5 DEF MailInv, Ledger, Apart
<1>7. DroppableIn(t) <= Capacity
  <2>1. DroppableIn(queue) = DroppableIn(t) + IF Droppable(e) THEN 1 ELSE 0
    BY <1>1 DEF TakenOut
  <2>2. DroppableIn(t) \in Nat /\ DroppableIn(queue) \in Nat /\ Capacity \in Nat
    BY <1>5, DroppableFinite, ConstantsAssumption DEF MailInv, Boxes
  <2>3. DroppableIn(queue) <= Capacity
    BY DEF MailInv, Boxes
  <2> QED BY <2>1, <2>2, <2>3
<1>8. InOrder(t, stash, current, replayed, lateStash)
  BY <1>5 DEF MailInv, InOrder, Below
<1>9. UNCHANGED <<stash, current, replayed, lateStash>>
  BY DEF keep
<1>10. Ids(t) \cup Ids(stash) \cup Ids(current) \cup Ids(d)
         = Ids(queue) \cup Ids(stash) \cup Ids(current)
  BY <1>3, <1>5
<1>11. how \in {"handled", "dead"} \/ \A i \in 1..Len(d) : Droppable(d[i])
  BY <1>2, <1>3
<1>12. stash \in Seq(Envelope) /\ current \in Seq(Envelope)
  BY DEF MailInv, Boxes
<1> QED BY <1>2, <1>3, <1>4, <1>5, <1>6, <1>7, <1>8, <1>9, <1>10, <1>11, <1>12, MovesKeep

\* The queue is shed, and nothing else moves.
LEMMA ShedKeeps ==
    ASSUME MailInv, NEW d, Sheds(queue, queue', d), DroppableIn(queue') <= Capacity,
           log' = log \cup Outcomes(d, "dropped"), UNCHANGED <<overflow, keep, posted>>, InHand'
    PROVE  MailInv'
<1> DEFINE t == queue'
<1>1. /\ t \in Seq(Envelope) /\ d \in Seq(Envelope) /\ Ids(queue) = Ids(t) \cup Ids(d)
      /\ Distinct(t) /\ Distinct(d) /\ Ids(t) \cap Ids(d) = {}
      /\ (Ordered(queue) => Ordered(t)) /\ \A i \in 1..Len(d) : Droppable(d[i])
  BY DEF Sheds, MailInv, Ledger, Apart
<1> HIDE DEF t
<1>2. Apart(t, stash, current, d)
  BY <1>1 DEF MailInv, Ledger, Apart
<1>3. InOrder(t, stash, current, replayed, lateStash)
  BY <1>1 DEF MailInv, InOrder, Below
<1>4. UNCHANGED <<stash, current, replayed, lateStash>>
  BY DEF keep
<1>5. Ids(t) \cup Ids(stash) \cup Ids(current) \cup Ids(d)
         = Ids(queue) \cup Ids(stash) \cup Ids(current)
  BY <1>1
<1>6. stash \in Seq(Envelope) /\ current \in Seq(Envelope)
  BY DEF MailInv, Boxes
<1>7. queue' = t
  BY DEF t
<1> QED BY <1>1, <1>2, <1>3, <1>4, <1>5, <1>6, <1>7, MovesKeep

LEMMA PostUserKeeps ==
    ASSUME MailInv, WakeupInv, PostUserMessage PROVE MailInv'
<1> DEFINE e == [id |-> posted + 1, undroppable |-> FALSE]
           r == Enqueue(queue, e, Capacity, overflow)
<1>1. /\ posted < MaxMessages /\ posted' = posted + 1
      /\ UNCHANGED <<overflow, keep, current, handled>>
      /\ e \in [id : {posted + 1}, undroppable : BOOLEAN] /\ Droppable(e)
  BY DEF PostUserMessage, keep, Droppable
<1>2. \/ /\ log' = log \cup {Outcome(e, "dead")} /\ UNCHANGED <<queue, turn>>
      \/ /\ log' = log \cup {Outcome(e, "refused")} /\ UNCHANGED <<queue, turn>>
      \/ /\ ~r.refused /\ queue' = r.queue /\ log' = log \cup Outcomes(r.dropped, "dropped")
         /\ Schedule
  BY DEF PostUserMessage
<1>3. InHand'
  BY <1>1, <1>2, ScheduleKeepsHand DEF MailInv
<1>4. e \in Envelope
  BY <1>1, FreshMessage
<1>5. ~r.refused => /\ Sheds(Append(queue, e), r.queue, r.dropped)
                    /\ DroppableIn(r.queue) <= Capacity
  BY <1>1, <1>4, EnqueueSheds, ConstantsAssumption DEF MailInv, Boxes
<1> HIDE DEF e, r
<1>6. CASE log' = log \cup {Outcome(e, "dead")} /\ UNCHANGED <<queue, turn>>
  BY <1>1, <1>3, <1>6, PostedAway
<1>7. CASE log' = log \cup {Outcome(e, "refused")} /\ UNCHANGED <<queue, turn>>
  BY <1>1, <1>3, <1>7, PostedAway
<1>8. CASE ~r.refused /\ queue' = r.queue /\ log' = log \cup Outcomes(r.dropped, "dropped")
  <2> DEFINE d == r.dropped
  <2>1. Sheds(Append(queue, e), queue', d) /\ DroppableIn(queue') <= Capacity
    BY <1>5, <1>8
  <2>2. log' = log \cup Outcomes(d, "dropped")
    BY <1>8
  <2> HIDE DEF d
  <2> QED BY <1>1, <1>3, <2>1, <2>2, PostedIn
<1> QED BY <1>2, <1>6, <1>7, <1>8

LEMMA PostSignalKeeps ==
    ASSUME MailInv, WakeupInv, PostSignal PROVE MailInv'
<1> DEFINE e == [id |-> posted + 1, undroppable |-> TRUE]
<1>1. /\ posted < MaxMessages /\ posted' = posted + 1
      /\ UNCHANGED <<overflow, keep, current, handled>>
      /\ e \in [id : {posted + 1}, undroppable : BOOLEAN] /\ ~Droppable(e)
  BY DEF PostSignal, keep, Droppable
<1>2. \/ /\ log' = log \cup {Outcome(e, "dead")} /\ UNCHANGED <<queue, turn>>
      \/ /\ queue' = Append(queue, e) /\ log' = log /\ Schedule
  BY DEF PostSignal, EnqueueSignal
<1>3. InHand'
  BY <1>1, <1>2, ScheduleKeepsHand DEF MailInv
<1>4. e \in Envelope
  BY <1>1, FreshMessage
<1> HIDE DEF e
<1>5. CASE log' = log \cup {Outcome(e, "dead")} /\ UNCHANGED <<queue, turn>>
  BY <1>1, <1>3, <1>5, PostedAway
<1>6. CASE queue' = Append(queue, e) /\ log' = log
  <2> DEFINE t == Append(queue, e)
             d == <<>>
  <2>1. queue \in Seq(Envelope) /\ DroppableIn(queue) <= Capacity
    BY DEF MailInv, Boxes
  <2>2. t \in Seq(Envelope) /\ DroppableIn(t) = DroppableIn(queue) + IF Droppable(e) THEN 1 ELSE 0
    BY <1>4, <2>1, Appended
  <2>3. DroppableIn(queue) \in Nat
    BY <2>1, DroppableFinite
  <2>4. DroppableIn(t) <= Capacity
    BY <1>1, <2>1, <2>2, <2>3
  <2>5. Sheds(t, t, d)
    BY <2>2, ShedsNothing
  <2>6. log' = log \cup Outcomes(d, "dropped")
    BY <1>6, NoOutcome
  <2>7. Sheds(Append(queue, e), queue', d) /\ DroppableIn(queue') <= Capacity
    BY <1>6, <2>4, <2>5
  <2> HIDE DEF d
  <2> QED BY <1>1, <1>3, <2>6, <2>7, PostedIn
<1> QED BY <1>2, <1>5, <1>6

\* A turn at the top of its loop has no message in hand, and EndTurn none after.
LEMMA NothingInHand ==
    ASSUME MailInv, turn # "handler" PROVE current = <<>>
BY DEF MailInv, InHand

LEMMA OutOfHandler ==
    ASSUME MailInv, turn # "handler", turn' # "handler", current' = current PROVE InHand'
BY DEF MailInv, InHand

LEMMA ThrottleKeeps ==
    ASSUME MailInv, ThrottleExcess PROVE MailInv'
<1> DEFINE e == Head(queue)
           t == Tail(queue)
           one == <<e>>
           r == PrependUser(t, one, Capacity, overflow)
<1>1. /\ turn = "loop" /\ queue # <<>> /\ Droppable(e)
      /\ UNCHANGED <<overflow, keep, posted, current>>
  BY DEF ThrottleExcess, UserTurn, Metered, keep
<1>2. turn' # "handler"
  BY DEF ThrottleExcess, EndTurn
<1>3. InHand'
  BY <1>1, <1>2, OutOfHandler
<1>4. \/ queue' = t /\ log' = log \cup {Outcome(e, "discarded")}
      \/ queue' = r.queue /\ r.refused /\ log' = log \cup {Outcome(e, "lost")}
      \/ queue' = r.queue /\ ~r.refused /\ log' = log \cup Outcomes(r.dropped, "dropped")
  BY DEF ThrottleExcess
<1>5. queue \in Seq(Envelope) /\ overflow \in Policies /\ DroppableIn(queue) <= Capacity
  BY DEF MailInv, Boxes
<1>6. TakenOut(queue, e, t)
  BY <1>1, <1>5, Dequeued
<1>7. queue = one \o t /\ one \in Seq(Envelope)
  BY <1>1, <1>5
<1>8. DroppableIn(t) <= Capacity /\ t \in Seq(Envelope)
  <2>1. /\ DroppableIn(queue) = DroppableIn(t) + (IF Droppable(e) THEN 1 ELSE 0)
        /\ t \in Seq(Envelope)
    BY <1>6 DEF TakenOut
  <2>2. DroppableIn(t) \in Nat /\ DroppableIn(queue) \in Nat /\ Capacity \in Nat
    BY <1>5, <2>1, DroppableFinite, ConstantsAssumption
  <2> HIDE DEF e, t
  <2> QED BY <1>5, <2>1, <2>2
<1>9. /\ r.refused => r.queue = t
      /\ ~r.refused => Sheds(one \o t, r.queue, r.dropped) /\ DroppableIn(r.queue) <= Capacity
  <2> HIDE DEF e, t, one
  <2> QED BY <1>5, <1>7, <1>8, PrependSheds, ConstantsAssumption
<1> HIDE DEF r
<1>10. CASE queue' = t /\ log' = log \cup {Outcome(e, "discarded")}
  BY <1>1, <1>3, <1>10, HeadLogged
<1>11. CASE queue' = r.queue /\ r.refused /\ log' = log \cup {Outcome(e, "lost")}
  BY <1>1, <1>3, <1>9, <1>11, HeadLogged
<1>12. CASE queue' = r.queue /\ ~r.refused /\ log' = log \cup Outcomes(r.dropped, "dropped")
  <2> DEFINE d == r.dropped
  <2> HIDE DEF e, t, one
  <2>1. Sheds(queue, queue', d) /\ DroppableIn(queue') <= Capacity
    BY <1>7, <1>9, <1>12
  <2>2. log' = log \cup Outcomes(d, "dropped")
    BY <1>12
  <2> HIDE DEF d
  <2> QED BY <1>1, <1>3, <2>1, <2>2, ShedKeeps
<1> QED BY <1>4, <1>10, <1>11, <1>12

LEMMA StartKeeps ==
    ASSUME MailInv, HandlerStarts PROVE MailInv'
<1> DEFINE e == Head(queue)
           t == Tail(queue)
           one == <<e>>
           d == <<>>
<1>1. /\ turn = "loop" /\ handled < Throughput /\ queue # <<>> /\ queue' = t /\ current' = one
      /\ turn' = "handler" /\ replayed' = FALSE
      /\ UNCHANGED <<overflow, stash, lateStash, posted, log, handled>>
  BY DEF HandlerStarts, Dequeue, UserTurn, Goto, book
<1>2. current = <<>>
  BY <1>1, NothingInHand
<1>3. /\ queue \in Seq(Envelope) /\ stash \in Seq(Envelope) /\ DroppableIn(queue) <= Capacity
  BY DEF MailInv, Boxes
<1>4. TakenOut(queue, e, t) /\ (Ordered(queue) => Below({e.id}, Ids(t)))
  BY <1>1, <1>3, Dequeued
<1> HIDE DEF e, t
<1>5. one \in Seq(Envelope) /\ Len(one) = 1 /\ Ids(one) = {e.id} /\ Distinct(one)
  BY <1>4, Single DEF TakenOut
<1> HIDE DEF one
<1>6. InHand'
  BY <1>1, <1>5 DEF InHand
<1>7. /\ t \in Seq(Envelope) /\ Ids(queue) = Ids(t) \cup {e.id} /\ Distinct(t) /\ e.id \notin Ids(t)
      /\ (Ordered(queue) => Ordered(t))
  BY <1>4 DEF TakenOut, MailInv, Ledger, Apart
<1>8. DroppableIn(t) <= Capacity
  <2>1. DroppableIn(queue) = DroppableIn(t) + IF Droppable(e) THEN 1 ELSE 0
    BY <1>4 DEF TakenOut
  <2>2. DroppableIn(t) \in Nat /\ DroppableIn(queue) \in Nat /\ Capacity \in Nat
    BY <1>3, <1>7, DroppableFinite, ConstantsAssumption
  <2> QED BY <1>3, <2>1, <2>2
<1>9. Ids(<<>>) = {} /\ Distinct(<<>>) /\ d \in Seq(Envelope) /\ Len(d) = 0
  BY Empty
<1>10. log' = log \cup Outcomes(d, "handled")
  BY <1>1, NoOutcome
<1>11. Ids(t) \cup Ids(stash) \cup Ids(one) \cup Ids(d)
         = Ids(queue) \cup Ids(stash) \cup Ids(current)
  BY <1>2, <1>5, <1>7, <1>9
<1>12. Apart(t, stash, one, d)
  BY <1>5, <1>7, <1>9 DEF MailInv, Ledger, Apart
<1>13. InOrder(t, stash, one, FALSE, lateStash)
  <2> SUFFICES ASSUME ~lateStash PROVE InOrder(t, stash, one, FALSE, lateStash)
    BY DEF InOrder
  <2>1. Ordered(stash) /\ Ordered(queue) /\ Below(Ids(stash), Ids(queue))
    BY DEF MailInv, InOrder
  <2>2. Below(Ids(stash), Ids(t)) /\ Below(Ids(stash), Ids(one)) /\ Below(Ids(one), Ids(t))
    BY <1>4, <1>5, <1>7, <2>1 DEF Below
  <2> QED BY <1>7, <2>1, <2>2 DEF InOrder
<1> HIDE DEF d
<1> QED BY <1>1, <1>3, <1>5, <1>6, <1>7, <1>8, <1>9, <1>10, <1>11, <1>12, <1>13, MovesKeep

LEMMA PillKeeps ==
    ASSUME MailInv, PoisonPill \/ Kill PROVE MailInv'
<1>1. /\ turn = "loop" /\ queue # <<>> /\ queue' = Tail(queue)
      /\ log' = log \cup {Outcome(Head(queue), "handled")}
      /\ UNCHANGED <<overflow, keep, posted, current>> /\ turn' # "handler"
  BY DEF PoisonPill, Kill, Dequeue, UserTurn, BeginTermination, keep
<1>2. InHand'
  BY <1>1, OutOfHandler
<1> QED BY <1>1, <1>2, HeadLogged

\* The message in hand, the stash or everything the cell holds is accounted for.
LEMMA HandledKeeps ==
    ASSUME MailInv, HandlerSettles PROVE MailInv'
<1>1. /\ log' = log \cup Outcomes(current, "handled") /\ current' = <<>> /\ turn' = "loop"
      /\ replayed' = FALSE /\ UNCHANGED <<queue, overflow, stash, lateStash, posted>>
  BY DEF HandlerSettles
<1>2. InHand'
  BY <1>1 DEF InHand
<1>3. /\ queue \in Seq(Envelope) /\ stash \in Seq(Envelope) /\ current \in Seq(Envelope)
      /\ DroppableIn(queue) <= Capacity
  BY DEF MailInv, Boxes
<1> DEFINE none == <<>>
<1>4. none \in Seq(Envelope) /\ Ids(none) = {} /\ Distinct(none) /\ current' = none
  BY <1>1, Empty
<1> HIDE DEF none
<1>5. Apart(queue, stash, none, current)
  BY <1>4 DEF MailInv, Ledger, Apart
<1>6. InOrder(queue, stash, none, FALSE, lateStash)
  BY <1>4 DEF MailInv, InOrder, Below
<1>7. Ids(queue) \cup Ids(stash) \cup Ids(none) \cup Ids(current)
        = Ids(queue) \cup Ids(stash) \cup Ids(current)
  BY <1>4
<1> QED BY <1>1, <1>2, <1>3, <1>4, <1>5, <1>6, <1>7, MovesKeep

LEMMA RecreateKeeps ==
    ASSUME MailInv, OnRecreate, actor PROVE MailInv'
<1>1. /\ log' = log \cup Outcomes(stash, "dead") /\ stash' = <<>> /\ turn = "loop"
      /\ turn' # "handler" /\ UNCHANGED <<queue, overflow, current, replayed, lateStash, posted>>
  BY DEF OnRecreate, TakeCommand, Goto
<1>2. InHand'
  BY <1>1, OutOfHandler
<1>3. /\ queue \in Seq(Envelope) /\ stash \in Seq(Envelope) /\ current \in Seq(Envelope)
      /\ DroppableIn(queue) <= Capacity
  BY DEF MailInv, Boxes
<1> DEFINE none == <<>>
<1>4. none \in Seq(Envelope) /\ Ids(none) = {} /\ Distinct(none) /\ Ordered(none) /\ stash' = none
  BY <1>1, Empty
<1>5. InOrder(queue, none, current, replayed, lateStash)
  BY <1>4 DEF MailInv, InOrder, Below
<1> HIDE DEF none
<1>6. Apart(queue, none, current, stash)
  BY <1>4 DEF MailInv, Ledger, Apart
<1>7. Ids(queue) \cup Ids(none) \cup Ids(current) \cup Ids(stash)
        = Ids(queue) \cup Ids(stash) \cup Ids(current)
  BY <1>4
<1> QED BY <1>1, <1>2, <1>3, <1>4, <1>5, <1>6, <1>7, MovesKeep

LEMMA StopKeeps ==
    ASSUME MailInv, PostStopSettles PROVE MailInv'
<1> DEFINE d == stash \o queue
           none == <<>>
<1>1. /\ log' = log \cup Outcomes(d, "dead") /\ stash' = none /\ queue' = none
      /\ turn # "handler" /\ turn' # "handler"
      /\ UNCHANGED <<overflow, current, replayed, lateStash, posted>>
  BY DEF PostStopSettles, EndTurn, Goto
<1>2. InHand'
  BY <1>1, OutOfHandler
<1>3. stash \in Seq(Envelope) /\ queue \in Seq(Envelope) /\ current \in Seq(Envelope)
  BY DEF MailInv, Boxes
<1>4. /\ d \in Seq(Envelope) /\ Ids(d) = Ids(stash) \cup Ids(queue)
      /\ Distinct(d) <=> Distinct(stash) /\ Distinct(queue) /\ Ids(stash) \cap Ids(queue) = {}
  BY <1>3, Joined
<1>5. /\ none \in Seq(Envelope) /\ Ids(none) = {} /\ Distinct(none) /\ Ordered(none)
      /\ DroppableIn(none) = 0
  BY Empty
<1>6. InOrder(none, none, current, replayed, lateStash)
  BY <1>5 DEF InOrder, Below
<1> HIDE DEF d, none
<1>7. Apart(none, none, current, d)
  BY <1>4, <1>5 DEF MailInv, Ledger, Apart
<1>8. Ids(none) \cup Ids(none) \cup Ids(current) \cup Ids(d)
        = Ids(queue) \cup Ids(stash) \cup Ids(current)
  BY <1>4, <1>5
<1>9. DroppableIn(none) <= Capacity
  BY <1>5, ConstantsAssumption
<1> QED BY <1>1, <1>2, <1>3, <1>4, <1>5, <1>6, <1>7, <1>8, <1>9, MovesKeep

LEMMA StashKeeps ==
    ASSUME MailInv, Stash PROVE MailInv'
<1> DEFINE u == stash \o current
           none == <<>>
<1>1. /\ stash' = u /\ current' = none /\ lateStash' = (lateStash \/ replayed) /\ current # <<>>
      /\ UNCHANGED <<queue, overflow, replayed, posted, log, turn, handled>>
  BY DEF Stash, lane, book
<1>2. InHand'
  BY <1>1 DEF MailInv, InHand
<1>3. /\ queue \in Seq(Envelope) /\ stash \in Seq(Envelope) /\ current \in Seq(Envelope)
      /\ DroppableIn(queue) <= Capacity
  BY DEF MailInv, Boxes
<1>4. Len(current) \in Nat /\ Len(current) <= 1
  BY <1>3 DEF MailInv, InHand
<1>5. Ordered(current)
  BY <1>4 DEF Ordered
<1>6. /\ u \in Seq(Envelope) /\ Ids(u) = Ids(stash) \cup Ids(current)
      /\ Distinct(u) <=> Distinct(stash) /\ Distinct(current) /\ Ids(stash) \cap Ids(current) = {}
      /\ Ordered(u) <=> Ordered(stash) /\ Ordered(current) /\ Below(Ids(stash), Ids(current))
  BY <1>3, Joined
<1>7. none \in Seq(Envelope) /\ Ids(none) = {} /\ Distinct(none) /\ Len(none) = 0
  BY Empty
<1>8. log' = log \cup Outcomes(none, "handled")
  BY <1>1, NoOutcome
<1> HIDE DEF u, none
<1>9. Apart(queue, u, none, none)
  BY <1>6, <1>7 DEF MailInv, Ledger, Apart
<1>10. Ids(queue) \cup Ids(u) \cup Ids(none) \cup Ids(none)
         = Ids(queue) \cup Ids(stash) \cup Ids(current)
  BY <1>6, <1>7
<1>11. InOrder(queue, u, none, replayed, lateStash \/ replayed)
  <2> SUFFICES ASSUME ~lateStash, ~replayed PROVE InOrder(queue, u, none, replayed,
  lateStash \/ replayed)
    BY DEF InOrder
  <2>1. /\ Ordered(stash) /\ Ordered(queue) /\ Below(Ids(stash), Ids(queue))
        /\ Below(Ids(stash), Ids(current)) /\ Below(Ids(current), Ids(queue))
    BY DEF MailInv, InOrder
  <2>2. Below(Ids(u), Ids(queue)) /\ Below(Ids(u), Ids(none)) /\ Below(Ids(none), Ids(queue))
    BY <1>6, <1>7, <2>1 DEF Below
  <2> QED BY <1>5, <1>6, <2>1, <2>2 DEF InOrder
<1>12. InOrder(queue', stash', current', replayed', lateStash')
  BY <1>1, <1>11
<1>13. /\ Apart(queue', stash', current', none)
       /\ Ids(queue') \cup Ids(stash') \cup Ids(current') \cup Ids(none)
            = Ids(queue) \cup Ids(stash) \cup Ids(current)
       /\ queue' \in Seq(Envelope) /\ stash' \in Seq(Envelope) /\ current' \in Seq(Envelope)
       /\ DroppableIn(queue') <= Capacity /\ UNCHANGED <<overflow, posted>>
  BY <1>1, <1>3, <1>6, <1>7, <1>9, <1>10
<1> QED BY <1>2, <1>7, <1>8, <1>12, <1>13, MovesKeep

LEMMA UnstashKeeps ==
    ASSUME MailInv, WakeupInv, UnstashAll PROVE MailInv'
<1> DEFINE r == PrependUser(queue, stash, Capacity, overflow)
           u == stash \o queue
           none == <<>>
           d == r.dropped
           t == r.queue
<1>1. /\ ~r.refused /\ queue' = t /\ log' = log \cup Outcomes(d, "dropped")
      /\ stash' = none /\ replayed' = (turn = "handler")
      /\ UNCHANGED <<overflow, current, lateStash, posted, handled>> /\ Schedule
  BY DEF UnstashAll
<1>2. InHand'
  BY <1>1, ScheduleKeepsHand DEF MailInv
<1>3. /\ queue \in Seq(Envelope) /\ stash \in Seq(Envelope) /\ current \in Seq(Envelope)
      /\ DroppableIn(queue) <= Capacity /\ overflow \in Policies
  BY DEF MailInv, Boxes
<1>4. Sheds(u, t, d) /\ DroppableIn(t) <= Capacity
  BY <1>1, <1>3, PrependSheds, ConstantsAssumption
<1>5. /\ Ids(u) = Ids(stash) \cup Ids(queue)
      /\ Distinct(u) <=> Distinct(stash) /\ Distinct(queue) /\ Ids(stash) \cap Ids(queue) = {}
      /\ Ordered(u) <=> Ordered(stash) /\ Ordered(queue) /\ Below(Ids(stash), Ids(queue))
  BY <1>3, Joined
<1>6. /\ none \in Seq(Envelope) /\ Ids(none) = {} /\ Distinct(none) /\ Ordered(none)
  BY Empty
<1> HIDE DEF r, u, t, d
<1>7. Distinct(u)
  BY <1>5 DEF MailInv, Ledger, Apart
<1>8. /\ t \in Seq(Envelope) /\ d \in Seq(Envelope) /\ Ids(u) = Ids(t) \cup Ids(d)
      /\ Distinct(t) /\ Distinct(d) /\ Ids(t) \cap Ids(d) = {} /\ (Ordered(u) => Ordered(t))
      /\ \A i \in 1..Len(d) : Droppable(d[i])
  BY <1>4, <1>7 DEF Sheds
<1>9. InOrder(t, none, current, turn = "handler", lateStash)
  <2> SUFFICES ASSUME ~lateStash PROVE InOrder(t, none, current, turn = "handler", lateStash)
    BY DEF InOrder
  <2>1. Ordered(t)
    BY <1>5, <1>8 DEF MailInv, InOrder
  <2>2. turn # "handler" => Ids(current) = {}
    BY <1>6, NothingInHand
  <2> QED BY <1>6, <2>1, <2>2 DEF InOrder, Below
<1> HIDE DEF none
<1>10. Apart(t, none, current, d)
  BY <1>5, <1>6, <1>8 DEF MailInv, Ledger, Apart
<1>11. Ids(t) \cup Ids(none) \cup Ids(current) \cup Ids(d)
         = Ids(queue) \cup Ids(stash) \cup Ids(current)
  BY <1>5, <1>6, <1>8
<1>12. InOrder(queue', stash', current', replayed', lateStash')
  BY <1>1, <1>9
<1>13. /\ Apart(queue', stash', current', d)
       /\ Ids(queue') \cup Ids(stash') \cup Ids(current') \cup Ids(d)
            = Ids(queue) \cup Ids(stash) \cup Ids(current)
       /\ queue' \in Seq(Envelope) /\ stash' \in Seq(Envelope) /\ current' \in Seq(Envelope)
       /\ DroppableIn(queue') <= Capacity /\ UNCHANGED <<overflow, posted>>
  BY <1>1, <1>3, <1>4, <1>6, <1>8, <1>10, <1>11
<1> QED BY <1>1, <1>2, <1>8, <1>12, <1>13, MovesKeep

LEMMA InitMail == Init => MailInv
<1> SUFFICES ASSUME Init PROVE MailInv
  OBVIOUS
<1> DEFINE none == <<>>
<1>1. /\ none \in Seq(Envelope) /\ Len(none) = 0 /\ Ids(none) = {} /\ Distinct(none) /\ Ordered(none)
      /\ DroppableIn(none) = 0
  BY Empty
<1>2. /\ queue = none /\ stash = none /\ current = none /\ posted = 0 /\ log = {}
      /\ overflow \in Policies /\ turn = "queued"
  BY DEF Init
<1> HIDE DEF none
<1>3. Boxes
  BY <1>1, <1>2, ConstantsAssumption DEF Boxes
<1>4. InHand
  BY <1>1, <1>2 DEF InHand, none
<1>5. Apart(none, none, none, none)
  BY <1>1 DEF Apart
<1>6. LogIds({}) = {} /\ 1..0 = {}
  BY DEF LogIds
<1>7. Ledger(queue, stash, current, log, posted)
  BY <1>1, <1>2, <1>5, <1>6 DEF Ledger, none
<1>8. InOrder(queue, stash, current, replayed, lateStash)
  BY <1>1, <1>2 DEF InOrder, Below, none
<1>9. Spared(log)
  BY <1>2 DEF Spared
<1> QED BY <1>3, <1>4, <1>7, <1>8, <1>9 DEF MailInv

\* A system command leaves no handler running.
LEMMA DoneNoHandler == ASSUME CommandDone PROVE turn' # "handler"
BY DEF CommandDone, EndTurn, Goto

LEMMA NextMail == ASSUME MailInv, WakeupInv, [Next]_vars PROVE MailInv'
<1>1. CASE UNCHANGED vars
  <2>1. InHand'
    BY <1>1 DEF vars, keep, InHand, MailInv
  <2> QED BY <1>1, <2>1, StillKeeps DEF vars, lane
<1>2. CASE Arrive
  <2>1. CASE PostUserMessage
    BY <2>1, PostUserKeeps
  <2>2. CASE PostSignal
    BY <2>2, PostSignalKeeps
  <2>3. ASSUME Schedule, UNCHANGED <<queue, overflow, keep, book, handled>> PROVE MailInv'
    <3>1. InHand'
      BY <2>3, ScheduleKeepsHand DEF MailInv, keep
    <3> QED BY <2>3, <3>1, StillKeeps
  <2>4. CASE ChildStops
    BY <2>3, <2>4 DEF ChildStops
  <2>5. ASSUME NEW c \in {"suspend", "recreate", "terminate"}, Supervise(c) PROVE MailInv'
    BY <2>3, <2>5 DEF Supervise
  <2>6. ASSUME NEW c \in {"resume", "recreate", "terminate"}, Decide(c) PROVE MailInv'
    BY <2>3, <2>6 DEF Decide
  <2> QED BY <1>2, <2>1, <2>2, <2>4, <2>5, <2>6 DEF Arrive
<1>3. CASE Clock
  <2>1. /\ UNCHANGED <<queue, overflow, keep, book, handled, current>>
        /\ Schedule \/ UNCHANGED turn
    BY <1>3 DEF Clock, Refill, ResumeTimer, ScheduleIfRunning, lane, keep
  <2>2. InHand'
    BY <2>1, ScheduleKeepsHand DEF MailInv
  <2> QED BY <2>1, <2>2, StillKeeps
<1>4. CASE Turn
  <2>1. ASSUME turn # "handler", turn' # "handler", UNCHANGED <<queue, overflow, keep, book>>
        PROVE  MailInv'
    <3>1. InHand'
      BY <2>1, OutOfHandler DEF keep
    <3> QED BY <2>1, <3>1, StillKeeps
  <2>2. CASE TurnStart
    BY <2>1, <2>2 DEF TurnStart, lane
  <2>3. CASE LoopEnds
    BY <2>1, <2>3 DEF LoopEnds, EndTurn, lane
  <2>4. CASE OnCreate
    BY <2>1, <2>4 DEF OnCreate, TakeCommand, Goto
  <2>5. CASE OnSuspend \/ OnResume
    BY <2>1, <2>5, DoneNoHandler DEF OnSuspend, OnResume, TakeCommand
  <2>6. CASE OnTerminate
    BY <2>1, <2>6, DoneNoHandler DEF OnTerminate, TakeCommand, BeginTermination
  <2>7. CASE OnRecreate
    <3>1. CASE actor
      BY <2>7, <3>1, RecreateKeeps
    <3>2. CASE ~actor
      BY <2>1, <2>7, <3>2, DoneNoHandler DEF OnRecreate, TakeCommand, keep, book
    <3> QED BY <3>1, <3>2
  <2>8. CASE OnChildTerminated
    BY <2>1, <2>8, DoneNoHandler DEF OnChildTerminated, TakeCommand, Goto, BeginRebuild
  <2>9. CASE ThrottleExcess
    BY <2>9, ThrottleKeeps
  <2>10. CASE HandlerStarts
    BY <2>10, StartKeeps
  <2>11. CASE PoisonPill \/ Kill
    BY <2>11, PillKeeps
  <2> QED BY <1>4, <2>2, <2>3, <2>4, <2>5, <2>6, <2>7, <2>8, <2>9, <2>10, <2>11 DEF Turn
<1>5. CASE Settle
  <2>1. CASE PreStartSettles \/ PreRestartSettles \/ PostRestartSettles
    <3>1. turn # "handler" /\ turn' # "handler" /\ UNCHANGED <<queue, overflow, keep, book>>
      BY <2>1, DoneNoHandler
      DEF PreStartSettles, PreRestartSettles, PostRestartSettles, Goto, BeginRebuild
    <3>2. InHand'
      BY <3>1, OutOfHandler DEF keep
    <3> QED BY <3>1, <3>2, StillKeeps
  <2>2. CASE PostStopSettles
    BY <2>2, StopKeeps
  <2>3. CASE HandlerSettles
    BY <2>3, HandledKeeps
  <2> QED BY <1>5, <2>1, <2>2, <2>3 DEF Settle
<1>6. CASE ContextCall
  <2>1. CASE Stash
    BY <2>1, StashKeeps
  <2>2. CASE UnstashAll
    BY <2>2, UnstashKeeps
  <2>3. ASSUME Schedule \/ UNCHANGED turn, UNCHANGED <<queue, overflow, keep, book, handled>>
        PROVE  MailInv'
    <3>1. InHand'
      BY <2>3, ScheduleKeepsHand DEF MailInv, keep
    <3> QED BY <2>3, <3>1, StillKeeps
  <2>4. CASE CancelThrottle
    BY <2>3, <2>4 DEF CancelThrottle, ScheduleIfRunning, lane
  <2>5. CASE SpawnChild
    BY <2>3, <2>5 DEF SpawnChild, lane
  <2>6. ASSUME NEW mode \in {"pause", "drop"}, Throttle(mode) PROVE MailInv'
    BY <2>3, <2>6 DEF Throttle, ScheduleIfRunning, lane
  <2> QED BY <1>6, <2>1, <2>2, <2>4, <2>5, <2>6 DEF ContextCall
<1> QED BY <1>1, <1>2, <1>3, <1>4, <1>5, <1>6 DEF Next

LEMMA MailHolds == Spec => [](MailInv /\ WakeupInv)
<1>1. MailInv /\ WakeupInv /\ [Next]_vars => MailInv' /\ WakeupInv'
  BY NextMail, NextWakeup
<1> QED BY InitMail, InitWakeup, <1>1, PTL DEF Spec

(***************************************************************************)
(* Every message posted to the cell is in exactly one place or was         *)
(* accounted for exactly once, whatever the capacity, the policy and the   *)
(* interleaving of arrivals, stashing, replays, restarts and termination.  *)
(***************************************************************************)
THEOREM MessageInOnePlace == Spec => []EachMessageOnce
<1>1. MailInv => EachMessageOnce
  <2> SUFFICES ASSUME MailInv, NEW id \in 1..posted
               PROVE  LET held == queue \o stash \o current
                      IN  Cardinality({i \in 1..Len(held) : held[i].id = id})
                            + Cardinality({o \in log : o.env.id = id}) = 1
    BY DEF EachMessageOnce
  <2> DEFINE qs == queue \o stash
             held == qs \o current
             P == {i \in 1..Len(held) : held[i].id = id}
             F == {o \in log : o.env.id = id}
  <2>1. queue \in Seq(Envelope) /\ stash \in Seq(Envelope) /\ current \in Seq(Envelope)
    BY DEF MailInv, Boxes
  <2>2. Ledger(queue, stash, current, log, posted)
    BY DEF MailInv
  <2>3. /\ qs \in Seq(Envelope) /\ Ids(qs) = Ids(queue) \cup Ids(stash)
        /\ Distinct(qs) <=> Distinct(queue) /\ Distinct(stash) /\ Ids(queue) \cap Ids(stash) = {}
    BY <2>1, Joined
  <2> HIDE DEF qs
  <2>4. /\ held \in Seq(Envelope) /\ Ids(held) = Ids(qs) \cup Ids(current)
        /\ Distinct(held) <=> Distinct(qs) /\ Distinct(current) /\ Ids(qs) \cap Ids(current) = {}
    BY <2>1, <2>3, Joined
  <2> HIDE DEF held
  <2>5. Distinct(held)
    BY <2>2, <2>3, <2>4 DEF Ledger, Apart
  <2>6. LogIds(log) \cap Ids(held) = {} /\ id \in LogIds(log) \cup Ids(held)
    BY <2>2, <2>3, <2>4 DEF Ledger
  <2>7. \A o, p \in log : o.env.id = p.env.id => o = p
    BY <2>2 DEF Ledger
  <2>8. Cardinality({}) = 0
    BY FS_EmptySet
  <2>9. CASE id \in Ids(held)
    <3>1. PICK i \in 1..Len(held) : held[i].id = id
      BY <2>9 DEF Ids
    <3>2. P = {i}
      BY <2>5, <3>1 DEF Distinct
    <3>3. F = {}
      BY <2>6, <2>9 DEF LogIds
    <3>4. Cardinality(P) = 1
      BY <3>2, FS_Singleton
    <3>5. Cardinality(F) = 0
      BY <2>8, <3>3
    <3> HIDE DEF P, F
    <3>6. Cardinality(P) + Cardinality(F) = 1
      BY <3>4, <3>5
    <3> QED BY <3>6 DEF P, F, held, qs
  <2>10. CASE id \in LogIds(log)
    <3>1. PICK o \in log : o.env.id = id
      BY <2>10 DEF LogIds
    <3>2. F = {o}
      BY <2>7, <3>1
    <3>3. P = {}
      BY <2>6, <2>10 DEF Ids
    <3>4. Cardinality(F) = 1
      BY <3>2, FS_Singleton
    <3>5. Cardinality(P) = 0
      BY <2>8, <3>3
    <3> HIDE DEF P, F
    <3>6. Cardinality(P) + Cardinality(F) = 1
      BY <3>4, <3>5
    <3> QED BY <3>6 DEF P, F, held, qs
  <2> QED BY <2>6, <2>9, <2>10
<1> QED BY MailHolds, <1>1, PTL

(***************************************************************************)
(* No overflow policy, throttle or replay ever sheds a lifecycle signal.   *)
(***************************************************************************)
THEOREM SignalNeverShed == Spec => []SignalsSurvive
<1>1. MailInv => SignalsSurvive
  BY DEF MailInv, Spared, SignalsSurvive
<1> QED BY MailHolds, <1>1, PTL

(***************************************************************************)
(* unstashAll and the throttle's re-park restore arrival order, for any    *)
(* number of messages and whatever prependUser sheds on the way.           *)
(***************************************************************************)
THEOREM ReplayKeepsOrder == Spec => []ArrivalOrder
<1>1. MailInv => ArrivalOrder
  <2> SUFFICES ASSUME MailInv, ~lateStash PROVE Ordered(stash \o queue)
    BY DEF ArrivalOrder, Ordered
  <2>1. stash \in Seq(Envelope) /\ queue \in Seq(Envelope)
    BY DEF MailInv, Boxes
  <2>2. Ordered(stash) /\ Ordered(queue) /\ Below(Ids(stash), Ids(queue))
    BY DEF MailInv, InOrder
  <2> QED BY <2>1, <2>2, Joined
<1> QED BY MailHolds, <1>1, PTL

(***************************************************************************)
(* The mailbox never holds more droppable envelopes than its capacity, on  *)
(* the arrival path and on the replay path alike.                          *)
(***************************************************************************)
THEOREM MailboxWithinBound == Spec => []BoundHeld
<1>1. MailInv => BoundHeld
  BY DEF MailInv, Boxes, BoundHeld
<1> QED BY MailHolds, <1>1, PTL

-----------------------------------------------------------------------------
(* The types of the rest of the cell *)

Places == {"off", "queued", "loop", "handler"} \cup Hooks

States == {"creating", "running", "suspended", "terminating", "terminated"}

LifeTypes ==
    /\ state \in States
    /\ actor \in BOOLEAN /\ suspended \in BOOLEAN /\ parked \in BOOLEAN
    /\ children \in 0..MaxChildren /\ owed \in Nat /\ sysq \in Seq(Commands)

PaceTypes ==
    /\ throttle \in {"none", "pause", "drop"} /\ tokens \in 0..Burst /\ timer \in BOOLEAN
    /\ replayed \in BOOLEAN /\ lateStash \in BOOLEAN

TurnTypes == processing \in BOOLEAN /\ turn \in Places /\ handled \in 0..Throughput

CellTypes == LifeTypes /\ PaceTypes /\ TurnTypes

LEMMA ScheduleTypes ==
    ASSUME TurnTypes, Schedule \/ UNCHANGED <<processing, turn>>, handled' = handled
    PROVE  TurnTypes'
BY DEF TurnTypes, Schedule, Places

LEMMA EndTurnTypes == ASSUME EndTurn PROVE TurnTypes'
BY ConstantsAssumption DEF TurnTypes, EndTurn, Places

LEMMA DoneTypes == ASSUME TurnTypes, CommandDone PROVE TurnTypes'
<1>1. CASE EndTurn
  BY <1>1, EndTurnTypes
<1>2. CASE Goto("loop")
  BY <1>2 DEF Goto, TurnTypes, Places
<1> QED BY <1>1, <1>2 DEF CommandDone

LEMMA TakeTypes ==
    ASSUME sysq \in Seq(Commands), NEW c, TakeCommand(c) PROVE sysq' \in Seq(Commands)
BY DEF TakeCommand

LEMMA DequeueTypes ==
    ASSUME tokens \in 0..Burst, Dequeue PROVE tokens' \in 0..Burst
BY ConstantsAssumption DEF Dequeue

LEMMA FailTypes ==
    ASSUME state \in States, owed \in Nat, FailToParent
    PROVE  suspended' = TRUE /\ state' \in States /\ owed' \in Nat
BY DEF FailToParent, States

LEMMA RebuildTypes ==
    ASSUME state \in States, owed \in Nat, suspended \in BOOLEAN, TurnTypes, BeginRebuild
    PROVE  suspended' \in BOOLEAN /\ state' \in States /\ owed' \in Nat /\ TurnTypes'
<1>1. CASE Goto("postRestart") /\ UNCHANGED <<suspended, state, owed, failures>>
  BY <1>1 DEF Goto, TurnTypes, Places, Hooks
<1>2. CASE FailToParent /\ CommandDone
  <2>1. TurnTypes'
    BY <1>2, DoneTypes
  <2> QED BY <1>2, <2>1, FailTypes
<1> QED BY <1>1, <1>2 DEF BeginRebuild

LEMMA NextTypes == ASSUME CellTypes, MailInv, [Next]_vars PROVE CellTypes'
<1> USE ConstantsAssumption
<1>0. LifeTypes /\ PaceTypes /\ TurnTypes
  BY DEF CellTypes
<1> SUFFICES LifeTypes' /\ PaceTypes' /\ TurnTypes'
  BY DEF CellTypes
<1>1. CASE UNCHANGED vars
  BY <1>0, <1>1 DEF vars, lane, life, pace, keep, LifeTypes, PaceTypes, TurnTypes
<1>2. CASE Arrive
  <2>1. UNCHANGED <<pace, keep, handled, state, actor, suspended, parked, children>>
    BY <1>2 DEF Arrive, PostUserMessage, PostSignal, ChildStops, Supervise, Decide, life
  <2>2. PaceTypes'
    BY <1>0, <2>1 DEF PaceTypes, pace, keep
  <2>3. Schedule \/ UNCHANGED <<processing, turn>>
    BY <1>2 DEF Arrive, PostUserMessage, PostSignal, ChildStops, Supervise, Decide
  <2>4. TurnTypes'
    BY <1>0, <2>1, <2>3, ScheduleTypes
  <2>5. owed' \in Nat
    BY <1>0, <1>2
    DEF Arrive, PostUserMessage, PostSignal, ChildStops, Supervise, Decide, life, LifeTypes
  <2>6. sysq' = sysq \/ \E c \in Commands : sysq' = Append(sysq, c)
    BY <1>2 DEF Arrive, PostUserMessage, PostSignal, ChildStops, Supervise, Decide, EnqueueSystem,
                Commands
  <2>7. sysq' \in Seq(Commands)
    BY <1>0, <2>6 DEF LifeTypes
  <2> QED BY <1>0, <2>1, <2>2, <2>4, <2>5, <2>7 DEF LifeTypes
<1>3. CASE Clock
  <2>1. UNCHANGED <<lane, life, keep, throttle, handled>>
    BY <1>3 DEF Clock, Refill, ResumeTimer
  <2>2. LifeTypes'
    BY <1>0, <2>1 DEF LifeTypes, lane, life
  <2>3. PaceTypes'
    <3>1. tokens' \in 0..Burst
      BY <1>0, <1>3 DEF PaceTypes, Clock, Refill, ResumeTimer
    <3>2. timer' \in BOOLEAN
      BY <1>0, <1>3 DEF PaceTypes, Clock, Refill, ResumeTimer
    <3> QED BY <1>0, <2>1, <3>1, <3>2 DEF PaceTypes, keep
  <2>4. Schedule \/ UNCHANGED <<processing, turn>>
    BY <1>3 DEF Clock, Refill, ResumeTimer, ScheduleIfRunning
  <2> QED BY <1>0, <2>1, <2>2, <2>3, <2>4, ScheduleTypes
<1>4. CASE Turn
  <2>1. CASE TurnStart
    BY <1>0, <2>1 DEF TurnStart, lane, life, pace, keep, LifeTypes, PaceTypes, TurnTypes, Places
  <2>2. CASE LoopEnds
    <3>1. TurnTypes'
      BY <2>2, EndTurnTypes DEF LoopEnds
    <3> QED BY <1>0, <2>2, <3>1 DEF LoopEnds, lane, life, pace, keep, LifeTypes, PaceTypes
  <2>3. CASE ThrottleExcess
    <3>1. TurnTypes'
      BY <2>3, EndTurnTypes DEF ThrottleExcess
    <3>2. timer' \in BOOLEAN
      BY <1>0, <2>3 DEF ThrottleExcess, PaceTypes
    <3> QED BY <1>0, <2>3, <3>1, <3>2 DEF ThrottleExcess, life, keep, LifeTypes, PaceTypes
  <2>4. ASSUME NEW c, TakeCommand(c) PROVE sysq' \in Seq(Commands)
    BY <1>0, <2>4, TakeTypes DEF LifeTypes
  <2>5. CASE OnCreate
    <3>1. suspended' \in BOOLEAN /\ state' \in States /\ owed' \in Nat
      BY <1>0, <2>5, FailTypes DEF OnCreate, LifeTypes, States
    <3>2. actor' \in BOOLEAN
      BY <1>0, <2>5 DEF OnCreate, LifeTypes
    <3>3. TurnTypes'
      BY <1>0, <2>5 DEF OnCreate, Goto, TurnTypes, Places, Hooks
    <3> QED BY <1>0, <2>4, <2>5, <3>1, <3>2, <3>3 DEF OnCreate, pace, keep, LifeTypes, PaceTypes
  <2>6. CASE OnSuspend \/ OnResume
    <3>1. TurnTypes'
      BY <1>0, <2>6, DoneTypes DEF OnSuspend, OnResume
    <3> QED BY <1>0, <2>4, <2>6, <3>1
        DEF OnSuspend, OnResume, pace, keep, States, LifeTypes, PaceTypes
  <2>7. CASE OnTerminate
    <3>1. TurnTypes'
      BY <1>0, <2>7, DoneTypes DEF OnTerminate, BeginTermination, TurnTypes, Places, Hooks
    <3> QED BY <1>0, <2>4, <2>7, <3>1
        DEF OnTerminate, BeginTermination, keep, States, LifeTypes, PaceTypes
  <2>8. CASE OnRecreate
    <3>1. TurnTypes'
      BY <1>0, <2>8, DoneTypes DEF OnRecreate, Goto, TurnTypes, Places, Hooks
    <3> QED BY <1>0, <2>4, <2>8, <3>1 DEF OnRecreate, life, pace, LifeTypes, PaceTypes
  <2>9. CASE OnChildTerminated
    <3>1. suspended' \in BOOLEAN /\ state' \in States /\ owed' \in Nat /\ TurnTypes'
      BY <1>0, <2>9, RebuildTypes, DoneTypes
      DEF OnChildTerminated, Goto, LifeTypes, TurnTypes, Places, Hooks
    <3>2. children' \in 0..MaxChildren
      BY <1>0, <2>9 DEF OnChildTerminated, LifeTypes
    <3>3. parked' \in BOOLEAN /\ timer' \in BOOLEAN
      BY <1>0, <2>9 DEF OnChildTerminated, LifeTypes, PaceTypes
    <3> QED BY <1>0, <2>4, <2>9, <3>1, <3>2, <3>3
        DEF OnChildTerminated, keep, LifeTypes, PaceTypes
  <2>10. CASE HandlerStarts
    <3>1. tokens' \in 0..Burst
      BY <1>0, <2>10, DequeueTypes DEF HandlerStarts, PaceTypes
    <3> QED BY <1>0, <2>10, <3>1
        DEF HandlerStarts, Goto, life, LifeTypes, PaceTypes, TurnTypes, Places
  <2>11. CASE PoisonPill
    <3>1. tokens' \in 0..Burst
      BY <1>0, <2>11, DequeueTypes DEF PoisonPill, PaceTypes
    <3>2. handled' \in 0..Throughput
      BY <1>0, <2>11 DEF PoisonPill, Dequeue, UserTurn, TurnTypes
    <3> QED BY <1>0, <2>11, <3>1, <3>2 DEF PoisonPill, BeginTermination, keep, States, LifeTypes,
                                          PaceTypes, TurnTypes, Places, Hooks
  <2>12. CASE Kill
    <3>1. tokens' \in 0..Burst
      BY <1>0, <2>12, DequeueTypes DEF Kill, PaceTypes
    <3>2. handled' \in 0..Throughput
      BY <1>0, <2>12 DEF Kill, Dequeue, UserTurn, TurnTypes
    <3>3. suspended' \in BOOLEAN /\ state' \in States /\ owed' \in Nat
      BY <1>0, <2>12, FailTypes DEF Kill, LifeTypes
    <3> QED BY <1>0, <2>12, <3>1, <3>2, <3>3 DEF Kill, keep, LifeTypes, PaceTypes, TurnTypes, Places
  <2> QED BY <1>4, <2>1, <2>2, <2>3, <2>5, <2>6, <2>7, <2>8, <2>9, <2>10, <2>11, <2>12 DEF Turn
<1>5. CASE Settle
  <2>1. CASE PreStartSettles
    <3>1. suspended' \in BOOLEAN /\ state' \in States /\ owed' \in Nat
      BY <1>0, <2>1, FailTypes DEF PreStartSettles, LifeTypes
    <3> QED BY <1>0, <2>1, <3>1 DEF PreStartSettles, Goto, pace, keep, LifeTypes, PaceTypes,
                                    TurnTypes, Places
  <2>2. CASE PreRestartSettles
    <3>1. suspended' \in BOOLEAN /\ state' \in States /\ owed' \in Nat /\ TurnTypes'
      BY <1>0, <2>2, RebuildTypes, DoneTypes DEF PreRestartSettles, LifeTypes
    <3>2. parked' \in BOOLEAN
      BY <1>0, <2>2 DEF PreRestartSettles, LifeTypes
    <3> QED BY <1>0, <2>2, <3>1, <3>2 DEF PreRestartSettles, pace, keep, LifeTypes, PaceTypes
  <2>3. CASE PostRestartSettles
    <3>1. suspended' \in BOOLEAN /\ state' \in States /\ owed' \in Nat
      BY <1>0, <2>3, FailTypes DEF PostRestartSettles, LifeTypes, States
    <3>2. TurnTypes'
      BY <1>0, <2>3, DoneTypes DEF PostRestartSettles
    <3> QED BY <1>0, <2>3, <3>1, <3>2 DEF PostRestartSettles, pace, keep, LifeTypes, PaceTypes
  <2>4. CASE PostStopSettles
    <3>1. TurnTypes'
      BY <1>0, <2>4, EndTurnTypes DEF PostStopSettles, Goto, TurnTypes, Places
    <3> QED BY <1>0, <2>4, <3>1 DEF PostStopSettles, pace, States, LifeTypes, PaceTypes
  <2>5. CASE HandlerSettles
    <3>1. handled' \in 0..Throughput
      BY <1>0, <2>5 DEF HandlerSettles, TurnTypes, MailInv, InHand
    <3>2. suspended' \in BOOLEAN /\ state' \in States /\ owed' \in Nat
      BY <1>0, <2>5, FailTypes DEF HandlerSettles, LifeTypes
    <3>3. replayed' \in BOOLEAN
      BY <2>5 DEF HandlerSettles
    <3> QED BY <1>0, <2>5, <3>1, <3>2, <3>3 DEF HandlerSettles, pace, LifeTypes, PaceTypes,
                                               TurnTypes, Places
  <2> QED BY <1>5, <2>1, <2>2, <2>3, <2>4, <2>5 DEF Settle
<1>6. CASE ContextCall
  <2>1. CASE Stash
    BY <1>0, <2>1 DEF Stash, lane, life, pace, LifeTypes, PaceTypes, TurnTypes
  <2>2. CASE UnstashAll
    <3>1. TurnTypes'
      BY <1>0, <2>2, ScheduleTypes DEF UnstashAll
    <3> QED BY <1>0, <2>2, <3>1 DEF UnstashAll, life, pace, LifeTypes, PaceTypes
  <2>3. CASE CancelThrottle
    <3>1. TurnTypes'
      BY <1>0, <2>3, ScheduleTypes DEF CancelThrottle, ScheduleIfRunning
    <3>2. tokens' \in 0..Burst
      BY <2>3 DEF CancelThrottle
    <3>3. throttle' \in {"none", "pause", "drop"} /\ timer' \in BOOLEAN
      BY <2>3 DEF CancelThrottle
    <3> QED BY <1>0, <2>3, <3>1, <3>2, <3>3
        DEF CancelThrottle, lane, life, keep, LifeTypes, PaceTypes
  <2>4. CASE SpawnChild
    BY <1>0, <2>4 DEF SpawnChild, lane, pace, keep, LifeTypes, PaceTypes, TurnTypes
  <2>5. ASSUME NEW mode \in {"pause", "drop"}, Throttle(mode)
        PROVE  LifeTypes' /\ PaceTypes' /\ TurnTypes'
    <3>1. TurnTypes'
      BY <1>0, <2>5, ScheduleTypes DEF Throttle, ScheduleIfRunning
    <3>2. tokens' \in 0..Burst
      BY <2>5 DEF Throttle
    <3>3. throttle' \in {"none", "pause", "drop"} /\ timer' \in BOOLEAN
      BY <2>5 DEF Throttle
    <3> QED BY <1>0, <2>5, <3>1, <3>2, <3>3 DEF Throttle, lane, life, keep, LifeTypes, PaceTypes
  <2> QED BY <1>6, <2>1, <2>2, <2>3, <2>4, <2>5 DEF ContextCall
<1> QED BY <1>1, <1>2, <1>3, <1>4, <1>5, <1>6 DEF Next

(***************************************************************************)
(* Type correctness of a cell.  It needs the invariant of the messages: a  *)
(* batch counts no further than the throughput because a handler only runs *)
(* in a batch that is not full.                                            *)
(***************************************************************************)
THEOREM CellStaysTyped == Spec => []TypeOK
<1>1. Init => CellTypes
  <2> SUFFICES ASSUME Init PROVE LifeTypes /\ PaceTypes /\ TurnTypes
    BY DEF CellTypes
  <2>1. /\ children \in 0..MaxChildren /\ owed \in Nat /\ tokens \in 0..Burst
        /\ handled \in 0..Throughput
    BY ConstantsAssumption DEF Init
  <2>2. sysq \in Seq(Commands)
    BY DEF Init, Commands
  <2> QED BY <2>1, <2>2 DEF Init, LifeTypes, PaceTypes, TurnTypes, Places, States
<1>2. CellTypes /\ MailInv /\ WakeupInv /\ [Next]_vars => CellTypes'
  BY NextTypes
<1>3. CellTypes /\ MailInv => TypeOK
  BY DEF CellTypes, States, LifeTypes, PaceTypes, TurnTypes, Places, MailInv, Boxes, TypeOK
<1> QED BY MailHolds, <1>1, <1>2, <1>3, PTL DEF Spec

=============================================================================
