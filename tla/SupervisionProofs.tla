------------------------- MODULE SupervisionProofs -------------------------
(***************************************************************************)
(* What holds of every tree of cells, whatever its size and shape: types,  *)
(* no orphans, no unannounced death, and stops that stay stops.            *)
(***************************************************************************)
EXTENDS Supervision, TLAPS

-----------------------------------------------------------------------------
(* Types *)

\* The commands and signals are what their sets say.
LEMMA CommandTypes ==
    /\ Create \in Command /\ Terminate \in Command /\ Recreate \in Command
    /\ Suspend \in Command /\ Resume \in Command
    /\ \A c \in Cells : Failure(c) \in Command /\ ChildTerminated(c) \in Command
    /\ Poison \in Signal /\ \A c \in Cells : Terminated(c) \in Signal
BY DEF Create, Terminate, Recreate, Suspend, Resume, Failure, ChildTerminated, Poison,
       Terminated, Command, Signal

\* enqueueSystem keeps every lane a sequence of commands.
LEMMA TellType ==
    ASSUME NEW q \in [Cells -> Seq(Command)], NEW c \in Cells, NEW m \in Command
    PROVE  Tell(q, c, m) \in [Cells -> Seq(Command)]
BY DEF Tell

LEMMA TellAllType ==
    ASSUME NEW q \in [Cells -> Seq(Command)], NEW cs, NEW m \in Command
    PROVE  TellAll(q, cs, m) \in [Cells -> Seq(Command)]
BY DEF TellAll

LEMMA RestType ==
    ASSUME TypeOK, NEW c \in Cells, sysq[c] # <<>>
    PROVE  /\ Rest(c) \in [Cells -> Seq(Command)]
           /\ Head(sysq[c]) \in Command
BY DEF TypeOK, Rest

\* A throw stays within the bounds of the run.
LEMMA ThrowsType ==
    ASSUME TypeOK, Throws \/ UNCHANGED failures, UNCHANGED scenario
    PROVE  failures' \in 0..scenario'.failures
<1>1. scenario.failures \in Nat
  BY TreeAssumption DEF TypeOK
<1> QED BY <1>1 DEF Throws, TypeOK

\* failToParent keeps the types.
LEMMA FailToParentType ==
    ASSUME TypeOK, NEW c \in Cells,
           NEW st \in [Cells -> CellState],
           NEW kids \in SUBSET Cells, NEW q \in [Cells -> Seq(Command)],
           FailToParent(c, st, kids, q)
    PROVE  /\ suspended' \in [Cells -> BOOLEAN]
           /\ state' \in [Cells -> CellState]
           /\ sysq' \in [Cells -> Seq(Command)]
<1> DEFINE told == TellAll(q, kids, Suspend)
<1>1. told \in [Cells -> Seq(Command)]
  BY CommandTypes, TellAllType
<1>2. Tell(told, c, Terminate) \in [Cells -> Seq(Command)]
  BY <1>1, CommandTypes, TellType, Zenon
<1>3. c # Root => Tell(told, Parent[c], Failure(c)) \in [Cells -> Seq(Command)]
  BY <1>1, CommandTypes, TellType, TreeAssumption, Zenon
<1>4. sysq' \in [Cells -> Seq(Command)]
  BY <1>2, <1>3, Zenon DEF FailToParent
<1> QED BY <1>4 DEF FailToParent, TypeOK, CellState

\* finalizeTermination keeps the types.
LEMMA PostStopType ==
    ASSUME TypeOK, NEW c \in Cells, PostStopSettles(c)
    PROVE  TypeOK'
<1> DEFINE kept == IF ending[c] = "pill" THEN sysq ELSE [sysq EXCEPT ![c] = <<>>]
<1>1. kept \in [Cells -> Seq(Command)]
  BY DEF TypeOK
<1>2. c # Root => Tell(kept, Parent[c], ChildTerminated(c)) \in [Cells -> Seq(Command)]
  BY <1>1, CommandTypes, TellType, TreeAssumption, Zenon
<1>3. sysq' \in [Cells -> Seq(Command)]
  BY <1>1, <1>2, Zenon DEF PostStopSettles
<1>4. userq' \in [Cells -> Seq(Signal)]
  BY CommandTypes DEF PostStopSettles, TypeOK
<1>5. watching' \in [Cells -> SUBSET Cells] /\ watchers' \in [Cells -> SUBSET Cells]
  BY DEF PostStopSettles, TypeOK
<1>6. state' \in [Cells -> CellState] /\ ending' \in [Cells -> LastTurn]
  BY DEF PostStopSettles, TypeOK, CellState, LastTurn
<1> QED BY <1>3, <1>4, <1>5, <1>6, Zenon DEF PostStopSettles, budget, script, TypeOK

\* completeRecreate keeps the types.
LEMMA CompleteRecreateType ==
    ASSUME TypeOK, NEW c \in Cells, NEW kids \in SUBSET Cells,
           NEW q \in [Cells -> Seq(Command)], CompleteRecreate(c, kids, q),
           UNCHANGED scenario
    PROVE  /\ inst' \in [Cells -> {"none", "live"}]
           /\ suspended' \in [Cells -> BOOLEAN]
           /\ state' \in [Cells -> CellState]
           /\ sysq' \in [Cells -> Seq(Command)]
           /\ failures' \in 0..scenario'.failures
<1>1. failures' \in 0..scenario'.failures
  BY ThrowsType DEF CompleteRecreate
<1>2. inst' \in [Cells -> {"none", "live"}]
  BY Zenon DEF CompleteRecreate, TypeOK
<1>3. CASE FailToParent(c, state, kids, q)
  BY <1>1, <1>2, <1>3, FailToParentType, Zenon DEF TypeOK
<1>4. CASE /\ suspended' = [suspended EXCEPT ![c] = FALSE]
           /\ state' = [state EXCEPT ![c] = "running"]
           /\ sysq' = TellAll(q, kids, Resume)
  <2>1. sysq' \in [Cells -> Seq(Command)]
    BY <1>4, CommandTypes, TellAllType
  <2> QED BY <1>1, <1>2, <1>4, <2>1, Zenon DEF TypeOK, CellState
<1> QED BY <1>3, <1>4 DEF CompleteRecreate

\* registerRestart never lets a budget exceed maxRetries.
LEMMA RestartType ==
    ASSUME TypeOK, NEW p \in Cells, NEW s, NEW affected, Restart(p, s, affected),
           Rest(p) \in [Cells -> Seq(Command)]
    PROVE  /\ sysq' \in [Cells -> Seq(Command)]
           /\ retries' \in [Cells -> 0..MaxRetries]
           /\ granted' \in [Cells -> Nat]
<1>1. sysq' \in [Cells -> Seq(Command)]
  BY CommandTypes, TellAllType DEF Restart
<1>2. Spent(p, s) \in 0..MaxRetries
  BY TreeAssumption DEF Spent, TypeOK
<1>3. WithinLimit(p, s) => Spent(p, s) + 1 \in 0..MaxRetries
  BY <1>2, TreeAssumption DEF WithinLimit
<1>4. retries' \in [Cells -> 0..MaxRetries]
  BY <1>2, <1>3, Zenon DEF Restart, TypeOK
<1>5. granted' \in [Cells -> Nat]
  <2>1. granted[p] + 1 \in Nat
    BY DEF TypeOK
  <2>2. UNCHANGED granted \/ granted' = [granted EXCEPT ![p] = granted[p] + 1]
    BY DEF Restart
  <2> QED BY <2>1, <2>2, Zenon DEF TypeOK
<1> QED BY <1>1, <1>4, <1>5

LEMMA TypeInit == Init => TypeOK
BY CommandTypes, TreeAssumption DEF Init, TypeOK, CellState, LastTurn

LEMMA TypeNext ==
    ASSUME TypeOK, [Next]_vars
    PROVE  TypeOK'
<1>1. ASSUME NEW c \in Cells, OnCreate(c) PROVE TypeOK'
  <2>1. Rest(c) \in [Cells -> Seq(Command)]
    BY <1>1, RestType DEF OnCreate, Takes
  <2>2. [state EXCEPT ![c] = "running"] \in [Cells -> CellState]
    BY DEF CellState, TypeOK
  <2>3. failures' \in 0..scenario'.failures
    BY <1>1, ThrowsType DEF OnCreate, script
  <2>4. inst' \in [Cells -> {"none", "live"}]
    BY <1>1, Zenon DEF OnCreate, TypeOK
  <2>5. /\ suspended' \in [Cells -> BOOLEAN]
        /\ state' \in [Cells -> CellState]
        /\ sysq' \in [Cells -> Seq(Command)]
    BY <1>1, <2>1, <2>2, FailToParentType, Zenon DEF OnCreate, TypeOK
  <2> QED BY <1>1, <2>3, <2>4, <2>5 DEF OnCreate, end, watch, budget, script, TypeOK
<1>2. ASSUME NEW c \in Cells, OnSuspend(c) \/ OnResume(c) PROVE TypeOK'
  <2>1. Rest(c) \in [Cells -> Seq(Command)]
    BY <1>2, RestType DEF OnSuspend, OnResume, Takes
  <2>2. sysq' \in [Cells -> Seq(Command)]
    <3>1. \E m \in {Suspend, Resume} : sysq' = TellAll(Rest(c), children[c], m)
      BY <1>2 DEF OnSuspend, OnResume, TypeOK
    <3> QED BY <2>1, <3>1, CommandTypes, TellAllType
  <2>3. state' \in [Cells -> CellState] /\ suspended' \in [Cells -> BOOLEAN]
    BY <1>2, Zenon DEF OnSuspend, OnResume, CellState, TypeOK
  <2> QED BY <1>2, <2>2, <2>3 DEF OnSuspend, OnResume, end, watch, budget, script, TypeOK
<1>3. ASSUME NEW c \in Cells, OnTerminate(c) PROVE TypeOK'
  <2>1. Rest(c) \in [Cells -> Seq(Command)]
    BY <1>3, RestType DEF OnTerminate, Takes
  <2>2. sysq' \in [Cells -> Seq(Command)]
    BY <1>3, <2>1, CommandTypes, TellAllType DEF OnTerminate
  <2>3. state' \in [Cells -> CellState] /\ ending' \in [Cells -> LastTurn]
    BY <1>3, Zenon DEF OnTerminate, AwaitPostStop, CellState, LastTurn, TypeOK
  <2> QED BY <1>3, <2>2, <2>3 DEF OnTerminate, watch, budget, script, TypeOK
<1>4. ASSUME NEW c \in Cells, OnRecreate(c) PROVE TypeOK'
  <2>1. Rest(c) \in [Cells -> Seq(Command)]
    BY <1>4, RestType DEF OnRecreate, Takes
  <2>2. UNCHANGED scenario
    BY <1>4 DEF OnRecreate, script
  <2>3. CASE CompleteRecreate(c, children[c], Rest(c)) /\ UNCHANGED parked
    BY <1>4, <2>1, <2>2, <2>3, CompleteRecreateType, Zenon
       DEF OnRecreate, end, watch, budget, script, TypeOK
  <2>4. CASE ~(CompleteRecreate(c, children[c], Rest(c)) /\ UNCHANGED parked)
    <3>1. sysq' \in [Cells -> Seq(Command)]
      BY <1>4, <2>1, <2>4, CommandTypes, TellAllType DEF OnRecreate
    <3>2. parked' \in [Cells -> BOOLEAN]
      BY <1>4, <2>4, Zenon DEF OnRecreate, TypeOK
    <3> QED BY <1>4, <2>4, <3>1, <3>2 DEF OnRecreate, end, watch, budget, script, TypeOK
  <2> QED BY <2>3, <2>4, Zenon DEF TypeOK
<1>5. ASSUME NEW p \in Cells, OnFailure(p) PROVE TypeOK'
  <2>1. Rest(p) \in [Cells -> Seq(Command)]
    BY <1>5, RestType DEF OnFailure, Takes
  <2>2. CASE FailToParent(p, state, children[p], Rest(p)) /\ UNCHANGED budget
    BY <1>5, <2>1, <2>2, FailToParentType, Zenon DEF OnFailure, end, watch, budget, script, TypeOK
  <2>3. CASE /\ \E s, affected : Restart(p, s, affected)
             /\ UNCHANGED <<state, suspended>>
    BY <1>5, <2>1, <2>3, RestartType, Zenon DEF OnFailure, end, watch, script, TypeOK
  <2>4. CASE /\ \E affected : \E answer \in {Resume, Terminate} :
                   sysq' = TellAll(Rest(p), affected, answer)
             /\ UNCHANGED <<state, suspended, budget>>
    <3>1. sysq' \in [Cells -> Seq(Command)]
      BY <2>1, <2>4, CommandTypes, TellAllType
    <3> QED BY <1>5, <2>4, <3>1 DEF OnFailure, end, watch, budget, script, TypeOK
  <2>5. CASE sysq' = Rest(p) /\ UNCHANGED <<state, suspended, budget>>
    BY <1>5, <2>1, <2>5 DEF OnFailure, end, watch, budget, script, TypeOK
  <2> QED BY <1>5, <2>2, <2>3, <2>4, <2>5 DEF OnFailure
<1>6. ASSUME NEW p \in Cells, OnChildTerminated(p) PROVE TypeOK'
  <2>1. Rest(p) \in [Cells -> Seq(Command)] /\ UNCHANGED scenario
    BY <1>6, RestType DEF OnChildTerminated, Takes, script
  <2>2. children' \in [Cells -> SUBSET Cells] /\ parked' \in [Cells -> BOOLEAN]
    BY <1>6 DEF OnChildTerminated, TypeOK
  <2>3. CASE AwaitPostStop(p, "stop") /\ sysq' = Rest(p) /\ UNCHANGED <<inst, suspended, failures>>
    <3>1. state' \in [Cells -> CellState] /\ ending' \in [Cells -> LastTurn]
      BY <2>3 DEF AwaitPostStop, CellState, LastTurn, TypeOK
    <3> QED BY <1>6, <2>1, <2>2, <2>3, <3>1 DEF OnChildTerminated, watch, budget, script, TypeOK
  <2>4. CASE CompleteRecreate(p, {}, Rest(p)) /\ UNCHANGED ending
    BY <1>6, <2>1, <2>2, <2>4, CompleteRecreateType, Zenon
       DEF OnChildTerminated, watch, budget, script, TypeOK
  <2>5. CASE sysq' = Rest(p) /\ UNCHANGED <<state, inst, suspended, ending, failures>>
    BY <1>6, <2>1, <2>2, <2>5 DEF OnChildTerminated, watch, budget, script, TypeOK
  <2> QED BY <1>6, <2>3, <2>4, <2>5, Zenon DEF OnChildTerminated, TypeOK
<1>7. ASSUME NEW c \in Cells, HandlerThrows(c) PROVE TypeOK'
  <2>1. failures' \in 0..scenario'.failures
    BY <1>7, ThrowsType DEF HandlerThrows, script
  <2> QED BY <1>7, <2>1, FailToParentType, Zenon
      DEF HandlerThrows, end, watch, budget, script, TypeOK
<1>8. ASSUME NEW p \in Cells, NEW c \in Cells, Spawn(p, c) PROVE TypeOK'
  <2>1. sysq' \in [Cells -> Seq(Command)]
    BY <1>8, CommandTypes, TellType, Zenon DEF Spawn, TypeOK
  <2>2. state' \in [Cells -> CellState]
    BY <1>8 DEF Spawn, CellState, TypeOK
  <2>3. children' \in [Cells -> SUBSET Cells]
    BY <1>8 DEF Spawn, TypeOK
  <2> QED BY <1>8, <2>1, <2>2, <2>3 DEF Spawn, end, watch, budget, script, TypeOK
<1>9. ASSUME NEW c \in Cells, Works(c) PROVE work' \in 0..scenario'.work /\ UNCHANGED scenario
  <2>1. scenario.work \in Nat
    BY TreeAssumption DEF TypeOK
  <2> QED BY <1>9, <2>1 DEF Works, TypeOK
<1>10. ASSUME NEW c \in Cells, StopSelf(c) PROVE TypeOK'
  <2>1. sysq' \in [Cells -> Seq(Command)]
    BY <1>10, CommandTypes, TellType, Zenon DEF StopSelf, TypeOK
  <2> QED BY <1>9, <1>10, <2>1 DEF StopSelf, end, watch, budget, TypeOK
<1>11. ASSUME NEW c \in Cells, NEW x \in Cells, Stop(c, x) \/ Watch(c, x) \/ Unwatch(c, x)
       PROVE TypeOK'
  <2>1. userq' \in [Cells -> Seq(Signal)]
    <3>1. \A m \in Signal, y \in Cells : Post(y, m) => userq' \in [Cells -> Seq(Signal)]
      BY DEF Post, TypeOK
    <3> QED BY <1>11, <3>1, CommandTypes DEF Stop, Watch, Unwatch, TypeOK
  <2>2. watching' \in [Cells -> SUBSET Cells] /\ watchers' \in [Cells -> SUBSET Cells]
    <3>1. CASE Stop(c, x)
      BY <3>1 DEF Stop, watch, TypeOK
    <3>2. CASE Watch(c, x)
      <4>1. watching' = [watching EXCEPT ![c] = @ \cup {x}]
        BY <3>2 DEF Watch
      <4>2. watchers' = watchers \/ watchers' = [watchers EXCEPT ![x] = @ \cup {c}]
        BY <3>2 DEF Watch
      <4>3. watching' \in [Cells -> SUBSET Cells]
        BY <4>1 DEF TypeOK
      <4>4. CASE watchers' = watchers
        BY <4>3, <4>4 DEF TypeOK
      <4>5. CASE watchers' = [watchers EXCEPT ![x] = @ \cup {c}]
        <5>1. watchers[x] \cup {c} \in SUBSET Cells
          BY DEF TypeOK
        <5> QED BY <4>3, <4>5, <5>1 DEF TypeOK
      <4> QED BY <4>2, <4>4, <4>5
    <3>3. CASE Unwatch(c, x)
      BY <3>3 DEF Unwatch, TypeOK
    <3> QED BY <1>11, <3>1, <3>2, <3>3
  <2>3. work' \in 0..scenario'.work /\ UNCHANGED scenario
    BY <1>9, <1>11 DEF Stop, Watch, Unwatch
  <2> QED BY <1>11, <2>1, <2>2, <2>3 DEF Stop, Watch, Unwatch, end, budget, TypeOK
<1>12. ASSUME NEW c \in Cells, OnPoison(c) PROVE TypeOK'
  <2>1. sysq' \in [Cells -> Seq(Command)]
    <3>1. sysq \in [Cells -> Seq(Command)]
      BY DEF TypeOK
    <3> QED BY <1>12, <3>1, CommandTypes, TellAllType DEF OnPoison
  <2>2. userq' \in [Cells -> Seq(Signal)]
    <3>1. userq[c] # <<>> /\ userq' = [userq EXCEPT ![c] = Tail(@)]
      BY <1>12 DEF OnPoison
    <3> QED BY <3>1 DEF TypeOK
  <2>3. state' \in [Cells -> CellState] /\ ending' \in [Cells -> LastTurn]
    BY <1>12, Zenon DEF OnPoison, AwaitPostStop, CellState, LastTurn, TypeOK
  <2> QED BY <1>12, <2>1, <2>2, <2>3 DEF OnPoison, watch, budget, script, TypeOK
<1>13. ASSUME NEW c \in Cells, OnTerminated(c) PROVE TypeOK'
  BY <1>13 DEF OnTerminated, end, budget, script, TypeOK
<1>14. ASSUME NEW c \in Cells, OnRecreateTooLate(c) PROVE TypeOK'
  <2>1. Rest(c) \in [Cells -> Seq(Command)] /\ UNCHANGED scenario
    BY <1>14, RestType DEF OnRecreateTooLate, script
  <2>2. ending' \in [Cells -> LastTurn] /\ revived' \subseteq Cells
    BY <1>14 DEF OnRecreateTooLate, LastTurn, TypeOK
  <2> QED BY <1>14, <2>1, <2>2, CompleteRecreateType, Zenon
          DEF OnRecreateTooLate, watch, budget, script, TypeOK
<1>15. ASSUME NEW c \in Cells, LastTurnEnds(c) PROVE TypeOK'
  <2>1. sysq' \in [Cells -> Seq(Command)] /\ ending' \in [Cells -> LastTurn]
    BY <1>15 DEF LastTurnEnds, LastTurn, TypeOK
  <2> QED BY <1>15, <2>1 DEF LastTurnEnds, watch, budget, script, TypeOK
<1>16. CASE UNCHANGED vars
  BY <1>16 DEF vars, end, watch, budget, script, TypeOK
<1> QED
  BY <1>1, <1>2, <1>3, <1>4, <1>5, <1>6, <1>7, <1>8, <1>10, <1>11, <1>12, <1>13, <1>14, <1>15,
     <1>16, PostStopType DEF Next, Dispatch, System

(***************************************************************************)
(* Every behaviour of every tree is well typed; in particular one restart  *)
(* budget never grants more than maxRetries restarts (registerRestart).    *)
(* How many budgets a supervisor opens is up to its strategies, and this   *)
(* theorem does not bound the restarts it grants altogether.               *)
(***************************************************************************)
THEOREM TypeCorrect == Spec => []TypeOK
BY TypeInit, TypeNext, PTL DEF Spec

-----------------------------------------------------------------------------
(* The last turn of a cell *)

\* postStop is awaited by a cell that is stopping and has no children left; the
\* turn of a PoisonPill goes on with the cell terminated.
EndingInv ==
    \A c \in Cells :
        /\ ending[c] \in {"stop", "pill"} => state[c] = "terminating" /\ children[c] = {}
        /\ ending[c] = "open" => state[c] = "terminated"

LEMMA EndingInit == Init => EndingInv
BY DEF Init, EndingInv

\* A cell outside its last turn acts, or one that is about to await postStop.
LEMMA EndingKept ==
    ASSUME EndingInv, NEW c \in Cells,
           \A d \in Cells \ {c} : /\ state'[d] = state[d] /\ children'[d] = children[d]
                                  /\ ending'[d] = ending[d],
           \/ ending'[c] = "none"
           \/ ending'[c] \in {"stop", "pill"} /\ state'[c] = "terminating" /\ children'[c] = {}
           \/ ending'[c] = "open" /\ state'[c] = "terminated"
    PROVE  EndingInv'
BY DEF EndingInv

LEMMA EndingNext ==
    ASSUME TypeOK, EndingInv, [Next]_vars
    PROVE  EndingInv'
<1>1. ASSUME NEW c \in Cells, NEW st, NEW kids, NEW q,
             FailToParent(c, st, kids, q), st = state \/ st = [state EXCEPT ![c] = "running"]
      PROVE  \A d \in Cells \ {c} : state'[d] = state[d]
  BY <1>1 DEF FailToParent, TypeOK
<1>2. ASSUME NEW c \in Cells, OnCreate(c) PROVE EndingInv'
  <2>1. \A d \in Cells \ {c} : state'[d] = state[d]
    BY <1>1, <1>2, Zenon DEF OnCreate, TypeOK
  <2> QED BY <1>2, <2>1, EndingKept DEF OnCreate, Takes, end
<1>3. ASSUME NEW c \in Cells, OnSuspend(c) \/ OnResume(c) PROVE EndingInv'
  <2>1. \A d \in Cells \ {c} : state'[d] = state[d]
    BY <1>3 DEF OnSuspend, OnResume, TypeOK
  <2> QED BY <1>3, <2>1, EndingKept DEF OnSuspend, OnResume, Takes, end
<1>4. ASSUME NEW c \in Cells, OnTerminate(c) PROVE EndingInv'
  <2>1. /\ \A d \in Cells \ {c} : state'[d] = state[d] /\ ending'[d] = ending[d]
        /\ \/ ending'[c] = "none"
           \/ ending'[c] = "stop" /\ state'[c] = "terminating" /\ children[c] = {}
    BY <1>4 DEF OnTerminate, AwaitPostStop, Takes, TypeOK
  <2> QED BY <1>4, <2>1, EndingKept DEF OnTerminate
<1>5. ASSUME NEW c \in Cells, NEW kids, NEW q, CompleteRecreate(c, kids, q)
      PROVE  \A d \in Cells \ {c} : state'[d] = state[d]
  BY <1>1, <1>5 DEF CompleteRecreate, TypeOK
<1>6. ASSUME NEW c \in Cells, OnRecreate(c) PROVE EndingInv'
  <2>1. \A d \in Cells \ {c} : state'[d] = state[d]
    BY <1>5, <1>6 DEF OnRecreate
  <2> QED BY <1>6, <2>1, EndingKept DEF OnRecreate, Takes, end
<1>7. ASSUME NEW c \in Cells, OnFailure(c) PROVE EndingInv'
  <2>1. \A d \in Cells \ {c} : state'[d] = state[d]
    BY <1>1, <1>7 DEF OnFailure
  <2> QED BY <1>7, <2>1, EndingKept DEF OnFailure, Takes, end
<1>8. ASSUME NEW c \in Cells, OnChildTerminated(c) PROVE EndingInv'
  <2>1. \A d \in Cells \ {c} : children'[d] = children[d]
    BY <1>8 DEF OnChildTerminated, TypeOK
  <2>2. CASE AwaitPostStop(c, "stop") /\ children'[c] = {}
    <3>1. /\ \A d \in Cells \ {c} : state'[d] = state[d] /\ ending'[d] = ending[d]
          /\ ending'[c] = "stop" /\ state'[c] = "terminating"
      BY <2>2 DEF AwaitPostStop, TypeOK
    <3> QED BY <2>1, <2>2, <3>1, EndingKept
  <2>3. CASE UNCHANGED ending /\ (CompleteRecreate(c, {}, Rest(c)) \/ UNCHANGED state)
    BY <1>5, <1>8, <2>1, <2>3, EndingKept DEF OnChildTerminated, Takes
  <2> QED BY <1>8, <2>2, <2>3 DEF OnChildTerminated
<1>9. ASSUME NEW c \in Cells, PostStopSettles(c) \/ LastTurnEnds(c) PROVE EndingInv'
  <2>1. /\ \A d \in Cells \ {c} : state'[d] = state[d] /\ ending'[d] = ending[d]
        /\ ending'[c] = "none" \/ (ending'[c] = "open" /\ state'[c] = "terminated")
    BY <1>9 DEF PostStopSettles, LastTurnEnds, TypeOK
  <2> QED BY <1>9, <2>1, EndingKept DEF PostStopSettles, LastTurnEnds
<1>10. ASSUME NEW c \in Cells, OnRecreateTooLate(c) PROVE EndingInv'
  <2>1. \A d \in Cells \ {c} : state'[d] = state[d]
    BY <1>5, <1>10 DEF OnRecreateTooLate
  <2>2. ending'[c] = "none" /\ \A d \in Cells \ {c} : ending'[d] = ending[d]
    BY <1>10 DEF OnRecreateTooLate, TypeOK
  <2> QED BY <1>10, <2>1, <2>2, EndingKept DEF OnRecreateTooLate
<1>11. ASSUME NEW c \in Cells, Ready(c) PROVE ending[c] = "none"
  BY <1>11, Zenon DEF Ready, EndingInv, TypeOK, LastTurn
<1>12. ASSUME NEW c \in Cells, HandlerThrows(c) PROVE EndingInv'
  <2>1. \A d \in Cells \ {c} : state'[d] = state[d]
    BY <1>1, <1>12 DEF HandlerThrows
  <2> QED BY <1>11, <1>12, <2>1, EndingKept DEF HandlerThrows, end
<1>13. ASSUME NEW p \in Cells, NEW c \in Cells, Spawn(p, c) PROVE EndingInv'
  <2>1. ending[p] = "none" /\ state[c] = "none" /\ UNCHANGED ending
    BY <1>11, <1>13 DEF Spawn, end
  <2>2. \A d \in Cells : /\ d # c => state'[d] = state[d]
                         /\ d # p => children'[d] = children[d]
    BY <1>13 DEF Spawn, TypeOK
  <2> QED BY <2>1, <2>2 DEF EndingInv
<1>14. ASSUME NEW c \in Cells, OnPoison(c) PROVE EndingInv'
  <2>1. /\ \A d \in Cells \ {c} : state'[d] = state[d] /\ ending'[d] = ending[d]
        /\ \/ ending'[c] = "none"
           \/ ending'[c] = "pill" /\ state'[c] = "terminating" /\ children[c] = {}
    BY <1>11, <1>14 DEF OnPoison, AwaitPostStop, TypeOK
  <2> QED BY <1>14, <2>1, EndingKept DEF OnPoison
<1>15. ASSUME NEW c \in Cells,
              \/ StopSelf(c) \/ OnTerminated(c)
              \/ \E x \in Cells : Stop(c, x) \/ Watch(c, x) \/ Unwatch(c, x)
       PROVE  EndingInv'
  BY <1>15 DEF StopSelf, OnTerminated, Stop, Watch, Unwatch, end, EndingInv
<1>16. CASE UNCHANGED vars
  BY <1>16 DEF vars, end, EndingInv
<1> QED
  BY <1>2, <1>3, <1>4, <1>6, <1>7, <1>8, <1>9, <1>10, <1>12, <1>13, <1>14, <1>15, <1>16
     DEF Next, Dispatch, System

-----------------------------------------------------------------------------
(* Death watch *)

(***************************************************************************)
(* NoDeathMissed is almost inductive: a watched cell, moreover, exists.    *)
(***************************************************************************)
WatchInv == NoDeathMissed /\ \A c, x \in Cells : x \in watching[c] => state[x] # "none"

Holds(s, m) == \E i \in 1..Len(s) : s[i] = m

\* A queued signal outlives what is appended, and what is taken before it.
LEMMA SignalQueue ==
    ASSUME NEW s \in Seq(Signal), NEW m, NEW n \in Signal, Holds(s, m)
    PROVE  /\ Holds(Append(s, n), m)
           /\ Head(s) # m => Holds(Tail(s), m)
<1>1. PICK i \in 1..Len(s) : s[i] = m
  BY DEF Holds
<1>2. Holds(Append(s, n), m)
  <2>1. i \in 1..Len(Append(s, n)) /\ Append(s, n)[i] = m
    BY <1>1
  <2> QED BY <2>1 DEF Holds
<1>3. ASSUME Head(s) # m PROVE Holds(Tail(s), m)
  <2>1. i # 1
    BY <1>1, <1>3
  <2>2. i - 1 \in 1..Len(Tail(s)) /\ Tail(s)[i - 1] = m
    BY <1>1, <2>1
  <2> QED BY <2>2 DEF Holds
<1> QED BY <1>2, <1>3

LEMMA SignalAppended ==
    ASSUME NEW s \in Seq(Signal), NEW n \in Signal
    PROVE  Holds(Append(s, n), n)
<1>1. Len(s) + 1 \in 1..Len(Append(s, n)) /\ Append(s, n)[Len(s) + 1] = n
  OBVIOUS
<1> QED BY <1>1 DEF Holds

LEMMA AnnouncedHolds ==
    /\ \A c, x : Announced(c, x) <=> Holds(userq[c], Terminated(x))
    /\ \A c, x : Announced(c, x)' <=> Holds(userq'[c], Terminated(x))
BY DEF Announced, Holds

\* A step that leaves the watch sets alone, ends no life, brings none back but
\* by a restart, and takes no announcement back, keeps the invariant.
LEMMA WatchKept ==
    ASSUME WatchInv, UNCHANGED watch, revived \subseteq revived',
           \A c \in Cells : /\ Alive(c) => Alive(c)'
                            /\ Alive(c)' => Alive(c) \/ state[c] = "none" \/ c \in revived'
                            /\ state[c] # "none" => state'[c] # "none",
           \A c, x \in Cells : Announced(c, x) => Announced(c, x)'
    PROVE  WatchInv'
<1> SUFFICES ASSUME NEW c \in Cells, NEW x \in Cells, x \in watching'[c]
             PROVE  /\ Alive(c)' /\ state'[x] # "none"
                    /\ Alive(x)' => c \in watchers'[x] \/ (x \in revived' /\ Announced(c, x)')
                    /\ ~Alive(x)' => Announced(c, x)'
  BY DEF WatchInv, NoDeathMissed
<1>1. x \in watching[c] /\ watchers' = watchers
  BY DEF watch
<1>2. /\ Alive(c) /\ state[x] # "none"
      /\ Alive(x) => c \in watchers[x] \/ (x \in revived /\ Announced(c, x))
      /\ ~Alive(x) => Announced(c, x)
  BY <1>1 DEF WatchInv, NoDeathMissed
<1> QED BY <1>1, <1>2

\* finalizeTermination tells every watcher and withdraws every watch.
LEMMA WatchSettles ==
    ASSUME TypeOK, WatchInv, NEW d \in Cells, PostStopSettles(d)
    PROVE  WatchInv'
<1> SUFFICES ASSUME NEW c \in Cells, NEW x \in Cells, x \in watching'[c]
             PROVE  /\ Alive(c)' /\ state'[x] # "none"
                    /\ Alive(x)' => c \in watchers'[x] \/ (x \in revived' /\ Announced(c, x)')
                    /\ ~Alive(x)' => Announced(c, x)'
  BY DEF WatchInv, NoDeathMissed
<1>1. c # d /\ x \in watching[c] /\ revived' = revived
  BY DEF PostStopSettles, TypeOK
<1>2. /\ Alive(c) /\ state[x] # "none"
      /\ Alive(x) => c \in watchers[x] \/ (x \in revived /\ Announced(c, x))
      /\ ~Alive(x) => Announced(c, x)
  BY <1>1 DEF WatchInv, NoDeathMissed
<1>3. state' = [state EXCEPT ![d] = "terminated"]
  BY Zenon DEF PostStopSettles
<1>4. Alive(c)' /\ state'[x] # "none"
  BY <1>1, <1>2, <1>3 DEF Alive, TypeOK
<1>5. /\ userq'[c] = IF c \in watchers[d] /\ state[c] # "terminated"
                     THEN Append(userq[c], Terminated(d)) ELSE userq[c]
      /\ userq[c] \in Seq(Signal) /\ Terminated(d) \in Signal
  BY <1>1, CommandTypes DEF PostStopSettles, TypeOK
<1>6. Announced(c, x) => Announced(c, x)'
  BY <1>5, SignalQueue, AnnouncedHolds
<1>7. ASSUME Alive(x)' PROVE c \in watchers'[x] \/ (x \in revived' /\ Announced(c, x)')
  <2>1. x # d /\ Alive(x)
    BY <1>3, <1>7 DEF Alive, TypeOK
  <2>2. c \in watchers[x] => c \in watchers'[x]
    BY <1>1, <2>1 DEF PostStopSettles, TypeOK
  <2> QED BY <1>1, <1>2, <1>6, <2>1, <2>2
<1>8. ASSUME ~Alive(x)' PROVE Announced(c, x)'
  <2>1. CASE Announced(c, x)
    BY <1>6, <2>1, Zenon
  <2>2. CASE ~Announced(c, x)
    <3>1. Alive(x) /\ c \in watchers[x]
      BY <1>2, <2>2
    <3>2. x = d
      BY <1>3, <1>8, <3>1 DEF Alive, TypeOK
    <3>3. userq'[c] = Append(userq[c], Terminated(x))
      BY <1>2, <1>5, <3>1, <3>2 DEF Alive
    <3> QED BY <1>5, <3>2, <3>3, SignalAppended, AnnouncedHolds
  <2> QED BY <2>1, <2>2, Zenon
<1> QED BY <1>4, <1>7, <1>8

\* What every step but a spawn, a finalizeTermination and a restart that comes
\* too late does to the states.
SameLives ==
    \A c \in Cells : /\ state[c] = "terminated" <=> state'[c] = "terminated"
                     /\ state[c] = "none" <=> state'[c] = "none"

\* What a restart that comes too late does to them.
Lives ==
    /\ revived \subseteq revived'
    /\ \A c \in Cells : /\ state[c] = "none" <=> state'[c] = "none"
                        /\ Alive(c) => Alive(c)'
                        /\ Alive(c)' => Alive(c) \/ c \in revived'

LEMMA SameLivesAreLives == ASSUME SameLives, UNCHANGED revived PROVE Lives
BY DEF SameLives, Lives, Alive

LEMMA FailToParentLives ==
    ASSUME TypeOK, NEW c \in Cells, state[c] # "none", NEW kids, NEW q,
           FailToParent(c, state, kids, q)
    PROVE  SameLives
BY DEF FailToParent, SameLives, TypeOK

LEMMA CompleteRecreateLives ==
    ASSUME TypeOK, NEW c \in Cells, Alive(c), NEW kids, NEW q, CompleteRecreate(c, kids, q)
    PROVE  SameLives
<1>1. CASE FailToParent(c, state, kids, q)
  BY <1>1, FailToParentLives DEF Alive
<1>2. CASE state' = [state EXCEPT ![c] = "running"]
  BY <1>2 DEF SameLives, Alive, TypeOK
<1> QED BY <1>1, <1>2 DEF CompleteRecreate

\* Only finalizeTermination ends a life, and only a restart brings one back.
LEMMA SystemLives ==
    ASSUME TypeOK, NEW c \in Cells, System(c), state[c] # "none"
    PROVE  \/ Lives /\ UNCHANGED <<userq, watch>>
           \/ PostStopSettles(c)
<1>1. CASE OnCreate(c)
  <2>1. Alive(c) /\ UNCHANGED <<userq, watch, revived>>
    BY <1>1 DEF OnCreate, Takes, end
  <2>2. state' = [state EXCEPT ![c] = "running"] => SameLives
    BY <2>1 DEF SameLives, Alive, TypeOK
  <2>3. FailToParent(c, [state EXCEPT ![c] = "running"], children[c], Rest(c)) => SameLives
    BY <2>1 DEF FailToParent, SameLives, Alive, TypeOK
  <2> QED BY <1>1, <2>1, <2>2, <2>3, FailToParentLives, SameLivesAreLives DEF OnCreate
<1>2. CASE OnSuspend(c) \/ OnResume(c)
  <2>1. Alive(c) /\ UNCHANGED <<userq, watch, revived>>
    BY <1>2 DEF OnSuspend, OnResume, Takes, end
  <2>2. SameLives
    BY <1>2, <2>1 DEF OnSuspend, OnResume, SameLives, Alive, TypeOK
  <2> QED BY <2>1, <2>2, SameLivesAreLives
<1>3. CASE OnTerminate(c)
  <2>1. Alive(c) /\ UNCHANGED <<userq, watch, revived>>
    BY <1>3 DEF OnTerminate, Takes
  <2>2. SameLives
    BY <1>3, <2>1 DEF OnTerminate, AwaitPostStop, SameLives, Alive, TypeOK
  <2> QED BY <2>1, <2>2, SameLivesAreLives
<1>4. CASE OnRecreate(c)
  <2>1. Alive(c) /\ UNCHANGED <<userq, watch, revived>>
    BY <1>4 DEF OnRecreate, Takes, end
  <2>2. SameLives
    BY <1>4, <2>1, CompleteRecreateLives DEF OnRecreate, SameLives
  <2> QED BY <2>1, <2>2, SameLivesAreLives
<1>5. CASE OnFailure(c)
  <2>1. UNCHANGED <<userq, watch, revived>>
    BY <1>5 DEF OnFailure, end
  <2>2. SameLives
    BY <1>5, FailToParentLives DEF OnFailure, SameLives
  <2> QED BY <2>1, <2>2, SameLivesAreLives
<1>6. CASE OnChildTerminated(c)
  <2>1. Alive(c) /\ UNCHANGED <<userq, watch, revived>>
    BY <1>6, Zenon DEF OnChildTerminated, Takes
  <2>2. CASE CompleteRecreate(c, {}, Rest(c))
    BY <2>1, <2>2, CompleteRecreateLives, SameLivesAreLives
  <2>3. CASE AwaitPostStop(c, "stop") \/ UNCHANGED state
    <3>1. SameLives
      BY <2>1, <2>3 DEF AwaitPostStop, SameLives, Alive, TypeOK
    <3> QED BY <2>1, <3>1, SameLivesAreLives
  <2> QED BY <1>6, <2>2, <2>3 DEF OnChildTerminated
<1>7. CASE OnRecreateTooLate(c)
  <2>1. UNCHANGED <<userq, watch>> /\ revived \subseteq revived'
    BY <1>7 DEF OnRecreateTooLate
  <2>2. CASE FailToParent(c, state, {}, Rest(c))
    <3>1. SameLives
      BY <2>2, FailToParentLives
    <3> QED BY <2>1, <3>1 DEF SameLives, Lives, Alive
  <2>3. CASE state' = [state EXCEPT ![c] = "running"]
    <3>1. state'[c] = "running" /\ c \in revived'
      BY <1>7, <2>3 DEF OnRecreateTooLate, TypeOK
    <3> QED BY <2>1, <2>3, <3>1 DEF Lives, Alive, TypeOK
  <2> QED BY <1>7, <2>2, <2>3 DEF OnRecreateTooLate, CompleteRecreate
<1>8. CASE LastTurnEnds(c)
  BY <1>8, SameLivesAreLives DEF LastTurnEnds, SameLives
<1> QED BY <1>1, <1>2, <1>3, <1>4, <1>5, <1>6, <1>7, <1>8 DEF System

LEMMA WatchInit == Init => WatchInv
BY DEF Init, WatchInv, NoDeathMissed

LEMMA WatchNext ==
    ASSUME TypeOK, EndingInv, WatchInv, [Next]_vars
    PROVE  WatchInv'
<1>1. ASSUME NEW c \in Cells, System(c) PROVE WatchInv'
  <2>1. state[c] # "none" \/ PostStopSettles(c)
    BY <1>1, Zenon DEF System, OnCreate, OnSuspend, OnResume, OnTerminate, OnRecreate, OnFailure,
                OnChildTerminated, OnRecreateTooLate, LastTurnEnds, Takes, Alive, EndingInv
  <2>2. CASE Lives /\ UNCHANGED <<userq, watch>>
    BY <2>2, WatchKept DEF Lives, Announced
  <2> QED BY <1>1, <2>1, <2>2, SystemLives, WatchSettles
<1>2. ASSUME NEW c \in Cells, HandlerThrows(c) PROVE WatchInv'
  <2>1. SameLives /\ UNCHANGED <<userq, watch, revived>>
    BY <1>2, FailToParentLives DEF HandlerThrows, Ready, end
  <2> QED BY <2>1, SameLivesAreLives, WatchKept DEF Lives, Announced
<1>3. ASSUME NEW p \in Cells, NEW c \in Cells, Spawn(p, c) PROVE WatchInv'
  <2>1. UNCHANGED <<userq, watch, revived>>
    BY <1>3 DEF Spawn, end
  <2>2. \A d \in Cells : /\ Alive(d) => Alive(d)'
                         /\ Alive(d)' => Alive(d) \/ state[d] = "none"
                         /\ state[d] # "none" => state'[d] # "none"
    BY <1>3 DEF Spawn, Alive, TypeOK
  <2> QED BY <2>1, <2>2, WatchKept DEF Announced
<1>4. ASSUME NEW c \in Cells, StopSelf(c) PROVE WatchInv'
  BY <1>4, WatchKept DEF StopSelf, Announced, Alive, end
<1>5. ASSUME NEW c \in Cells, NEW x \in Cells, Stop(c, x) PROVE WatchInv'
  <2>1. \A d, y \in Cells : Announced(d, y) => Announced(d, y)'
    <3> SUFFICES ASSUME NEW d \in Cells, NEW y \in Cells, Holds(userq[d], Terminated(y))
                 PROVE  Holds(userq'[d], Terminated(y))
      BY AnnouncedHolds
    <3>1. userq'[d] = userq[d] \/ userq'[d] = Append(userq[d], Poison)
      BY <1>5 DEF Stop, Post, TypeOK
    <3>2. userq[d] \in Seq(Signal) /\ Poison \in Signal
      BY CommandTypes DEF TypeOK
    <3> QED BY <3>1, <3>2, SignalQueue, Zenon
  <2> QED BY <1>5, <2>1, WatchKept DEF Stop, Alive, end
<1>6. ASSUME NEW c \in Cells, NEW x \in Cells, Watch(c, x) PROVE WatchInv'
  <2> SUFFICES ASSUME NEW d \in Cells, NEW y \in Cells, y \in watching'[d]
               PROVE  /\ Alive(d) /\ state[y] # "none"
                      /\ Alive(y) => d \in watchers'[y] \/ (y \in revived /\ Announced(d, y)')
                      /\ ~Alive(y) => Announced(d, y)'
    BY <1>6 DEF WatchInv, NoDeathMissed, Watch, Alive, end
  <2>1. Alive(c) /\ state[x] # "none"
    BY <1>6 DEF Watch, Works, Ready, Alive
  <2>2. CASE d = c /\ y = x
    <3>1. CASE state[x] = "terminated"
      <4>1. userq'[c] = Append(userq[c], Terminated(x))
        BY <1>6, <2>1, <3>1 DEF Watch, Post, TypeOK
      <4>2. userq[c] \in Seq(Signal) /\ Terminated(x) \in Signal
        BY CommandTypes DEF TypeOK
      <4>3. Announced(c, x)'
        BY <4>1, <4>2, SignalAppended, AnnouncedHolds, Zenon
      <4> QED BY <2>1, <2>2, <3>1, <4>3 DEF Alive
    <3>2. CASE state[x] # "terminated"
      <4>1. c \in watchers'[x]
        BY <1>6, <3>2 DEF Watch, TypeOK
      <4> QED BY <2>1, <2>2, <3>2, <4>1 DEF Alive
    <3> QED BY <3>1, <3>2
  <2>3. CASE ~(d = c /\ y = x)
    <3>1. y \in watching[d]
      BY <1>6, <2>3 DEF Watch, TypeOK
    <3>2. /\ Alive(d) /\ state[y] # "none"
          /\ Alive(y) => d \in watchers[y] \/ (y \in revived /\ Announced(d, y))
          /\ ~Alive(y) => Announced(d, y)
      BY <3>1 DEF WatchInv, NoDeathMissed
    <3>3. watchers[y] \subseteq watchers'[y]
      BY <1>6 DEF Watch, TypeOK
    <3>4. userq'[d] = userq[d] \/ userq'[d] = Append(userq[d], Terminated(x))
      BY <1>6 DEF Watch, Post, TypeOK
    <3>5. userq[d] \in Seq(Signal) /\ Terminated(x) \in Signal
      BY CommandTypes DEF TypeOK
    <3>6. Announced(d, y) => Announced(d, y)'
      BY <3>4, <3>5, SignalQueue, AnnouncedHolds, Zenon
    <3> QED BY <3>2, <3>3, <3>6
  <2> QED BY <2>2, <2>3
<1>7. ASSUME NEW c \in Cells, NEW x \in Cells, Unwatch(c, x) PROVE WatchInv'
  <2> SUFFICES ASSUME NEW d \in Cells, NEW y \in Cells, y \in watching'[d]
               PROVE  /\ Alive(d) /\ state[y] # "none"
                      /\ Alive(y) => d \in watchers'[y] \/ (y \in revived /\ Announced(d, y))
                      /\ ~Alive(y) => Announced(d, y)
    BY <1>7 DEF WatchInv, NoDeathMissed, Unwatch, Alive, Announced, end
  <2>1. y \in watching[d] /\ (d # c \/ y # x)
    BY <1>7 DEF Unwatch, TypeOK
  <2>2. d \in watchers[y] => d \in watchers'[y]
    BY <1>7, <2>1 DEF Unwatch, TypeOK
  <2> QED BY <2>1, <2>2 DEF WatchInv, NoDeathMissed
<1>8. ASSUME NEW c \in Cells, OnPoison(c) PROVE WatchInv'
  <2>1. SameLives /\ UNCHANGED <<watch, revived>>
    BY <1>8 DEF OnPoison, Ready, AwaitPostStop, SameLives, TypeOK
  <2>2. \A d, y \in Cells : Announced(d, y) => Announced(d, y)'
    <3> SUFFICES ASSUME NEW d \in Cells, NEW y \in Cells, Holds(userq[d], Terminated(y))
                 PROVE  Holds(userq'[d], Terminated(y))
      BY AnnouncedHolds
    <3>1. Head(userq[c]) # Terminated(y)
      <4>1. Head(userq[c]) = Poison
        BY <1>8 DEF OnPoison
      <4>2. Poison # Terminated(y)
        BY DEF Poison, Terminated
      <4> QED BY <4>1, <4>2
    <3>2. userq'[d] = IF d = c THEN Tail(userq[c]) ELSE userq[d]
      BY <1>8 DEF OnPoison, TypeOK
    <3>3. userq[d] \in Seq(Signal) /\ Poison \in Signal
      BY CommandTypes DEF TypeOK
    <3> QED BY <3>1, <3>2, <3>3, SignalQueue, Zenon
  <2> QED BY <2>1, <2>2, SameLivesAreLives, WatchKept DEF Lives
<1>9. ASSUME NEW c \in Cells, OnTerminated(c) PROVE WatchInv'
  <2> DEFINE who == Head(userq[c]).who
  <2> SUFFICES ASSUME NEW d \in Cells, NEW y \in Cells, y \in watching'[d]
               PROVE  /\ Alive(d) /\ state[y] # "none"
                      /\ Alive(y) => d \in watchers[y] \/ (y \in revived /\ Announced(d, y)')
                      /\ ~Alive(y) => Announced(d, y)'
    BY <1>9, Zenon DEF WatchInv, NoDeathMissed, OnTerminated, Alive, end
  <2>1. y \in watching[d] /\ (d = c => y # who)
    BY <1>9 DEF OnTerminated, TypeOK
  <2>2. userq'[d] = IF d = c THEN Tail(userq[c]) ELSE userq[d]
    BY <1>9 DEF OnTerminated, TypeOK
  <2>3. Announced(d, y) => Announced(d, y)'
    <3>1. d = c => Head(userq[d]) # Terminated(y)
      BY <2>1 DEF Terminated
    <3>2. userq[d] \in Seq(Signal) /\ Poison \in Signal
      BY CommandTypes DEF TypeOK
    <3> QED BY <2>2, <3>1, <3>2, SignalQueue, AnnouncedHolds, Zenon
  <2> QED BY <2>1, <2>3 DEF WatchInv, NoDeathMissed
<1>10. CASE UNCHANGED vars
  BY <1>10, Zenon DEF vars, watch, end, WatchInv, NoDeathMissed, Alive, Announced
<1> QED
  BY <1>1, <1>2, <1>3, <1>4, <1>5, <1>6, <1>7, <1>8, <1>9, <1>10 DEF Next, Dispatch

(***************************************************************************)
(* In every tree, under every interleaving of watch, unwatch, failure,     *)
(* restart and stop: whoever watches a cell hears of its death, also of    *)
(* the death of a cell that a restart then brings back (registerWatch,     *)
(* _addWatcher, finalizeTermination, _dispatchToBehavior).                 *)
(***************************************************************************)
THEOREM DeathAlwaysAnnounced == Spec => []NoDeathMissed
<1>1. WatchInv => NoDeathMissed
  BY DEF WatchInv
<1> QED BY <1>1, TypeCorrect, EndingInit, EndingNext, WatchInit, WatchNext, PTL DEF Spec

-----------------------------------------------------------------------------
(* The tree *)

\* At most one childTerminated is queued for the child k.
Once(s, k) ==
    \A i, j \in 1..Len(s) : s[i] = ChildTerminated(k) /\ s[j] = ChildTerminated(k) => i = j

\* No cell of this name was revived under this parent.
Plain(k) == Namesakes(k) \cap revived = {}

(***************************************************************************)
(* NoOrphan needs to know why removing a child by its name is safe: live   *)
(* children have distinct names, and a childTerminated on its way is about *)
(* a child of its receiver; unless a cell of that name was revived, it is  *)
(* the only one for a child that is dead and still registered.             *)
(***************************************************************************)
TreeInv ==
    /\ NoOrphan
    /\ \A p \in Cells : \A c \in children[p] :
          c \in Cells \ {Root} /\ Parent[c] = p /\ state[c] # "none"
    /\ \A p \in Cells : \A c, d \in children[p] : Name[c] = Name[d] => c = d
    /\ \A p, k \in Cells : Holds(sysq[p], ChildTerminated(k)) =>
          /\ k # Root /\ Parent[k] = p
          /\ Plain(k) => k \in children[p] /\ state[k] = "terminated"
    /\ \A p, k \in Cells : Plain(k) => Once(sysq[p], k)

\* The lanes q become r without a new childTerminated.
LanesKept(q, r) ==
    \A p, k \in Cells : /\ Once(q[p], k) => Once(r[p], k)
                        /\ Holds(r[p], ChildTerminated(k)) => Holds(q[p], ChildTerminated(k))

LEMMA NamesakesAlike ==
    ASSUME NEW c \in Cells \ {Root}
    PROVE  /\ c \in Namesakes(c)
           /\ \A d \in Cells : Parent[d] = Parent[c] /\ Name[d] = Name[c]
                               => Namesakes(d) = Namesakes(c)
BY DEF Namesakes

LEMMA PlainBefore ==
    ASSUME NEW k, revived \subseteq revived', Plain(k)'
    PROVE  Plain(k)
<1>1. Namesakes(k)' = Namesakes(k)
  BY DEF Namesakes
<1> QED BY <1>1 DEF Plain

LEMMA AppendPlain ==
    ASSUME NEW s \in Seq(Command), NEW m \in Command, NEW k, m # ChildTerminated(k)
    PROVE  /\ Once(s, k) => Once(Append(s, m), k)
           /\ Holds(Append(s, m), ChildTerminated(k)) => Holds(s, ChildTerminated(k))
<1> DEFINE x == ChildTerminated(k)
<1> HIDE DEF x
<1>1. \A i \in 1..Len(Append(s, m)) : Append(s, m)[i] = x => i \in 1..Len(s) /\ s[i] = x
  BY DEF x
<1> QED BY <1>1 DEF Once, Holds, x

\* Taking a command takes the only childTerminated for its child.
LEMMA TailLane ==
    ASSUME NEW s \in Seq(Command), s # <<>>, NEW k
    PROVE  /\ Once(s, k) => Once(Tail(s), k)
           /\ Holds(Tail(s), ChildTerminated(k)) =>
                 /\ Holds(s, ChildTerminated(k))
                 /\ Once(s, k) => Head(s) # ChildTerminated(k)
<1> DEFINE x == ChildTerminated(k)
<1> HIDE DEF x
<1>1. \A i \in 1..Len(Tail(s)) : i + 1 \in 1..Len(s) /\ Tail(s)[i] = s[i + 1]
  OBVIOUS
<1>2. ASSUME Once(s, k) PROVE Once(Tail(s), k)
  BY <1>1, <1>2 DEF Once
<1>3. ASSUME Holds(Tail(s), x)
      PROVE  Holds(s, x) /\ (Once(s, k) => Head(s) # x)
  <2>1. PICK i \in 1..Len(Tail(s)) : Tail(s)[i] = x
    BY <1>3 DEF Holds
  <2>2. i + 1 \in 1..Len(s) /\ s[i + 1] = x
    BY <1>1, <2>1
  <2>3. ASSUME Once(s, k) PROVE Head(s) # x
    <3>1. 1 \in 1..Len(s) /\ Head(s) = s[1] /\ 1 # i + 1
      OBVIOUS
    <3> QED BY <2>2, <2>3, <3>1 DEF Once, x
  <2> QED BY <2>2, <2>3 DEF Holds
<1> QED BY <1>2, <1>3 DEF x

LEMMA PlainCommands ==
    \A k : /\ Create # ChildTerminated(k) /\ Terminate # ChildTerminated(k)
           /\ Recreate # ChildTerminated(k) /\ Suspend # ChildTerminated(k)
           /\ Resume # ChildTerminated(k)
           /\ \A c : Failure(c) # ChildTerminated(k)
BY DEF Create, Terminate, Recreate, Suspend, Resume, Failure, ChildTerminated

LEMMA TellKept ==
    ASSUME NEW q \in [Cells -> Seq(Command)], NEW c \in Cells, NEW m \in Command,
           \A k : m # ChildTerminated(k)
    PROVE  LanesKept(q, Tell(q, c, m))
<1>1. \A p \in Cells : Tell(q, c, m)[p] = IF p = c THEN Append(q[p], m) ELSE q[p]
  BY DEF Tell
<1> QED BY <1>1, AppendPlain DEF LanesKept

LEMMA TellAllKept ==
    ASSUME NEW q \in [Cells -> Seq(Command)], NEW cs, NEW m \in Command,
           \A k : m # ChildTerminated(k)
    PROVE  LanesKept(q, TellAll(q, cs, m))
<1>1. \A p \in Cells : TellAll(q, cs, m)[p] = IF p \in cs THEN Append(q[p], m) ELSE q[p]
  BY DEF TellAll
<1> QED BY <1>1, AppendPlain DEF LanesKept

LEMMA RestKept ==
    ASSUME TypeOK, NEW c \in Cells, sysq[c] # <<>>
    PROVE  LanesKept(sysq, Rest(c))
<1>1. \A p \in Cells : Rest(c)[p] = IF p = c THEN Tail(sysq[p]) ELSE sysq[p]
  BY DEF Rest, TypeOK
<1>2. \A p \in Cells : sysq[p] \in Seq(Command)
  BY DEF TypeOK
<1> QED BY <1>1, <1>2, TailLane DEF LanesKept

LEMMA KeptTransitive ==
    ASSUME NEW q, NEW r, NEW s, LanesKept(q, r), LanesKept(r, s)
    PROVE  LanesKept(q, s)
BY Zenon DEF LanesKept

LEMMA KeptSame == ASSUME NEW q PROVE LanesKept(q, q)
BY DEF LanesKept

LEMMA ClearedKept ==
    ASSUME NEW q \in [Cells -> Seq(Command)], NEW c \in Cells
    PROVE  LanesKept(q, [q EXCEPT ![c] = <<>>])
BY DEF LanesKept, Once, Holds

LEMMA FailToParentKept ==
    ASSUME NEW c \in Cells, NEW st, NEW kids, NEW q \in [Cells -> Seq(Command)],
           FailToParent(c, st, kids, q)
    PROVE  LanesKept(q, sysq')
<1> DEFINE told == TellAll(q, kids, Suspend)
<1>1. told \in [Cells -> Seq(Command)] /\ LanesKept(q, told)
  BY CommandTypes, PlainCommands, TellAllType, TellAllKept
<1>2. CASE c = Root
  <2>1. LanesKept(told, Tell(told, c, Terminate))
    BY <1>1, CommandTypes, PlainCommands, TellKept
  <2>2. sysq' = Tell(told, c, Terminate)
    BY <1>2 DEF FailToParent
  <2> QED BY <1>1, <2>1, <2>2, KeptTransitive
<1>3. CASE c # Root
  <2>1. Parent[c] \in Cells
    BY <1>3, TreeAssumption
  <2>2. LanesKept(told, Tell(told, Parent[c], Failure(c)))
    BY <1>1, <2>1, CommandTypes, PlainCommands, TellKept, Zenon
  <2>3. sysq' = Tell(told, Parent[c], Failure(c))
    BY <1>3 DEF FailToParent
  <2> QED BY <1>1, <2>2, <2>3, KeptTransitive
<1> QED BY <1>2, <1>3

LEMMA CompleteRecreateKept ==
    ASSUME NEW c \in Cells, NEW kids, NEW q \in [Cells -> Seq(Command)],
           CompleteRecreate(c, kids, q)
    PROVE  LanesKept(q, sysq')
<1>1. LanesKept(q, TellAll(q, kids, Resume))
  BY CommandTypes, PlainCommands, TellAllKept
<1> QED BY <1>1, FailToParentKept DEF CompleteRecreate

\* A system command that neither reports a child nor ends a life sends plain
\* commands only and leaves the children alone.
LEMMA SystemKept ==
    ASSUME TypeOK, NEW c \in Cells, System(c), ~OnChildTerminated(c), ~PostStopSettles(c)
    PROVE  children' = children /\ LanesKept(sysq, sysq')
<1>1. ASSUME sysq[c] # <<>>
      PROVE  Rest(c) \in [Cells -> Seq(Command)] /\ LanesKept(sysq, Rest(c))
  BY <1>1, RestType, RestKept
<1>2. ASSUME sysq[c] # <<>>
      PROVE  /\ LanesKept(Rest(c), Rest(c))
             /\ \A cs : /\ LanesKept(Rest(c), TellAll(Rest(c), cs, Suspend))
                        /\ LanesKept(Rest(c), TellAll(Rest(c), cs, Resume))
                        /\ LanesKept(Rest(c), TellAll(Rest(c), cs, Terminate))
                        /\ LanesKept(Rest(c), TellAll(Rest(c), cs, Recreate))
  BY <1>1, <1>2, CommandTypes, PlainCommands, TellAllKept, KeptSame
<1>3. CASE LastTurnEnds(c)
  <2>1. sysq \in [Cells -> Seq(Command)]
    BY DEF TypeOK
  <2> QED BY <1>3, <2>1, ClearedKept, Zenon DEF LastTurnEnds
<1>4. CASE ~LastTurnEnds(c)
  <2>1. sysq[c] # <<>>
    BY <1>4, Zenon DEF System, OnCreate, OnSuspend, OnResume, OnTerminate, OnRecreate, OnFailure,
                OnRecreateTooLate, Takes
  <2>2. LanesKept(Rest(c), sysq') /\ children' = children
    <3>1. CASE OnCreate(c)
      BY <1>1, <1>2, <2>1, <3>1, FailToParentKept DEF OnCreate
    <3>2. CASE OnSuspend(c) \/ OnResume(c)
      BY <1>2, <2>1, <3>2, Zenon DEF OnSuspend, OnResume
    <3>3. CASE OnTerminate(c)
      BY <1>2, <2>1, <3>3 DEF OnTerminate
    <3>4. CASE OnRecreate(c)
      BY <1>1, <1>2, <2>1, <3>4, CompleteRecreateKept, Zenon DEF OnRecreate
    <3>5. CASE OnFailure(c)
      <4>1. \A s, cs : Restart(c, s, cs) => LanesKept(Rest(c), sysq')
        BY <1>2, <2>1, Zenon DEF Restart
      <4> QED BY <1>1, <1>2, <2>1, <3>5, <4>1, FailToParentKept, Zenon DEF OnFailure
    <3>6. CASE OnRecreateTooLate(c)
      BY <1>1, <2>1, <3>6, CompleteRecreateKept DEF OnRecreateTooLate
    <3> QED BY <1>4, <3>1, <3>2, <3>3, <3>4, <3>5, <3>6 DEF System
  <2> QED BY <1>1, <2>1, <2>2, KeptTransitive
<1> QED BY <1>3, <1>4

LEMMA TreeKept ==
    ASSUME TreeInv, children' = children, Lives, LanesKept(sysq, sysq')
    PROVE  TreeInv'
<1>1. \A k : Plain(k)' => Plain(k)
  BY PlainBefore DEF Lives
<1>2. \A c \in Cells \ {Root} : Plain(c)' => (Alive(c)' <=> Alive(c))
  BY NamesakesAlike DEF Lives, Plain, Namesakes
<1>3. NoOrphan'
  <2> SUFFICES ASSUME NEW c \in Cells \ {Root}, Alive(c)', Plain(c)'
               PROVE  c \in children'[Parent[c]] /\ Alive(Parent[c])'
    BY DEF NoOrphan, Plain, Alive, Namesakes
  <2>1. Alive(c) /\ Plain(c) /\ Parent[c] \in Cells
    BY <1>1, <1>2, TreeAssumption
  <2>2. c \in children[Parent[c]] /\ Alive(Parent[c])
    BY <2>1, Zenon DEF TreeInv, NoOrphan, Plain
  <2> QED BY <2>1, <2>2 DEF Lives
<1>4. ASSUME NEW p \in Cells, NEW k \in Cells, Holds(sysq'[p], ChildTerminated(k))
      PROVE  /\ k # Root /\ Parent[k] = p
             /\ Plain(k)' => k \in children'[p] /\ state'[k] = "terminated"
  <2>1. /\ k # Root /\ Parent[k] = p
        /\ Plain(k) => k \in children[p] /\ state[k] = "terminated"
    BY <1>4 DEF TreeInv, LanesKept
  <2>2. ASSUME Plain(k)' PROVE k \in children'[p] /\ state'[k] = "terminated"
    <3>1. k \in children[p] /\ state[k] = "terminated"
      BY <1>1, <2>1, <2>2
    <3>2. ~Alive(k)' /\ state'[k] # "none"
      BY <1>2, <2>1, <2>2, <3>1 DEF Alive, Lives
    <3> QED BY <3>1, <3>2 DEF Alive
  <2> QED BY <2>1, <2>2
<1>5. \A p, k \in Cells : Plain(k)' => Once(sysq'[p], k)
  BY <1>1, Zenon DEF TreeInv, LanesKept
<1>6. \A p \in Cells : \A c \in children'[p] :
          c \in Cells \ {Root} /\ Parent[c] = p /\ state'[c] # "none"
  BY DEF TreeInv, Lives
<1>7. \A p \in Cells : \A c, d \in children'[p] : Name[c] = Name[d] => c = d
  BY DEF TreeInv
<1> QED BY <1>3, <1>4, <1>5, <1>6, <1>7 DEF TreeInv, Holds, Once

\* finalizeTermination of a cell that has no children.
LEMMA TreeSettles ==
    ASSUME TypeOK, EndingInv, TreeInv, NEW c \in Cells, PostStopSettles(c)
    PROVE  TreeInv'
<1> DEFINE r == IF ending[c] = "pill" THEN sysq ELSE [sysq EXCEPT ![c] = <<>>]
<1>1. /\ \A x \in Cells : x # c => state'[x] = state[x]
      /\ state'[c] = "terminated" /\ children' = children /\ revived' = revived
  BY DEF PostStopSettles, TypeOK
<1>2. Alive(c) /\ children[c] = {}
  BY DEF PostStopSettles, EndingInv, Alive
<1>3. \A k : Plain(k)' <=> Plain(k)
  BY <1>1 DEF Plain, Namesakes
<1>4. NoOrphan'
  <2> SUFFICES ASSUME NEW x \in Cells \ {Root}, Alive(x)', Plain(x)'
               PROVE  x \in children'[Parent[x]] /\ Alive(Parent[x])'
    BY DEF NoOrphan, Plain, Alive, Namesakes
  <2>1. Alive(x) /\ Plain(x) /\ Parent[x] \in Cells
    BY <1>1, <1>3, TreeAssumption DEF Alive
  <2>2. x \in children[Parent[x]] /\ Alive(Parent[x])
    BY <2>1 DEF TreeInv, NoOrphan, Plain
  <2> QED BY <1>1, <1>2, <2>1, <2>2 DEF Alive
<1>5. r \in [Cells -> Seq(Command)] /\ LanesKept(sysq, r)
  <2>1. sysq \in [Cells -> Seq(Command)]
    BY DEF TypeOK
  <2>2. LanesKept(sysq, sysq) /\ LanesKept(sysq, [sysq EXCEPT ![c] = <<>>])
    BY <2>1, KeptSame, ClearedKept, Zenon
  <2> QED BY <2>1, <2>2
<1>6. sysq' = IF c = Root THEN r ELSE Tell(r, Parent[c], ChildTerminated(c))
  BY DEF PostStopSettles
<1> HIDE DEF r
<1>7. ASSUME NEW p \in Cells
      PROVE  sysq'[p] = r[p] \/ /\ c # Root /\ p = Parent[c]
                                /\ sysq'[p] = Append(r[p], ChildTerminated(c))
  BY <1>5, <1>6, TreeAssumption DEF Tell
<1>8. ASSUME NEW p \in Cells, NEW k \in Cells
      PROVE  /\ Holds(r[p], ChildTerminated(k)) =>
                   /\ k # Root /\ Parent[k] = p
                   /\ Plain(k) => k \in children[p] /\ state[k] = "terminated"
             /\ Plain(k) => Once(r[p], k)
             /\ r[p] \in Seq(Command)
  BY <1>5 DEF TreeInv, LanesKept
<1>9. \A k : ChildTerminated(c) = ChildTerminated(k) => k = c
  BY DEF ChildTerminated
<1>10. ASSUME NEW p \in Cells, NEW k \in Cells, k # c
       PROVE  /\ Once(r[p], k) => Once(sysq'[p], k)
              /\ Holds(sysq'[p], ChildTerminated(k)) => Holds(r[p], ChildTerminated(k))
  <2>1. CASE sysq'[p] = r[p]
    BY <2>1
  <2>2. CASE sysq'[p] = Append(r[p], ChildTerminated(c))
    BY <1>8, <1>9, <1>10, <2>2, AppendPlain, CommandTypes
  <2> QED BY <1>7, <2>1, <2>2
<1>11. ASSUME NEW p \in Cells, Plain(c) PROVE Once(sysq'[p], c)
  <2> DEFINE s == r[p]
             m == ChildTerminated(c)
  <2>1. s \in Seq(Command) /\ Once(s, c) /\ ~Holds(s, m) /\ m \in Command
    BY <1>2, <1>8, <1>11, CommandTypes DEF Alive
  <2> HIDE DEF s, m
  <2>2. \A l \in 1..Len(Append(s, m)) : Append(s, m)[l] = m => l = Len(s) + 1
    BY <2>1 DEF Holds
  <2>3. Once(Append(s, m), c)
    BY <2>2 DEF Once, m
  <2> QED BY <1>7, <2>1, <2>3, Zenon DEF s, m
<1>12. ASSUME NEW p \in Cells, NEW k \in Cells, Holds(sysq'[p], ChildTerminated(k))
       PROVE  /\ k # Root /\ Parent[k] = p
              /\ Plain(k) => k \in children[p] /\ state'[k] = "terminated"
  <2>1. CASE Holds(r[p], ChildTerminated(k))
    BY <1>1, <1>8, <2>1, Zenon
  <2>2. CASE k = c /\ c # Root /\ p = Parent[c]
    BY <1>1, <1>2, <2>2 DEF TreeInv, NoOrphan, Plain
  <2> QED BY <1>7, <1>10, <1>12, <2>1, <2>2
<1>13. \A p, k \in Cells : Plain(k) => Once(sysq'[p], k)
  BY <1>8, <1>10, <1>11
<1>14. \A p \in Cells : \A x \in children'[p] :
          x \in Cells \ {Root} /\ Parent[x] = p /\ state'[x] # "none"
  BY <1>1 DEF TreeInv
<1>15. \A p \in Cells : \A x, d \in children'[p] : Name[x] = Name[d] => x = d
  BY <1>1 DEF TreeInv
<1> QED BY <1>1, <1>3, <1>4, <1>12, <1>13, <1>14, <1>15 DEF TreeInv, Holds, Once

\* onChildTerminated removes namesakes of the child it is about; where none was
\* revived, that is the child itself.
LEMMA ChildRemoved ==
    ASSUME TypeOK, TreeInv, NEW p \in Cells, OnChildTerminated(p)
    PROVE  /\ \A d \in Cells : children'[d] \subseteq children[d]
           /\ \A d \in Cells \ {p} : children'[d] = children[d]
           /\ \A x \in children[p] : Plain(x) /\ x \notin children'[p] =>
                 state[x] = "terminated" /\ ~Holds(Rest(p)[p], ChildTerminated(x))
<1> DEFINE k == Head(sysq[p]).child
<1>1. sysq[p] # <<>> /\ sysq[p] \in Seq(Command) /\ Head(sysq[p]).kind = "childTerminated"
  BY Zenon DEF OnChildTerminated, Takes, TypeOK
<1>2. Head(sysq[p]) \in Command
  BY <1>1
<1>3. k \in Cells /\ Head(sysq[p]) = ChildTerminated(k)
  BY <1>1, <1>2 DEF Command, ChildTerminated
<1>4. Holds(sysq[p], ChildTerminated(k))
  BY <1>1, <1>3 DEF Holds
<1>5. /\ k # Root /\ Parent[k] = p
      /\ Plain(k) => k \in children[p] /\ state[k] = "terminated"
  BY <1>3, <1>4 DEF TreeInv
<1>6. children' = [children EXCEPT ![p] = {x \in @ : Name[x] # Name[k]}]
  BY DEF OnChildTerminated
<1> HIDE DEF k
<1>7. \A d \in Cells : children'[d] = IF d = p THEN {x \in children[p] : Name[x] # Name[k]}
                                      ELSE children[d]
  BY <1>6 DEF TypeOK
<1>8. ASSUME NEW x \in children[p], Plain(x), x \notin children'[p]
      PROVE  state[x] = "terminated" /\ ~Holds(Rest(p)[p], ChildTerminated(x))
  <2>1. Name[x] = Name[k]
    BY <1>7, <1>8, Zenon
  <2>2. x \in Cells \ {Root} /\ Parent[x] = p
    BY <1>8 DEF TreeInv
  <2>3. Plain(k)
    BY <1>3, <1>5, <1>8, <2>1, <2>2, NamesakesAlike DEF Plain
  <2>4. x = k
    BY <1>5, <2>1, <2>3 DEF TreeInv
  <2>5. Rest(p)[p] = Tail(sysq[p]) /\ Once(sysq[p], k)
    BY <1>3, <2>3 DEF Rest, TypeOK, TreeInv
  <2> QED BY <1>1, <1>3, <1>5, <2>3, <2>4, <2>5, TailLane
<1> QED BY <1>7, <1>8, Zenon

LEMMA TreeInit == Init => TreeInv
<1> SUFFICES ASSUME Init PROVE TreeInv
  OBVIOUS
<1>1. NoOrphan
  BY DEF Init, NoOrphan, Alive
<1>2. \A p, k \in Cells : ~Holds(sysq[p], ChildTerminated(k))
  BY DEF Init, Holds, Create, ChildTerminated
<1>3. \A p, k \in Cells : Once(sysq[p], k)
  BY <1>2 DEF Once, Holds
<1> QED BY <1>1, <1>2, <1>3, Zenon DEF Init, TreeInv

LEMMA TreeChildTerminated ==
    ASSUME TypeOK, TreeInv, NEW p \in Cells, OnChildTerminated(p)
    PROVE  TreeInv'
<1>1. sysq[p] # <<>> /\ Alive(p) /\ revived' = revived
  BY Zenon DEF OnChildTerminated, Takes
<1>2. Rest(p) \in [Cells -> Seq(Command)] /\ LanesKept(sysq, Rest(p))
  BY <1>1, RestType, RestKept
<1>3. SameLives
  <2>1. CASE CompleteRecreate(p, {}, Rest(p))
    BY <1>1, <2>1, CompleteRecreateLives
  <2>2. CASE AwaitPostStop(p, "stop") \/ UNCHANGED state
    BY <1>1, <2>2 DEF AwaitPostStop, SameLives, Alive, TypeOK
  <2> QED BY <2>1, <2>2 DEF OnChildTerminated
<1>4. LanesKept(Rest(p), sysq')
  BY <1>2, CompleteRecreateKept, KeptSame, Zenon DEF OnChildTerminated
<1>5. \A x \in Cells : Alive(x) <=> Alive(x)'
  BY <1>3 DEF SameLives, Alive
<1>6. \A k : Plain(k)' <=> Plain(k)
  BY <1>1 DEF Plain, Namesakes
<1>7. NoOrphan'
  <2> SUFFICES ASSUME NEW x \in Cells \ {Root}, Alive(x)', Plain(x)'
               PROVE  x \in children'[Parent[x]] /\ Alive(Parent[x])'
    BY DEF NoOrphan, Alive, Plain, Namesakes
  <2>1. Alive(x) /\ Plain(x) /\ Parent[x] \in Cells
    BY <1>5, <1>6, TreeAssumption
  <2>2. x \in children[Parent[x]] /\ Alive(Parent[x])
    BY <2>1, Zenon DEF TreeInv, NoOrphan, Plain
  <2>3. x \in children'[Parent[x]]
    BY <2>1, <2>2, ChildRemoved DEF Alive
  <2>4. Alive(Parent[x])'
    BY <1>5, <2>1, <2>2
  <2> QED BY <2>3, <2>4, Zenon
<1>8. ASSUME NEW d \in Cells, NEW j \in Cells, Holds(sysq'[d], ChildTerminated(j))
      PROVE  /\ j # Root /\ Parent[j] = d
             /\ Plain(j)' => j \in children'[d] /\ state'[j] = "terminated"
  <2>1. Holds(Rest(p)[d], ChildTerminated(j))
    BY <1>4, <1>8 DEF LanesKept
  <2>2. Holds(sysq[d], ChildTerminated(j))
    BY <1>2, <2>1 DEF LanesKept
  <2>3. /\ j # Root /\ Parent[j] = d
        /\ Plain(j) => j \in children[d] /\ state[j] = "terminated"
    BY <2>2 DEF TreeInv
  <2>4. ASSUME Plain(j) PROVE j \in children'[d] /\ state'[j] = "terminated"
    BY <1>3, <2>1, <2>3, <2>4, ChildRemoved DEF SameLives
  <2> QED BY <1>6, <2>3, <2>4
<1>9. \A d, k \in Cells : Plain(k)' => Once(sysq'[d], k)
  BY <1>2, <1>4, <1>6, Zenon DEF TreeInv, LanesKept
<1>10. \A d \in Cells : \A c \in children'[d] :
          c \in Cells \ {Root} /\ Parent[c] = d /\ state'[c] # "none"
  <2> SUFFICES ASSUME NEW d \in Cells, NEW c \in children'[d]
               PROVE  c \in Cells \ {Root} /\ Parent[c] = d /\ state'[c] # "none"
    OBVIOUS
  <2>1. c \in children[d]
    BY ChildRemoved
  <2>2. c \in Cells \ {Root} /\ Parent[c] = d /\ state[c] # "none"
    BY <2>1 DEF TreeInv
  <2> QED BY <1>3, <2>2 DEF SameLives
<1>11. \A d \in Cells : \A x, y \in children'[d] : Name[x] = Name[y] => x = y
  <2>1. \A d \in Cells : children'[d] \subseteq children[d]
    BY ChildRemoved
  <2> QED BY <2>1 DEF TreeInv
<1> QED BY <1>7, <1>8, <1>9, <1>10, <1>11 DEF TreeInv, Holds, Once

LEMMA TreeNext ==
    ASSUME TypeOK, EndingInv, TreeInv, [Next]_vars
    PROVE  TreeInv'
<1>1. ASSUME NEW c \in Cells, System(c) PROVE TreeInv'
  <2>1. CASE PostStopSettles(c)
    BY <2>1, TreeSettles
  <2>2. CASE OnChildTerminated(c)
    BY <2>2, TreeChildTerminated
  <2>3. CASE ~PostStopSettles(c) /\ ~OnChildTerminated(c)
    <3>1. state[c] # "none"
      BY <1>1, <2>3, Zenon
      DEF System, OnCreate, OnSuspend, OnResume, OnTerminate, OnRecreate, OnFailure,
                        OnRecreateTooLate, LastTurnEnds, Takes, Alive, EndingInv
    <3> QED BY <1>1, <2>3, <3>1, SystemLives, SystemKept, TreeKept
  <2> QED BY <2>1, <2>2, <2>3
<1>2. ASSUME NEW c \in Cells, HandlerThrows(c) PROVE TreeInv'
  <2>1. state[c] # "none" /\ UNCHANGED <<children, revived>> /\ sysq \in [Cells -> Seq(Command)]
    BY <1>2 DEF HandlerThrows, Ready, end, TypeOK
  <2>2. SameLives /\ LanesKept(sysq, sysq')
    BY <1>2, <2>1, FailToParentLives, FailToParentKept, Zenon DEF HandlerThrows
  <2> QED BY <2>1, <2>2, SameLivesAreLives, TreeKept
<1>3. ASSUME NEW p \in Cells, NEW c \in Cells, Spawn(p, c) PROVE TreeInv'
  <2>1. sysq \in [Cells -> Seq(Command)]
    BY DEF TypeOK
  <2>2. LanesKept(sysq, sysq')
    BY <1>3, <2>1, CommandTypes, PlainCommands, TellKept, Zenon DEF Spawn
  <2>3. /\ c # Root /\ Parent[c] = p /\ state[c] = "none" /\ Alive(p)
        /\ \A x \in children[p] : Name[x] # Name[c]
    BY <1>3, Zenon DEF Spawn, Ready, Ready, Alive
  <2>4. \A d \in Cells : state'[d] = IF d = c THEN "creating" ELSE state[d]
    BY <1>3 DEF Spawn, TypeOK
  <2>5. \A d \in Cells : children'[d] = IF d = p THEN children[p] \cup {c} ELSE children[d]
    BY <1>3 DEF Spawn, TypeOK
  <2>6. revived' = revived /\ \A k : Plain(k)' <=> Plain(k)
    BY <1>3 DEF Spawn, end, Plain, Namesakes
  <2>7. NoOrphan'
    <3> SUFFICES ASSUME NEW x \in Cells \ {Root}, Alive(x)', Plain(x)'
                 PROVE  x \in children'[Parent[x]] /\ Alive(Parent[x])'
      BY DEF NoOrphan, Alive, Plain, Namesakes
    <3>1. Parent[x] \in Cells /\ Plain(x)
      BY <2>6, TreeAssumption
    <3>2. x # c => Alive(x)
      BY <2>4 DEF Alive
    <3>3. (x = c \/ x \in children[Parent[x]]) /\ Alive(Parent[x])
      BY <2>3, <3>1, <3>2 DEF TreeInv, NoOrphan, Plain
    <3>4. x \in children'[Parent[x]]
      BY <2>3, <2>5, <3>1, <3>3, Zenon
    <3>5. Alive(Parent[x])'
      BY <2>4, <3>1, <3>3 DEF Alive
    <3> QED BY <3>4, <3>5
  <2>8. ASSUME NEW d \in Cells, NEW k \in Cells, Holds(sysq'[d], ChildTerminated(k))
        PROVE  /\ k # Root /\ Parent[k] = d
               /\ Plain(k)' => k \in children'[d] /\ state'[k] = "terminated"
    <3>1. /\ k # Root /\ Parent[k] = d
          /\ Plain(k) => k \in children[d] /\ state[k] = "terminated"
      BY <2>2, <2>8 DEF LanesKept, TreeInv
    <3> QED BY <2>3, <2>4, <2>5, <2>6, <3>1
  <2>9. \A d, k \in Cells : Plain(k)' => Once(sysq'[d], k)
    BY <2>2, <2>6 DEF TreeInv, LanesKept
  <2>10. \A d \in Cells : \A x \in children'[d] :
            x \in Cells \ {Root} /\ Parent[x] = d /\ state'[x] # "none"
    <3> SUFFICES ASSUME NEW d \in Cells, NEW x \in children'[d]
                 PROVE  x \in Cells \ {Root} /\ Parent[x] = d /\ state'[x] # "none"
      OBVIOUS
    <3>1. CASE x = c
      <4>1. x \in children[d] => d = p
        BY <2>3, <3>1 DEF TreeInv
      <4>2. d = p
        BY <2>5, <3>1, <4>1
      <4> QED BY <2>3, <2>4, <3>1, <4>2
    <3>2. CASE x # c
      <4>1. x \in children[d]
        BY <2>5, <3>2
      <4>2. x \in Cells \ {Root} /\ Parent[x] = d /\ state[x] # "none"
        BY <4>1 DEF TreeInv
      <4> QED BY <2>4, <3>2, <4>2
    <3> QED BY <3>1, <3>2
  <2>11. \A d \in Cells : \A x, y \in children'[d] : Name[x] = Name[y] => x = y
    <3> SUFFICES ASSUME NEW d \in Cells
                 PROVE  \A x, y \in children'[d] : Name[x] = Name[y] => x = y
      OBVIOUS
    <3>1. \A x, y \in children[d] : Name[x] = Name[y] => x = y
      BY DEF TreeInv
    <3>2. CASE d = p
      <4>1. children'[d] = children[p] \cup {c}
        BY <2>5, <3>2
      <4> QED BY <2>3, <3>1, <3>2, <4>1
    <3>3. CASE d # p
      BY <2>5, <3>1, <3>3
    <3> QED BY <3>2, <3>3
  <2> QED BY <2>7, <2>8, <2>9, <2>10, <2>11, Zenon DEF TreeInv, Holds, Once
<1>4. ASSUME NEW c \in Cells, StopSelf(c) PROVE TreeInv'
  <2>1. sysq \in [Cells -> Seq(Command)]
    BY DEF TypeOK
  <2>2. LanesKept(sysq, sysq')
    BY <1>4, <2>1, CommandTypes, PlainCommands, TellKept DEF StopSelf
  <2> QED BY <1>4, <2>2, TreeKept DEF StopSelf, Lives, Alive, end
<1>5. ASSUME NEW c \in Cells,
             OnTerminated(c) \/ \E x \in Cells : Stop(c, x) \/ Watch(c, x) \/ Unwatch(c, x)
      PROVE  TreeInv'
  BY <1>5, TreeKept, Zenon DEF OnTerminated, Stop, Watch, Unwatch, Lives, Alive, LanesKept, end
<1>6. ASSUME NEW c \in Cells, OnPoison(c) PROVE TreeInv'
  <2>1. SameLives /\ UNCHANGED <<children, revived>> /\ sysq \in [Cells -> Seq(Command)]
    BY <1>6 DEF OnPoison, Ready, AwaitPostStop, SameLives, TypeOK
  <2>2. LanesKept(sysq, TellAll(sysq, children[c], Terminate))
    BY <2>1, CommandTypes, PlainCommands, TellAllKept
  <2>3. LanesKept(sysq, sysq')
    BY <1>6, <2>2, KeptSame DEF OnPoison
  <2> QED BY <2>1, <2>3, SameLivesAreLives, TreeKept
<1>7. CASE UNCHANGED vars
  BY <1>7, TreeKept DEF vars, Lives, Alive, LanesKept, end
<1> QED BY <1>1, <1>2, <1>3, <1>4, <1>5, <1>6, <1>7 DEF Next, Dispatch

(***************************************************************************)
(* In every tree a live cell is registered with a live parent: no stop or  *)
(* restart leaves children behind, and a name that is used again never     *)
(* costs the new child its registration, unless a cell of that name was    *)
(* revived after its end (_createChild, onTerminate, finalizeTermination,  *)
(* onChildTerminated, onRecreate).                                         *)
(***************************************************************************)
THEOREM NeverOrphaned == Spec => []NoOrphan
<1>1. TreeInv => NoOrphan
  BY DEF TreeInv
<1> QED BY <1>1, TypeCorrect, EndingInit, EndingNext, TreeInit, TreeNext, PTL DEF Spec

-----------------------------------------------------------------------------
(* Stops that stay stops *)

Stopping(c) == state[c] \in {"terminating", "terminated"}

\* The lanes q become r: no create is added, and no cell yet to be born is told
\* anything.
Quiet(q, r) ==
    \A d \in Cells :
        /\ state[d] = "none" => r[d] = q[d]
        /\ \A i \in 1..Len(r[d]) : r[d][i].kind = "create" =>
              i \in 1..Len(q[d]) /\ q[d][i].kind = "create"

(***************************************************************************)
(* A cell that is stopping could run again by a create or by a restart:    *)
(* its create is the first command it ever takes, and it has children      *)
(* left, whose end a restart would await, or takes no command before its   *)
(* postStop has settled.  The parent of a cell that acts has been born.    *)
(***************************************************************************)
StopInv ==
    /\ \A c \in Cells : state[c] = "terminating" =>
          children[c] # {} \/ ending[c] \in {"stop", "pill"}
    /\ \A c \in Cells : state[c] = "none" => sysq[c] = <<>>
    /\ \A c \in Cells : \A i \in 1..Len(sysq[c]) :
          sysq[c][i].kind = "create" => i = 1 /\ state[c] = "creating"
    /\ \A c \in Cells \ {Root} : state[c] # "none" => state[Parent[c]] # "none"

LEMMA StopInit == Init => StopInv
BY DEF Init, StopInv, Create

LEMMA CommandKinds ==
    /\ Terminate.kind # "create" /\ Recreate.kind # "create"
    /\ Suspend.kind # "create" /\ Resume.kind # "create"
    /\ \A c : Failure(c).kind # "create" /\ ChildTerminated(c).kind # "create"
BY DEF Terminate, Recreate, Suspend, Resume, Failure, ChildTerminated

LEMMA QuietTransitive ==
    ASSUME NEW q, NEW r, NEW s, Quiet(q, r), Quiet(r, s)
    PROVE  Quiet(q, s)
BY DEF Quiet

LEMMA QuietSame == ASSUME NEW q PROVE Quiet(q, q)
BY DEF Quiet

LEMMA AppendQuiet ==
    ASSUME NEW s \in Seq(Command), NEW m \in Command, m.kind # "create"
    PROVE  \A i \in 1..Len(Append(s, m)) : Append(s, m)[i].kind = "create" =>
              i \in 1..Len(s) /\ s[i].kind = "create"
<1> SUFFICES ASSUME NEW i \in 1..Len(Append(s, m)), Append(s, m)[i].kind = "create"
             PROVE  i \in 1..Len(s) /\ s[i].kind = "create"
  OBVIOUS
<1>1. i \in 1..Len(s)
  OBVIOUS
<1>2. Append(s, m)[i] = s[i]
  BY <1>1
<1> QED BY <1>1, <1>2

LEMMA QuietTell ==
    ASSUME NEW q \in [Cells -> Seq(Command)], NEW c \in Cells, NEW m \in Command,
           m.kind # "create", state[c] # "none"
    PROVE  Quiet(q, Tell(q, c, m))
<1>1. \A d \in Cells : Tell(q, c, m)[d] = IF d = c THEN Append(q[d], m) ELSE q[d]
  BY DEF Tell
<1>2. \A d \in Cells : q[d] \in Seq(Command)
  OBVIOUS
<1>3. ASSUME NEW d \in Cells, NEW i \in 1..Len(Tell(q, c, m)[d]),
             Tell(q, c, m)[d][i].kind = "create"
      PROVE  i \in 1..Len(q[d]) /\ q[d][i].kind = "create"
  <2>1. CASE Tell(q, c, m)[d] = q[d]
    BY <1>3, <2>1
  <2>2. CASE Tell(q, c, m)[d] = Append(q[d], m)
    BY <1>2, <1>3, <2>2, AppendQuiet
  <2> QED BY <1>1, <2>1, <2>2, Zenon
<1> QED BY <1>1, <1>3 DEF Quiet

LEMMA QuietTellAll ==
    ASSUME NEW q \in [Cells -> Seq(Command)], NEW cs, NEW m \in Command,
           m.kind # "create", \A d \in Cells : d \in cs => state[d] # "none"
    PROVE  Quiet(q, TellAll(q, cs, m))
<1>1. \A d \in Cells : TellAll(q, cs, m)[d] = IF d \in cs THEN Append(q[d], m) ELSE q[d]
  BY DEF TellAll
<1>2. \A d \in Cells : q[d] \in Seq(Command)
  OBVIOUS
<1>3. ASSUME NEW d \in Cells, NEW i \in 1..Len(TellAll(q, cs, m)[d]),
             TellAll(q, cs, m)[d][i].kind = "create"
      PROVE  i \in 1..Len(q[d]) /\ q[d][i].kind = "create"
  <2>1. CASE TellAll(q, cs, m)[d] = q[d]
    BY <1>3, <2>1
  <2>2. CASE TellAll(q, cs, m)[d] = Append(q[d], m)
    BY <1>2, <1>3, <2>2, AppendQuiet
  <2> QED BY <1>1, <2>1, <2>2, Zenon
<1> QED BY <1>1, <1>3 DEF Quiet

\* The command taken is the only one that can be a create.
LEMMA QuietRest ==
    ASSUME TypeOK, StopInv, NEW c \in Cells, sysq[c] # <<>>
    PROVE  /\ Quiet(sysq, Rest(c))
           /\ \A i \in 1..Len(Rest(c)[c]) : Rest(c)[c][i].kind # "create"
<1>1. \A d \in Cells : Rest(c)[d] = IF d = c THEN Tail(sysq[d]) ELSE sysq[d]
  BY DEF Rest, TypeOK
<1>2. sysq[c] \in Seq(Command)
  BY DEF TypeOK
<1>3. \A i \in 1..Len(Tail(sysq[c])) : /\ i + 1 \in 1..Len(sysq[c]) /\ i + 1 # 1
                                       /\ Tail(sysq[c])[i] = sysq[c][i + 1]
  BY <1>2
<1>4. \A i \in 1..Len(Tail(sysq[c])) : Tail(sysq[c])[i].kind # "create"
  BY <1>3 DEF StopInv
<1>5. state[c] # "none"
  BY DEF StopInv
<1> QED BY <1>1, <1>4, <1>5, Zenon DEF Quiet

\* The cells a cell tells anything have been born.
LEMMA ToldAreBorn ==
    ASSUME TypeOK, TreeInv, StopInv, NEW c \in Cells, state[c] # "none"
    PROVE  /\ c # Root => Parent[c] \in Cells /\ state[Parent[c]] # "none"
           /\ \A d \in Cells : d \in children[c] => state[d] # "none"
BY TreeAssumption DEF TreeInv, StopInv

LEMMA QuietFailToParent ==
    ASSUME TypeOK, TreeInv, StopInv, NEW c \in Cells, state[c] # "none", NEW st,
           NEW kids \in SUBSET children[c], NEW q \in [Cells -> Seq(Command)],
           FailToParent(c, st, kids, q)
    PROVE  Quiet(q, sysq')
<1> DEFINE told == TellAll(q, kids, Suspend)
<1>1. told \in [Cells -> Seq(Command)] /\ Quiet(q, told)
  BY CommandTypes, CommandKinds, TellAllType, QuietTellAll, ToldAreBorn, Zenon
<1>2. CASE c = Root
  <2>1. Quiet(told, Tell(told, c, Terminate))
    BY <1>1, CommandTypes, CommandKinds, QuietTell, ToldAreBorn, Zenon
  <2>2. sysq' = Tell(told, c, Terminate)
    BY <1>2, Zenon DEF FailToParent
  <2> QED BY <1>1, <2>1, <2>2, QuietTransitive, Zenon
<1>3. CASE c # Root
  <2>1. Quiet(told, Tell(told, Parent[c], Failure(c)))
    BY <1>1, <1>3, CommandTypes, CommandKinds, QuietTell, ToldAreBorn, Zenon
  <2>2. sysq' = Tell(told, Parent[c], Failure(c))
    BY <1>3 DEF FailToParent
  <2> QED BY <1>1, <2>1, <2>2, QuietTransitive, Zenon
<1> QED BY <1>2, <1>3

LEMMA QuietRecreate ==
    ASSUME TypeOK, TreeInv, StopInv, NEW c \in Cells, state[c] # "none",
           NEW kids \in SUBSET children[c],
           NEW q \in [Cells -> Seq(Command)], CompleteRecreate(c, kids, q)
    PROVE  Quiet(q, sysq')
<1>1. Quiet(q, TellAll(q, kids, Resume))
  BY CommandTypes, CommandKinds, QuietTellAll, ToldAreBorn, Zenon
<1> QED BY <1>1, QuietFailToParent DEF CompleteRecreate

LEMMA QuietSettles ==
    ASSUME TypeOK, TreeInv, StopInv, NEW c \in Cells, state[c] # "none", PostStopSettles(c)
    PROVE  Quiet(sysq, sysq')
<1> DEFINE kept == IF ending[c] = "pill" THEN sysq ELSE [sysq EXCEPT ![c] = <<>>]
<1>1. kept \in [Cells -> Seq(Command)] /\ Quiet(sysq, kept)
  BY DEF Quiet, TypeOK
<1>2. sysq' = IF c = Root THEN kept ELSE Tell(kept, Parent[c], ChildTerminated(c))
  BY DEF PostStopSettles
<1> HIDE DEF kept
<1>3. c # Root => Quiet(kept, Tell(kept, Parent[c], ChildTerminated(c)))
  BY <1>1, CommandTypes, CommandKinds, QuietTell, ToldAreBorn, Zenon
<1> QED BY <1>1, <1>2, <1>3, QuietTransitive

\* One cell acts: what the others are, and what it leaves in the lanes.
Acts(c) ==
    /\ state[c] # "none" /\ state'[c] # "none"
    /\ \A d \in Cells \ {c} : /\ state'[d] = state[d] /\ children'[d] = children[d]
                              /\ ending'[d] = ending[d]
    /\ Quiet(sysq, sysq')
    /\ \A i \in 1..Len(sysq'[c]) : sysq'[c][i].kind # "create"
    /\ state'[c] = "terminating" => children'[c] # {} \/ ending'[c] \in {"stop", "pill"}
    /\ Stopping(c) /\ ending[c] # "open" => Stopping(c)'

Stays == \A d \in Cells : Stopping(d) /\ ending[d] # "open" => Stopping(d)'

LEMMA ActsKeepsStops ==
    ASSUME TypeOK, StopInv, NEW c \in Cells, Acts(c)
    PROVE  StopInv' /\ Stays
<1>1. \A d \in Cells : state'[d] = "terminating" =>
          children'[d] # {} \/ ending'[d] \in {"stop", "pill"}
  BY Zenon DEF Acts, StopInv
<1>2. \A d \in Cells : state'[d] = "none" => sysq'[d] = <<>>
  BY DEF Acts, StopInv, Quiet
<1>3. ASSUME NEW d \in Cells, NEW i \in 1..Len(sysq'[d]), sysq'[d][i].kind = "create"
      PROVE  i = 1 /\ state'[d] = "creating"
  <2>1. d # c /\ i \in 1..Len(sysq[d]) /\ sysq[d][i].kind = "create"
    BY <1>3, Zenon DEF Acts, Quiet
  <2> QED BY <2>1 DEF Acts, StopInv
<1>4. \A d \in Cells \ {Root} : state'[d] # "none" => state'[Parent[d]] # "none"
  BY TreeAssumption DEF Acts, StopInv
<1>5. Stays
  BY DEF Acts, Stopping, Stays
<1> QED BY <1>1, <1>2, <1>3, <1>4, <1>5, Zenon DEF StopInv

\* A cell that takes a system command.
LEMMA CommandActs ==
    ASSUME TypeOK, EndingInv, TreeInv, StopInv, KeepsChildren = {}, NEW c \in Cells, System(c),
           ~PostStopSettles(c), ~LastTurnEnds(c)
    PROVE  Acts(c)
<1>1. /\ sysq[c] # <<>> /\ state[c] # "none"
      /\ \/ Alive(c) /\ ending[c] = "none" /\ ~OnRecreateTooLate(c)
         \/ ending[c] = "open" /\ OnRecreateTooLate(c)
  BY Zenon DEF System, OnCreate, OnSuspend, OnResume, OnTerminate, OnRecreate, OnFailure,
         OnChildTerminated, OnRecreateTooLate, Takes, Alive, EndingInv
<1>2. /\ Rest(c) \in [Cells -> Seq(Command)] /\ Quiet(sysq, Rest(c))
      /\ \A i \in 1..Len(Rest(c)[c]) : Rest(c)[c][i].kind # "create"
  BY <1>1, RestType, QuietRest, Zenon
<1>3. \A cs \in SUBSET children[c] :
          /\ Quiet(Rest(c), TellAll(Rest(c), cs, Suspend))
          /\ Quiet(Rest(c), TellAll(Rest(c), cs, Resume))
          /\ Quiet(Rest(c), TellAll(Rest(c), cs, Terminate))
          /\ Quiet(Rest(c), TellAll(Rest(c), cs, Recreate))
  BY <1>1, <1>2, CommandTypes, CommandKinds, QuietTellAll, ToldAreBorn, Zenon
<1>4. children[c] \in SUBSET children[c] /\ {} \in SUBSET children[c]
  OBVIOUS
<1>5. SUFFICES /\ Quiet(Rest(c), sysq')
               /\ state'[c] # "none"
               /\ \A d \in Cells \ {c} : /\ state'[d] = state[d] /\ children'[d] = children[d]
                                         /\ ending'[d] = ending[d]
               /\ state'[c] = "terminating" => children'[c] # {} \/ ending'[c] \in {"stop", "pill"}
               /\ Stopping(c) /\ ending[c] # "open" => Stopping(c)'
  BY <1>1, <1>2, QuietTransitive, Zenon DEF Acts, Quiet
<1>6. ending[c] = "none" /\ state[c] = "terminating" => children[c] # {}
  BY Zenon DEF StopInv
<1>7. CASE OnCreate(c)
  <2>1. state[c] = "creating"
    <3>1. 1 \in 1..Len(sysq[c]) /\ sysq[c][1].kind = "create"
      BY <1>1, <1>7 DEF OnCreate, Takes, TypeOK
    <3> QED BY <3>1 DEF StopInv
  <2>2. Quiet(Rest(c), sysq')
    BY <1>1, <1>2, <1>4, <1>7, QuietSame, QuietFailToParent, Zenon DEF OnCreate
  <2>3. /\ state'[c] \in {"creating", "running", "suspended"}
        /\ \A d \in Cells \ {c} : state'[d] = state[d]
    BY <1>7, <2>1, Zenon DEF OnCreate, FailToParent, TypeOK
  <2>4. children' = children /\ ending' = ending
    BY <1>7 DEF OnCreate, end
  <2> QED BY <2>1, <2>2, <2>3, <2>4 DEF Stopping
<1>8. CASE OnSuspend(c) \/ OnResume(c)
  <2>1. Quiet(Rest(c), sysq') /\ children' = children /\ ending' = ending /\ ending[c] = "none"
    BY <1>3, <1>4, <1>8, Zenon DEF OnSuspend, OnResume, Takes, end
  <2>2. /\ state'[c] # state[c] => state'[c] \in {"running", "suspended"} /\ ~Stopping(c)
        /\ \A d \in Cells \ {c} : state'[d] = state[d]
    BY <1>8 DEF OnSuspend, OnResume, Stopping, TypeOK
  <2> QED BY <1>1, <1>6, <2>1, <2>2, Zenon DEF Stopping
<1>9. CASE OnTerminate(c)
  <2>1. Quiet(Rest(c), sysq') /\ children' = children /\ ending[c] = "none"
    BY <1>3, <1>4, <1>9, QuietSame, Zenon DEF OnTerminate, Takes
  <2>2. /\ state'[c] = "terminating"
        /\ \A d \in Cells \ {c} : state'[d] = state[d] /\ ending'[d] = ending[d]
        /\ state[c] = "terminating" \/ children[c] # {} \/ ending'[c] = "stop"
    BY <1>9 DEF OnTerminate, AwaitPostStop, TypeOK
  <2> QED BY <1>6, <2>1, <2>2, Zenon DEF Stopping
<1>10. CASE OnRecreate(c)
  <2>1. Quiet(Rest(c), sysq') /\ children' = children /\ ending' = ending /\ ending[c] = "none"
    BY <1>1, <1>2, <1>3, <1>4, <1>10, QuietSame, QuietRecreate, Zenon DEF OnRecreate, Takes, end
  <2>2. CASE state' = state
    BY <1>1, <1>6, <2>1, <2>2, Zenon DEF Stopping
  <2>3. CASE CompleteRecreate(c, children[c], Rest(c)) /\ children[c] = {}
    <3>1. ~Stopping(c)
      BY <1>1, <1>6, <1>10, <2>1, <2>3, Zenon DEF Stopping, Alive, OnRecreate, Takes
    <3>2. /\ state'[c] = state[c] \/ state'[c] \in {"running", "suspended"}
          /\ \A d \in Cells \ {c} : state'[d] = state[d]
      BY <2>3, Zenon DEF CompleteRecreate, FailToParent, TypeOK
    <3> QED BY <1>1, <2>1, <3>1, <3>2 DEF Stopping
  <2> QED BY <1>10, <2>2, <2>3, Zenon DEF OnRecreate
<1>11. CASE OnFailure(c)
  <2>1. \A s : \A cs \in SUBSET children[c] : Restart(c, s, cs) => Quiet(Rest(c), sysq')
    BY <1>3, Zenon DEF Restart
  <2>2. Quiet(Rest(c), sysq')
    BY <1>1, <1>2, <1>3, <1>4, <1>11, <2>1, QuietSame, QuietFailToParent, Zenon DEF OnFailure
  <2>3. /\ state'[c] # state[c] => state'[c] = "suspended" /\ ~Stopping(c)
        /\ \A d \in Cells \ {c} : state'[d] = state[d]
    BY <1>11, Zenon DEF OnFailure, FailToParent, Stopping, TypeOK
  <2>4. children' = children /\ ending' = ending /\ ending[c] = "none"
    BY <1>11, Zenon DEF OnFailure, Takes, end
  <2> QED BY <1>1, <1>6, <2>2, <2>3, <2>4, Zenon DEF Stopping
<1>12. CASE OnChildTerminated(c)
  <2>1. Quiet(Rest(c), sysq')
    <3>1. CASE CompleteRecreate(c, {}, Rest(c))
      BY <1>1, <1>2, <1>4, <3>1, QuietRecreate, Zenon
    <3>2. CASE sysq' = Rest(c)
      BY <3>2, QuietSame
    <3> QED BY <1>12, <3>1, <3>2, Zenon DEF OnChildTerminated
  <2>2. /\ \A d \in Cells \ {c} : children'[d] = children[d]
        /\ Alive(c) /\ ending[c] = "none"
    BY <1>12, Zenon DEF OnChildTerminated, Takes, TypeOK
  <2>3. CASE AwaitPostStop(c, "stop")
    <3>1. /\ state'[c] = "terminating" /\ ending'[c] = "stop"
          /\ \A d \in Cells \ {c} : state'[d] = state[d] /\ ending'[d] = ending[d]
      BY <2>3 DEF AwaitPostStop, TypeOK
    <3> QED BY <2>1, <2>2, <3>1, Zenon DEF Stopping
  <2>4. CASE /\ CompleteRecreate(c, {}, Rest(c)) /\ state[c] # "terminating"
             /\ UNCHANGED ending
    <3>1. /\ state'[c] = state[c] \/ state'[c] \in {"running", "suspended"}
          /\ \A d \in Cells \ {c} : state'[d] = state[d]
      BY <2>4, Zenon DEF CompleteRecreate, FailToParent, TypeOK
    <3> QED BY <1>1, <2>1, <2>2, <2>4, <3>1, Zenon DEF Stopping, Alive
  <2>5. CASE /\ UNCHANGED <<state, ending>>
             /\ ~(children'[c] = {} /\ state[c] = "terminating")
    BY <1>1, <2>1, <2>2, <2>5 DEF Stopping, Alive
  <2> QED BY <1>12, <2>3, <2>4, <2>5, Zenon DEF OnChildTerminated
<1>13. CASE OnRecreateTooLate(c)
  <2>1. CompleteRecreate(c, {}, Rest(c)) /\ children' = children /\ ending[c] = "open"
    BY <1>13, Zenon DEF OnRecreateTooLate
  <2>2. Quiet(Rest(c), sysq')
    BY <1>1, <1>2, <1>4, <2>1, QuietRecreate
  <2>3. state[c] = "terminated"
    BY <2>1 DEF EndingInv
  <2>4. /\ state'[c] \in {"running", "terminated"}
        /\ \A d \in Cells \ {c} : state'[d] = state[d]
    BY <2>1, <2>3, Zenon DEF CompleteRecreate, FailToParent, TypeOK
  <2>5. \A d \in Cells \ {c} : ending'[d] = ending[d]
    BY <1>13 DEF OnRecreateTooLate, TypeOK
  <2> QED BY <2>1, <2>2, <2>4, <2>5, Zenon
<1> QED BY <1>7, <1>8, <1>9, <1>10, <1>11, <1>12, <1>13, Zenon DEF System

\* postStop settles, or the turn of a PoisonPill ends.
LEMMA SettlesActs ==
    ASSUME TypeOK, EndingInv, TreeInv, StopInv, NEW c \in Cells,
           PostStopSettles(c) \/ LastTurnEnds(c)
    PROVE  Acts(c)
<1>1. state[c] \in {"terminating", "terminated"}
  BY DEF PostStopSettles, LastTurnEnds, EndingInv
<1>2. /\ state'[c] = "terminated" /\ children' = children
      /\ \A d \in Cells \ {c} : state'[d] = state[d] /\ ending'[d] = ending[d]
  BY DEF PostStopSettles, LastTurnEnds, EndingInv, TypeOK
<1>3. Quiet(sysq, sysq')
  <2>1. CASE PostStopSettles(c)
    BY <1>1, <2>1, QuietSettles
  <2>2. CASE LastTurnEnds(c)
    <3>1. sysq'[c] = <<>> /\ \A d \in Cells \ {c} : sysq'[d] = sysq[d]
      BY <2>2 DEF LastTurnEnds, TypeOK
    <3>2. Len(sysq'[c]) = 0 /\ state[c] # "none"
      BY <1>1, <3>1
    <3> QED BY <3>1, <3>2 DEF Quiet
  <2> QED BY <2>1, <2>2
<1>4. \A i \in 1..Len(sysq'[c]) : sysq'[c][i].kind # "create"
  BY <1>1, <1>3, Zenon DEF Quiet, StopInv
<1> QED BY <1>1, <1>2, <1>3, <1>4, Zenon DEF Acts, Stopping

\* A cell that handles a user message is running, and has taken its create.
LEMMA ReadyHasNoCreate ==
    ASSUME TypeOK, StopInv, NEW c \in Cells, Ready(c)
    PROVE  /\ state[c] # "none" /\ ~Stopping(c)
           /\ \A i \in 1..Len(sysq[c]) : sysq[c][i].kind # "create"
BY DEF Ready, Stopping, StopInv

LEMMA StopNext ==
    ASSUME TypeOK, EndingInv, TreeInv, StopInv, KeepsChildren = {}, [Next]_vars
    PROVE  StopInv' /\ Stays
<1> DEFINE Goal == StopInv' /\ Stays
<1>1. ASSUME NEW c \in Cells, System(c) PROVE Goal
  BY <1>1, CommandActs, SettlesActs, ActsKeepsStops
<1>2. ASSUME NEW c \in Cells, HandlerThrows(c) PROVE Goal
  <2>1. /\ Ready(c) /\ FailToParent(c, state, children[c], sysq)
        /\ children' = children /\ ending' = ending
    BY <1>2 DEF HandlerThrows, end
  <2>2. sysq \in [Cells -> Seq(Command)] /\ children[c] \in SUBSET children[c]
    BY DEF TypeOK
  <2>3. Quiet(sysq, sysq')
    BY <2>1, <2>2, ReadyHasNoCreate, QuietFailToParent, Zenon
  <2>4. /\ state'[c] = "suspended"
        /\ \A d \in Cells \ {c} : state'[d] = state[d]
    BY <2>1, Zenon DEF FailToParent, Ready, TypeOK
  <2>5. Acts(c)
    BY <2>1, <2>3, <2>4, ReadyHasNoCreate, Zenon DEF Acts, Quiet
  <2> QED BY <2>5, ActsKeepsStops
<1>3. ASSUME NEW c \in Cells, OnPoison(c) PROVE Goal
  <2>1. Ready(c) /\ children' = children /\ sysq \in [Cells -> Seq(Command)]
    BY <1>3 DEF OnPoison, TypeOK
  <2>2. Quiet(sysq, sysq')
    <3>1. Quiet(sysq, TellAll(sysq, children[c], Terminate))
      BY <2>1, ReadyHasNoCreate, CommandTypes, CommandKinds, QuietTellAll, ToldAreBorn, Zenon
    <3> QED BY <1>3, <3>1, QuietSame, Zenon DEF OnPoison
  <2>3. /\ state'[c] = "terminating" /\ (children[c] # {} \/ ending'[c] = "pill")
        /\ \A d \in Cells \ {c} : state'[d] = state[d] /\ ending'[d] = ending[d]
    BY <1>3 DEF OnPoison, AwaitPostStop, TypeOK
  <2>4. Acts(c)
    BY <2>1, <2>2, <2>3, ReadyHasNoCreate DEF Acts, Quiet, Stopping
  <2> QED BY <2>4, ActsKeepsStops
<1>4. ASSUME NEW p \in Cells, NEW c \in Cells, Spawn(p, c) PROVE Goal
  <2>1. /\ state[c] = "none" /\ sysq[c] = <<>> /\ UNCHANGED ending
        /\ Parent[c] = p /\ state[p] # "none"
    BY <1>4 DEF Spawn, StopInv, Ready, end
  <2>2. \A d \in Cells : state'[d] = IF d = c THEN "creating" ELSE state[d]
    BY <1>4, Zenon DEF Spawn, TypeOK
  <2>3. \A d \in Cells : sysq'[d] = IF d = c THEN <<Create>> ELSE sysq[d]
    <3>1. sysq' = [sysq EXCEPT ![c] = Append(<<>>, Create)] /\ sysq = [d \in Cells |-> sysq[d]]
      BY <1>4, <2>1 DEF Spawn, Tell, TypeOK
    <3>2. Append(<<>>, Create) = <<Create>>
      OBVIOUS
    <3> QED BY <3>1, <3>2
  <2>4. \A d \in Cells : children[d] \subseteq children'[d]
    BY <1>4, Zenon DEF Spawn, TypeOK
  <2>5. \A d \in Cells : state'[d] = "terminating" =>
            children'[d] # {} \/ ending'[d] \in {"stop", "pill"}
    BY <2>1, <2>2, <2>4, Zenon DEF StopInv
  <2>6. \A d \in Cells : state'[d] = "none" => sysq'[d] = <<>>
    BY <2>2, <2>3 DEF StopInv
  <2>7. \A d \in Cells : \A i \in 1..Len(sysq'[d]) :
            sysq'[d][i].kind = "create" => i = 1 /\ state'[d] = "creating"
    BY <2>2, <2>3 DEF StopInv
  <2>8. \A d \in Cells \ {Root} : state'[d] # "none" => state'[Parent[d]] # "none"
    BY <2>1, <2>2, TreeAssumption DEF StopInv
  <2>9. Stays
    BY <2>1, <2>2 DEF Stays, Stopping
  <2> QED BY <2>5, <2>6, <2>7, <2>8, <2>9 DEF StopInv
<1>5. ASSUME NEW c \in Cells, StopSelf(c) PROVE Goal
  <2>1. /\ Ready(c) /\ UNCHANGED <<state, children, ending>>
        /\ sysq' = Tell(sysq, c, Terminate)
    BY <1>5 DEF StopSelf, Works, end
  <2>2. Quiet(sysq, sysq')
    BY <2>1, ReadyHasNoCreate, CommandTypes, CommandKinds, QuietTell, ToldAreBorn, Zenon DEF TypeOK
  <2>3. Acts(c)
    BY <2>1, <2>2, ReadyHasNoCreate, Zenon DEF Acts, Quiet, Stopping
  <2> QED BY <2>3, ActsKeepsStops
<1>6. ASSUME NEW c \in Cells,
             OnTerminated(c) \/ \E x \in Cells : Stop(c, x) \/ Watch(c, x) \/ Unwatch(c, x)
      PROVE  Goal
  BY <1>6, Zenon DEF OnTerminated, Stop, Watch, Unwatch, StopInv, Stopping, Stays, end
<1>7. CASE UNCHANGED vars
  BY <1>7, Zenon DEF vars, StopInv, Stopping, Stays, end
<1> QED BY <1>1, <1>2, <1>3, <1>4, <1>5, <1>6, <1>7 DEF Next, Dispatch

(***************************************************************************)
(* In every tree whose actors stop their children on a restart (the        *)
(* default of stopChildrenOnRestart), a cell that has begun to stop never  *)
(* runs again, whatever creates, restarts and resumes are still on their   *)
(* way to it (onTerminate, onRecreate, onChildTerminated).  The exception  *)
(* is what is left of the turn in which a PoisonPill has terminated it.    *)
(***************************************************************************)
THEOREM StopNeverRevoked == ASSUME KeepsChildren = {} PROVE Spec => StopIsFinal
<1>1. TypeOK /\ EndingInv /\ TreeInv /\ StopInv /\ [Next]_vars
        => StopInv' /\ [\A c \in Cells : state[c] \in {"terminating", "terminated"}
                                         /\ ending[c] # "open"
                                         => state'[c] \in {"terminating", "terminated"}]_vars
  BY StopNext, Zenon DEF Stopping, Stays
<1>2. TypeOK /\ [Next]_vars => TypeOK'
  BY TypeNext
<1>3. TypeOK /\ EndingInv /\ [Next]_vars => EndingInv'
  BY EndingNext
<1>4. TypeOK /\ EndingInv /\ TreeInv /\ [Next]_vars => TreeInv'
  BY TreeNext
<1> QED
  BY <1>1, <1>2, <1>3, <1>4, TypeInit, EndingInit, TreeInit, StopInit, PTL DEF Spec, StopIsFinal

=============================================================================
