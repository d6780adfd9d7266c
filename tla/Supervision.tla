---------------------------- MODULE Supervision ----------------------------
(***************************************************************************)
(* The tree of actor cells: creation, failure and its supervision,         *)
(* restart, termination and death watch (internal/ActorCell.ts,            *)
(* Supervision.ts).                                                        *)
(*                                                                         *)
(* An action is one system command or one user message, handled by one     *)
(* cell.  Cells talk through queues only; the two calls that cross cells   *)
(* directly (_addWatcher, _removeWatcher) are synchronous.  The await of   *)
(* postStop is a place of its own, because the turn of a PoisonPill goes   *)
(* on behind it; what a command does before the await of any other hook no *)
(* other cell can see, so those hooks are part of the action.  CellTurn    *)
(* has the turn, its awaits and the mailbox; here the user lane keeps only *)
(* the messages the runtime itself acts on, and ordinary messages are      *)
(* taken to be always at hand.                                             *)
(***************************************************************************)
EXTENDS Integers, Sequences, FiniteSets

CONSTANTS
    Cells,          \* every cell of the run, born or not
    Root,           \* the guardian
    Parent,         \* [Cells \ {Root} -> Cells]
    Name,           \* [Cells -> names]; cells may share one, one after the other
    Strategy,       \* [Cells \ {Root} -> strategies]: applied when the cell fails
    Anew,           \* strategies supervisorStrategy() builds anew on every call
    MaxRetries,     \* maxRetries of every strategy (withinTimeRangeMs = 0)
    KeepsChildren,  \* cells whose stopChildrenOnRestart() is false
    Watchful,       \* cells whose handlers call context.watch
    Scenarios       \* bounds: the cells spawned in a run, the context calls its
                    \* handlers make, and the throws of factories, hooks and handlers

ASSUME TreeAssumption ==
    /\ Root \in Cells
    /\ Parent \in [Cells \ {Root} -> Cells]
    /\ \A c \in Cells \ {Root} : Parent[c] # c
    /\ KeepsChildren \subseteq Cells /\ Watchful \subseteq Cells
    /\ MaxRetries \in Nat
    /\ Scenarios \subseteq [cells : SUBSET Cells, work : Nat, failures : Nat]

VARIABLES
    state,          \* ActorCell.state; "none" before the cell exists
    inst,           \* ActorCell.actor: "none" until the factory has returned, then "live"
    suspended,      \* Mailbox._suspended
    sysq,           \* the system lane
    userq,          \* PoisonPill and Terminated on the user lane
    children,       \* ActorCell._children
    parked,         \* _pendingRecreate is set
    ending,         \* where the cell stands in its last turn, see LastTurn
    watching,       \* _watching
    watchers,       \* _watchers
    retries,        \* restarts on record in _restartBudget
    onRecord,       \* _restartBudgetStrategy, as a set: empty for null
    granted,        \* history: restarts each supervisor granted
    revived,        \* history: cells a restart brought back after their end
    scenario,       \* the bounds of this run
    work, failures  \* what it has spent of them

watch == <<watching, watchers>>
end == <<ending, revived>>
budget == <<retries, onRecord, granted>>
script == <<scenario, work>>
vars == <<state, inst, suspended, sysq, userq, children, parked, end, watch, budget, script,
          failures>>

CellState == {"none", "creating", "running", "suspended", "terminating", "terminated"}

\* "stop" and "pill": postStop is awaited, by the drain of the system lane or
\* by the handling of a PoisonPill.  "open": a PoisonPill terminated the cell
\* and run() goes on to its next iteration.
LastTurn == {"none", "stop", "pill", "open"}

Command == [kind : {"create", "terminate", "recreate", "suspend", "resume"}]
           \cup [kind : {"failure", "childTerminated"}, child : Cells]
Signal == [kind : {"poison"}] \cup [kind : {"terminated"}, who : Cells]

Create == [kind |-> "create"]
Terminate == [kind |-> "terminate"]
Recreate == [kind |-> "recreate"]
Suspend == [kind |-> "suspend"]
Resume == [kind |-> "resume"]
Failure(c) == [kind |-> "failure", child |-> c]
ChildTerminated(c) == [kind |-> "childTerminated", child |-> c]
Poison == [kind |-> "poison"]
Terminated(c) == [kind |-> "terminated", who |-> c]

Init ==
    /\ scenario \in Scenarios /\ work = 0 /\ failures = 0
    /\ state = [c \in Cells |-> IF c = Root THEN "creating" ELSE "none"]
    /\ inst = [c \in Cells |-> "none"]
    /\ suspended = [c \in Cells |-> FALSE]
    /\ sysq = [c \in Cells |-> IF c = Root THEN <<Create>> ELSE <<>>]
    /\ userq = [c \in Cells |-> <<>>]
    /\ children = [c \in Cells |-> {}]
    /\ parked = [c \in Cells |-> FALSE]
    /\ watching = [c \in Cells |-> {}] /\ watchers = [c \in Cells |-> {}]
    /\ ending = [c \in Cells |-> "none"]
    /\ retries = [c \in Cells |-> 0] /\ onRecord = [c \in Cells |-> {}]
    /\ granted = [c \in Cells |-> 0]
    /\ revived = {}

-----------------------------------------------------------------------------
(* enqueueSystem to one cell and to a set of cells *)

Tell(q, c, command) == [q EXCEPT ![c] = Append(@, command)]
TellAll(q, cs, command) == [c \in Cells |-> IF c \in cs THEN Append(q[c], command) ELSE q[c]]

Alive(c) == state[c] \notin {"none", "terminated"}

\* run(): the next system command of c, and the lanes without it.
Takes(c, kind) ==
    Alive(c) /\ ending[c] = "none" /\ sysq[c] # <<>> /\ Head(sysq[c]).kind = kind
Rest(c) == [sysq EXCEPT ![c] = Tail(@)]

\* run(): a user message is dequeued when the system lane is empty.
Ready(c) == state[c] = "running" /\ ~suspended[c] /\ sysq[c] = <<>>

Throws == failures < scenario.failures /\ failures' = failures + 1

\* failToParent: park c and its children, and leave the decision to the parent;
\* a guardian stops instead.  st, kids, q: the states, the children of c and
\* the system lanes as they are at the call.
FailToParent(c, st, kids, q) ==
    LET told == TellAll(q, kids, Suspend)
    IN  /\ suspended' = [suspended EXCEPT ![c] = TRUE]
        /\ state' = [st EXCEPT ![c] = IF @ = "running" THEN "suspended" ELSE @]
        /\ sysq' = IF c = Root THEN Tell(told, c, Terminate)
                               ELSE Tell(told, Parent[c], Failure(c))

-----------------------------------------------------------------------------
(* System commands *)

\* onCreate: the state is "running" before preStart is called.
OnCreate(c) ==
    /\ Takes(c, "create")
    /\ LET started == [state EXCEPT ![c] = "running"]
       IN  \/ /\ inst' = [inst EXCEPT ![c] = "live"]
              /\ state' = started
              /\ sysq' = Rest(c)
              /\ UNCHANGED <<suspended, failures>>
           \/ /\ Throws                                  \* preStart
              /\ inst' = [inst EXCEPT ![c] = "live"]
              /\ FailToParent(c, started, children[c], Rest(c))
           \/ /\ Throws                                  \* the factory
              /\ UNCHANGED inst
              /\ FailToParent(c, state, children[c], Rest(c))
    /\ UNCHANGED <<userq, children, parked, end, watch, budget, script>>

OnSuspend(c) ==
    /\ Takes(c, "suspend")
    /\ suspended' = [suspended EXCEPT ![c] = TRUE]
    /\ state' = [state EXCEPT ![c] = IF @ = "running" THEN "suspended" ELSE @]
    /\ sysq' = TellAll(Rest(c), children[c], Suspend)
    /\ UNCHANGED <<inst, userq, children, parked, end, watch, budget, script, failures>>

\* Mutant: the children are left suspended.
OnResumeAlone(c) ==
    /\ Takes(c, "resume")
    /\ suspended' = [suspended EXCEPT ![c] = FALSE]
    /\ state' = [state EXCEPT ![c] = IF @ = "suspended" THEN "running" ELSE @]
    /\ sysq' = Rest(c)
    /\ UNCHANGED <<inst, userq, children, parked, end, watch, budget, script, failures>>

OnResume(c) ==
    /\ Takes(c, "resume")
    /\ suspended' = [suspended EXCEPT ![c] = FALSE]
    /\ state' = [state EXCEPT ![c] = IF @ = "suspended" THEN "running" ELSE @]
    /\ sysq' = TellAll(Rest(c), children[c], Resume)
    /\ UNCHANGED <<inst, userq, children, parked, end, watch, budget, script, failures>>

\* onTerminate and the end of the wait for the children, up to the await of
\* postStop in finalizeTermination.
AwaitPostStop(c, place) ==
    /\ state' = [state EXCEPT ![c] = "terminating"]
    /\ ending' = [ending EXCEPT ![c] = place]

\* Mutant: the children are not told.
OnTerminateAlone(c) ==
    /\ Takes(c, "terminate")
    /\ IF children[c] = {}
       THEN AwaitPostStop(c, "stop")
       ELSE state' = [state EXCEPT ![c] = "terminating"] /\ UNCHANGED ending
    /\ sysq' = Rest(c)
    /\ UNCHANGED <<inst, suspended, userq, children, parked, watch, budget, revived, script,
                   failures>>

OnTerminate(c) ==
    /\ Takes(c, "terminate")
    /\ IF state[c] = "terminating"
       THEN sysq' = Rest(c) /\ UNCHANGED <<state, ending>>
       ELSE IF children[c] = {}
       THEN sysq' = Rest(c) /\ AwaitPostStop(c, "stop")
       ELSE /\ state' = [state EXCEPT ![c] = "terminating"]
            /\ sysq' = TellAll(Rest(c), children[c], Terminate)
            /\ UNCHANGED ending
    /\ UNCHANGED <<inst, suspended, userq, children, parked, watch, budget, revived, script,
                   failures>>

(***************************************************************************)
(* The rest of finalizeTermination: dead letters, every watcher told once, *)
(* every watch of c withdrawn, and the parent told last.  A drain of the   *)
(* system lane then returns, and what is left in the lane is never read;   *)
(* the turn of a PoisonPill goes on.                                       *)
(***************************************************************************)
PostStopSettles(c) ==
    /\ ending[c] \in {"stop", "pill"}
    /\ state' = [state EXCEPT ![c] = "terminated"]
    /\ ending' = [ending EXCEPT ![c] = IF @ = "pill" THEN "open" ELSE "none"]
    /\ userq' = [w \in Cells |->
                   IF w = c THEN <<>>
                   ELSE IF w \in watchers[c] /\ state[w] # "terminated"
                        THEN Append(userq[w], Terminated(c)) ELSE userq[w]]
    /\ watchers' = [x \in Cells |-> IF x = c THEN {} ELSE IF x \in watching[c]
                                   THEN watchers[x] \ {c} ELSE watchers[x]]
    /\ watching' = [watching EXCEPT ![c] = {}]
    /\ sysq' = LET kept == IF ending[c] = "pill" THEN sysq ELSE [sysq EXCEPT ![c] = <<>>]
               IN  IF c = Root THEN kept ELSE Tell(kept, Parent[c], ChildTerminated(c))
    /\ UNCHANGED <<inst, suspended, children, parked, budget, revived, script, failures>>

\* The turn of the PoisonPill ends: its batch is full, or the next command is
\* none that does anything to a terminated cell.
LastTurnEnds(c) ==
    /\ ending[c] = "open"
    /\ ending' = [ending EXCEPT ![c] = "none"]
    /\ sysq' = [sysq EXCEPT ![c] = <<>>]
    /\ UNCHANGED <<state, inst, suspended, userq, children, parked, watch, budget, revived, script,
                   failures>>

\* completeRecreate: a fresh instance, and the lanes of c and its children
\* reopened; or the factory (the old instance stays) or postRestart throws.
CompleteRecreate(c, kids, q) ==
    \/ /\ inst' = [inst EXCEPT ![c] = "live"]
       /\ suspended' = [suspended EXCEPT ![c] = FALSE]
       /\ state' = [state EXCEPT ![c] = "running"]
       /\ sysq' = TellAll(q, kids, Resume)
       /\ UNCHANGED failures
    \/ /\ Throws
       /\ inst' = [inst EXCEPT ![c] = "live"]
       /\ FailToParent(c, state, kids, q)

OnRecreate(c) ==
    /\ Takes(c, "recreate")
    /\ IF inst[c] = "none"
       THEN /\ sysq' = Rest(c) /\ UNCHANGED <<inst, state, suspended, parked, failures>>
       ELSE IF c \notin KeepsChildren /\ children[c] # {}
       THEN /\ parked' = [parked EXCEPT ![c] = TRUE]
            /\ sysq' = TellAll(Rest(c), children[c], Terminate)
            /\ UNCHANGED <<inst, state, suspended, failures>>
       ELSE CompleteRecreate(c, children[c], Rest(c)) /\ UNCHANGED parked
    /\ UNCHANGED <<userq, children, end, watch, budget, script>>

\* onRecreate on a cell that a PoisonPill terminated: it asks for the actor
\* only, which is still there.
OnRecreateTooLate(c) ==
    /\ ending[c] = "open" /\ sysq[c] # <<>> /\ Head(sysq[c]) = Recreate
    /\ CompleteRecreate(c, {}, Rest(c))
    /\ ending' = [ending EXCEPT ![c] = "none"]
    /\ revived' = IF state'[c] = "running" THEN revived \cup {c} ELSE revived
    /\ UNCHANGED <<userq, children, parked, watch, budget, script>>

(***************************************************************************)
(* onFailure: the strategy is the user's, so any directive and either      *)
(* scope may come out of it.  registerRestart counts granted restarts.     *)
(***************************************************************************)
\* The budget registerRestart asks: a new one unless the strategy is the one
\* on record.
Spent(p, strategy) ==
    IF strategy \notin Anew /\ onRecord[p] = {strategy} THEN retries[p] ELSE 0

\* Mutant: one restart too many.
WithinLimitInclusive(p, strategy) == Spent(p, strategy) <= MaxRetries

WithinLimit(p, strategy) == Spent(p, strategy) < MaxRetries

\* Directive.Restart: granted, or the affected cells are stopped instead.
Restart(p, strategy, affected) ==
    /\ onRecord' = [onRecord EXCEPT ![p] = {strategy}]
    /\ IF WithinLimit(p, strategy)
       THEN /\ retries' = [retries EXCEPT ![p] = Spent(p, strategy) + 1]
            /\ granted' = [granted EXCEPT ![p] = @ + 1]
            /\ sysq' = TellAll(Rest(p), affected, Recreate)
       ELSE /\ retries' = [retries EXCEPT ![p] = Spent(p, strategy)]
            /\ sysq' = TellAll(Rest(p), affected, Terminate)
            /\ UNCHANGED granted

OnFailure(p) ==
    /\ Takes(p, "failure")
    /\ LET child == Head(sysq[p]).child
       IN  IF child \notin children[p]
           THEN sysq' = Rest(p) /\ UNCHANGED <<state, suspended, budget>>
           ELSE \/ /\ \E affected \in {{child}, children[p]} :
                        \/ Restart(p, Strategy[child], affected)
                        \/ \E answer \in {Resume, Terminate} :
                              sysq' = TellAll(Rest(p), affected, answer) /\ UNCHANGED budget
                   /\ UNCHANGED <<state, suspended>>
                \/ /\ FailToParent(p, state, children[p], Rest(p))       \* Escalate
                   /\ UNCHANGED budget
    /\ UNCHANGED <<inst, userq, children, parked, end, watch, script, failures>>

\* Mutant: a parked restart is completed on a cell that is stopping.
OnChildTerminatedRevives(p) ==
    /\ Takes(p, "childTerminated")
    /\ children' = [children EXCEPT ![p] =
                      {x \in @ : Name[x] # Name[Head(sysq[p]).child]}]
    /\ LET last == children'[p] = {}
       IN  /\ parked' = [parked EXCEPT ![p] = @ /\ ~last]
           /\ IF last /\ parked[p]
              THEN CompleteRecreate(p, {}, Rest(p)) /\ UNCHANGED ending
              ELSE IF last /\ state[p] = "terminating"
              THEN /\ sysq' = Rest(p) /\ AwaitPostStop(p, "stop")
                   /\ UNCHANGED <<inst, suspended, failures>>
              ELSE sysq' = Rest(p) /\ UNCHANGED <<state, inst, suspended, ending, failures>>
    /\ UNCHANGED <<userq, watch, budget, revived, script>>

\* onChildTerminated: children are registered, and removed, by name.
OnChildTerminated(p) ==
    /\ Takes(p, "childTerminated")
    /\ children' = [children EXCEPT ![p] =
                      {x \in @ : Name[x] # Name[Head(sysq[p]).child]}]
    /\ LET last == children'[p] = {}
       IN  /\ parked' = [parked EXCEPT ![p] = @ /\ ~last]
           /\ IF last /\ state[p] = "terminating"
              THEN /\ sysq' = Rest(p) /\ AwaitPostStop(p, "stop")
                   /\ UNCHANGED <<inst, suspended, failures>>
              ELSE IF last /\ parked[p]
              THEN CompleteRecreate(p, {}, Rest(p)) /\ UNCHANGED ending
              ELSE sysq' = Rest(p) /\ UNCHANGED <<state, inst, suspended, ending, failures>>
    /\ UNCHANGED <<userq, watch, budget, revived, script>>

-----------------------------------------------------------------------------
(* User messages *)

\* The handler of an ordinary message makes a context call.
Works(c) == Ready(c) /\ work < scenario.work /\ work' = work + 1 /\ UNCHANGED scenario

\* The handler throws.
HandlerThrows(c) ==
    /\ Ready(c) /\ Throws
    /\ FailToParent(c, state, children[c], sysq)
    /\ UNCHANGED <<inst, userq, children, parked, end, watch, budget, script>>

\* Mutant: the name may be taken.
SpawnAnyName(p, c) ==
    /\ Ready(p)
    /\ c # Root /\ Parent[c] = p /\ state[c] = "none" /\ c \in scenario.cells
    /\ state' = [state EXCEPT ![c] = "creating"]
    /\ sysq' = Tell(sysq, c, Create)
    /\ children' = [children EXCEPT ![p] = @ \cup {c}]
    /\ UNCHANGED <<inst, suspended, userq, parked, end, watch, budget, script, failures>>

\* context.spawn: refused while the name is taken.
Spawn(p, c) ==
    /\ Ready(p)
    /\ c # Root /\ Parent[c] = p /\ state[c] = "none" /\ c \in scenario.cells
    /\ \A x \in children[p] : Name[x] # Name[c]
    /\ state' = [state EXCEPT ![c] = "creating"]
    /\ sysq' = Tell(sysq, c, Create)
    /\ children' = [children EXCEPT ![p] = @ \cup {c}]
    /\ UNCHANGED <<inst, suspended, userq, parked, end, watch, budget, script, failures>>

\* context.stopSelf.
StopSelf(c) ==
    /\ Works(c)
    /\ sysq' = Tell(sysq, c, Terminate)
    /\ UNCHANGED <<state, inst, suspended, userq, children, parked, end, watch, budget, failures>>

\* postUserMessage / postSignalEnvelope: a terminated cell takes nothing more.
Post(c, signal) == userq' = IF Alive(c) THEN [userq EXCEPT ![c] = Append(@, signal)] ELSE userq

\* context.stop: a PoisonPill, from whoever holds the ref.
Stop(c, x) ==
    /\ Works(c)
    /\ x # c /\ Alive(x)
    /\ Post(x, Poison)
    /\ UNCHANGED <<state, inst, suspended, sysq, children, parked, end, watch, budget, failures>>

\* Mutant: a target that is gone is not noticed.
WatchUnanswered(c, x) ==
    /\ Works(c)
    /\ c \in Watchful /\ x # c /\ state[x] # "none" /\ x \notin watching[c]
    /\ watching' = [watching EXCEPT ![c] = @ \cup {x}]
    /\ watchers' = [watchers EXCEPT ![x] = @ \cup {c}]
    /\ UNCHANGED <<state, inst, suspended, sysq, userq, children, parked, end, budget, failures>>

\* registerWatch and _addWatcher: a target that is gone answers at once.
Watch(c, x) ==
    /\ Works(c)
    /\ c \in Watchful /\ x # c /\ state[x] # "none" /\ x \notin watching[c]
    /\ watching' = [watching EXCEPT ![c] = @ \cup {x}]
    /\ IF state[x] = "terminated"
       THEN Post(c, Terminated(x)) /\ UNCHANGED watchers
       ELSE watchers' = [watchers EXCEPT ![x] = @ \cup {c}] /\ UNCHANGED userq
    /\ UNCHANGED <<state, inst, suspended, sysq, children, parked, end, budget, failures>>

Unwatch(c, x) ==
    /\ Works(c)
    /\ x \in watching[c]
    /\ watching' = [watching EXCEPT ![c] = @ \ {x}]
    /\ watchers' = [watchers EXCEPT ![x] = @ \ {c}]
    /\ UNCHANGED <<state, inst, suspended, sysq, userq, children, parked, end, budget, failures>>

\* handleUserMessage on a PoisonPill: onTerminate.
OnPoison(c) ==
    /\ Ready(c) /\ userq[c] # <<>> /\ Head(userq[c]) = Poison
    /\ userq' = [userq EXCEPT ![c] = Tail(@)]
    /\ IF children[c] = {}
       THEN AwaitPostStop(c, "pill") /\ UNCHANGED sysq
       ELSE /\ state' = [state EXCEPT ![c] = "terminating"]
            /\ sysq' = TellAll(sysq, children[c], Terminate)
            /\ UNCHANGED ending
    /\ UNCHANGED <<inst, suspended, children, parked, watch, budget, revived, script, failures>>

\* _dispatchToBehavior on a Terminated: delivered if still watched, which ends
\* the watch; a dead letter otherwise.
OnTerminated(c) ==
    /\ Ready(c) /\ userq[c] # <<>> /\ Head(userq[c]).kind = "terminated"
    /\ userq' = [userq EXCEPT ![c] = Tail(@)]
    /\ watching' = [watching EXCEPT ![c] = @ \ {Head(userq[c]).who}]
    /\ UNCHANGED <<state, inst, suspended, sysq, children, parked, end, watchers, budget, script,
                   failures>>

-----------------------------------------------------------------------------
System(c) ==
    \/ OnCreate(c) \/ OnSuspend(c) \/ OnResume(c) \/ OnTerminate(c) \/ OnRecreate(c)
    \/ OnFailure(c) \/ OnChildTerminated(c)
    \/ PostStopSettles(c) \/ OnRecreateTooLate(c) \/ LastTurnEnds(c)

Dispatch(c) == System(c) \/ OnPoison(c) \/ OnTerminated(c)

Next == \E c \in Cells :
    \/ Dispatch(c)
    \/ HandlerThrows(c) \/ StopSelf(c)
    \/ \E x \in Cells : Spawn(c, x) \/ Stop(c, x) \/ Watch(c, x) \/ Unwatch(c, x)

Spec == Init /\ [][Next]_vars

\* While a cell has work, some cell gets a turn (NoLostWakeup of CellTurn) and
\* its hooks settle.
FairSpec == Spec /\ WF_vars(\E c \in Cells : Dispatch(c))

-----------------------------------------------------------------------------
(* Properties *)

TypeOK ==
    /\ state \in [Cells -> CellState]
    /\ inst \in [Cells -> {"none", "live"}]
    /\ suspended \in [Cells -> BOOLEAN]
    /\ sysq \in [Cells -> Seq(Command)]
    /\ userq \in [Cells -> Seq(Signal)]
    /\ children \in [Cells -> SUBSET Cells]
    /\ parked \in [Cells -> BOOLEAN]
    /\ watching \in [Cells -> SUBSET Cells] /\ watchers \in [Cells -> SUBSET Cells]
    /\ ending \in [Cells -> LastTurn]
    /\ retries \in [Cells -> 0..MaxRetries]
    /\ granted \in [Cells -> Nat] /\ revived \subseteq Cells
    /\ scenario \in Scenarios
    /\ work \in 0..scenario.work /\ failures \in 0..scenario.failures

(***************************************************************************)
(* What the guide says of the budget: maxRetries = n tolerates n + 1       *)
(* restarts, the failure after them stops the child, and the count is      *)
(* never reset (supervision.mdx).                                          *)
(***************************************************************************)
RestartsAsDocumented ==
    \A p \in Cells : Takes(p, "failure") /\ Head(sysq[p]).child \in children[p]
        => (WithinLimit(p, Strategy[Head(sysq[p]).child]) <=> granted[p] < MaxRetries + 1)

(***************************************************************************)
(* No orphan: a cell that lives is registered with its parent, and its     *)
(* parent has not terminated.  Children stop before their parent does, and *)
(* removing them by name never removes a successor of the same name.  The  *)
(* exception is a name under which a restart has revived a cell after its  *)
(* end: the parent drops that cell, and its second end drops a successor.  *)
(***************************************************************************)
Namesakes(c) == {x \in Cells \ {Root} : Parent[x] = Parent[c] /\ Name[x] = Name[c]}

NoOrphan ==
    \A c \in Cells \ {Root} : Alive(c) /\ Namesakes(c) \cap revived = {}
                              => c \in children[Parent[c]] /\ Alive(Parent[c])

(***************************************************************************)
(* No death goes unannounced: while c watches x, either x knows of c, or   *)
(* the Terminated of x is on its way to c.  Crosses watch, unwatch, watch  *)
(* again, and termination of either side between any two of them.          *)
(***************************************************************************)
Announced(c, x) == \E i \in 1..Len(userq[c]) : userq[c][i] = Terminated(x)

NoDeathMissed ==
    \A c, x \in Cells : x \in watching[c] =>
        /\ Alive(c)
        /\ Alive(x) => c \in watchers[x] \/ (x \in revived /\ Announced(c, x))
        /\ ~Alive(x) => Announced(c, x)

(***************************************************************************)
(* A stop is final: a cell that waits for its children or for postStop, or *)
(* whose last turn is over, never runs again, whatever restarts and        *)
(* resumes are on their way to it.  The one way back is a restart that     *)
(* meets the turn of a PoisonPill which still goes on (onRecreate looks at *)
(* the actor only).                                                        *)
(***************************************************************************)
StopIsFinal ==
    [][\A c \in Cells : state[c] \in {"terminating", "terminated"} /\ ending[c] # "open"
                        => state'[c] \in {"terminating", "terminated"}]_vars

(***************************************************************************)
(* An order to stop is carried out, whatever failures, escalations and     *)
(* parked restarts happen in the tree meanwhile: a moment comes when no    *)
(* cell is on its way to its end.                                          *)
(***************************************************************************)
StopCompletes ==
    (\E c \in Cells : state[c] = "terminating") ~> \A c \in Cells : state[c] # "terminating"

(***************************************************************************)
(* Every suspension of an actor that was built ends: a failing actor is    *)
(* resumed, restarted or stopped, and so is the subtree suspended with it, *)
(* unless a cell was revived after its end: its parent has dropped it, and *)
(* answers none of its failures.                                           *)
(***************************************************************************)
Held(c) == suspended[c] /\ inst[c] # "none" /\ state[c] # "terminated"

SuspensionEnds == (\E c \in Cells : Held(c)) ~> (\A c \in Cells : ~Held(c)) \/ revived # {}

=============================================================================
