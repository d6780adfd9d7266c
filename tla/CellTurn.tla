------------------------------ MODULE CellTurn ------------------------------
(***************************************************************************)
(* One actor cell and its dispatcher turn: internal/ActorCell.ts (run,     *)
(* schedule, the system-command handlers, stash, throttle) over the queue  *)
(* of BoundedMailbox.                                                      *)
(*                                                                         *)
(* JavaScript runs to completion between awaits, so an action is the code  *)
(* between two points where the cell can be suspended: the start of a      *)
(* turn, one system command, one user message, and the awaits inside them  *)
(* (a handler, preStart, preRestart, postRestart, postStop).  `turn` is    *)
(* where the cell's one unit of dispatched work stands.  A handler that    *)
(* returns nothing does not yield, but one that returns a promise may, so  *)
(* every interleaving between the steps of a turn is one some actor has.   *)
(***************************************************************************)
EXTENDS BoundedMailbox, FiniteSets

CONSTANTS
    Capacity,       \* capacity of the bounded mailbox
    Throughput,     \* user messages per turn
    Burst,          \* capacity of the throttle's token bucket
    StashCapacity,  \* DEFAULT_STASH_CAPACITY
    StopChildrenOnRestart,  \* Actor.stopChildrenOnRestart(), TRUE by default
    MaxMessages,    \* bound: messages posted to the cell
    MaxCommands,    \* bound: unsolicited supervision commands
    MaxCalls,       \* bound: context calls (stash, unstashAll, throttle, spawn)
    MaxFailures,    \* bound: handler and hook failures
    MaxChildren     \* bound: live children

ASSUME ConstantsAssumption ==
    /\ Capacity \in Nat \ {0} /\ Throughput \in Nat \ {0} /\ Burst \in Nat \ {0}
    /\ StashCapacity \in Nat /\ StopChildrenOnRestart \in BOOLEAN
    /\ MaxMessages \in Nat /\ MaxCommands \in Nat /\ MaxCalls \in Nat
    /\ MaxFailures \in Nat /\ MaxChildren \in Nat

VARIABLES
    state,          \* ActorCell.state
    actor,          \* ActorCell.actor is not null
    overflow,       \* the mailbox's overflow policy, fixed at construction
    suspended,      \* Mailbox._suspended
    queue,          \* the user lane
    sysq,           \* the system lane: a sequence of command kinds
    stash,          \* ActorCell._stashBuffer
    current,        \* ActorCell._currentEnvelope: <<>> or <<envelope>>
    processing,     \* ActorCell.processing
    turn,           \* where the dispatched turn stands, "off" when there is none
    handled,        \* loop counter of run()
    throttle,       \* "none", "pause" or "drop": the bucket and its onExcess
    tokens,         \* tokens left in the bucket
    timer,          \* _throttleResumeTimer is armed
    children,       \* number of live children
    parked,         \* _pendingRecreate is set
    owed,           \* suspensions the supervisor has yet to answer
    posted,         \* messages posted so far; the next one is posted + 1
    log,            \* what became of each message (history)
    replayed,       \* unstashAll ran during the current handler (history)
    lateStash,      \* some handler stashed after replaying (history)
    commands, calls, failures   \* budgets spent

lane == <<queue, sysq, suspended, overflow>>
life == <<state, actor, children, parked, owed>>
pace == <<throttle, tokens, timer>>
keep == <<stash, current, replayed, lateStash>>
book == <<posted, log>>
budget == <<commands, calls, failures>>
vars == <<lane, life, pace, keep, book, budget, processing, turn, handled>>

Envelope == [id : 1..MaxMessages, undroppable : BOOLEAN]
Commands == {"create", "terminate", "recreate", "suspend", "resume", "childTerminated"}

\* The hooks a turn awaits; "pillStop" is the postStop of a PoisonPill.
Hooks == {"preStart", "preRestart", "postRestart", "postStop", "pillStop"}
Stopping == state \in {"terminating", "terminated"}

HasMessages == sysq # <<>> \/ (~suspended /\ queue # <<>>)

\* hasDispatchableWork: an armed resume timer parks the user lane.
HasDispatchableWork == IF timer THEN sysq # <<>> ELSE HasMessages

Outcome(env, how) == [env |-> env, how |-> how]
Outcomes(envs, how) == {Outcome(envs[i], how) : i \in 1..Len(envs)}

Init ==
    /\ state = "creating" /\ actor = FALSE /\ children = 0 /\ parked = FALSE /\ owed = 0
    /\ overflow \in Policies
    /\ suspended = FALSE /\ queue = <<>> /\ sysq = <<"create">>
    /\ stash = <<>> /\ current = <<>> /\ replayed = FALSE /\ lateStash = FALSE
    /\ processing = TRUE /\ turn = "queued" /\ handled = 0
    /\ throttle = "none" /\ tokens = 0 /\ timer = FALSE
    /\ posted = 0 /\ log = {}
    /\ commands = 0 /\ calls = 0 /\ failures = 0

-----------------------------------------------------------------------------
(* Arming and ending a turn *)

\* schedule(), called after a change the caller has made.
Schedule ==
    LET arm == ~processing /\ state' # "terminated" /\ HasDispatchableWork'
    IN  /\ processing' = (processing \/ arm)
        /\ turn' = IF arm THEN "queued" ELSE turn

\* Mutant: the finally of run() clears the flag and does not look again.
EndTurnForgets == processing' = FALSE /\ turn' = "off" /\ handled' = 0

\* The finally of run().
EndTurn ==
    LET again == state' # "terminated" /\ HasDispatchableWork'
    IN  /\ processing' = again
        /\ turn' = IF again THEN "queued" ELSE "off"
        /\ handled' = 0

\* throttle(), cancelThrottle() and the resume timer wake a running cell only.
ScheduleIfRunning ==
    IF state = "running" /\ HasMessages THEN Schedule ELSE UNCHANGED <<processing, turn>>

-----------------------------------------------------------------------------
(* Arrivals, from any other part of the program *)

\* postUserMessage: a dead letter after termination, else enqueue and schedule.
PostUserMessage ==
    /\ posted < MaxMessages
    /\ posted' = posted + 1
    /\ UNCHANGED <<sysq, suspended, overflow, life, pace, keep, budget, handled>>
    /\ LET env == [id |-> posted + 1, undroppable |-> FALSE]
           r == Enqueue(queue, env, Capacity, overflow)
       IN  IF state = "terminated"
           THEN /\ log' = log \cup {Outcome(env, "dead")}
                /\ UNCHANGED <<queue, processing, turn>>
           ELSE IF r.refused
           THEN /\ log' = log \cup {Outcome(env, "refused")}
                /\ UNCHANGED <<queue, processing, turn>>
           ELSE /\ queue' = r.queue
                /\ log' = log \cup Outcomes(r.dropped, "dropped")
                /\ Schedule

\* postSignalEnvelope: a Terminated, marked undroppable and exempt from the bound.
PostSignal ==
    /\ posted < MaxMessages
    /\ posted' = posted + 1
    /\ UNCHANGED <<sysq, suspended, overflow, life, pace, keep, budget, handled>>
    /\ LET env == [id |-> posted + 1, undroppable |-> TRUE]
       IN  IF state = "terminated"
           THEN /\ log' = log \cup {Outcome(env, "dead")}
                /\ UNCHANGED <<queue, processing, turn>>
           ELSE /\ queue' = EnqueueSignal(queue, env)
                /\ UNCHANGED log
                /\ Schedule

EnqueueSystem(command) == sysq' = Append(sysq, command)

\* An unsolicited command: an ancestor suspends the subtree, a sibling's
\* failure restarts it (all-for-one), or somebody stops it.
Supervise(command) ==
    /\ commands < MaxCommands
    /\ commands' = commands + 1
    /\ owed' = owed + (IF command = "suspend" THEN 1 ELSE 0)
    /\ EnqueueSystem(command)
    /\ UNCHANGED <<queue, suspended, overflow, state, actor, children, parked, pace, keep,
                   book, calls, failures, handled>>
    /\ Schedule

\* The answer to a suspension: a directive, or an ancestor's resume.
Decide(command) ==
    /\ owed > 0
    /\ owed' = owed - 1
    /\ EnqueueSystem(command)
    /\ UNCHANGED <<queue, suspended, overflow, state, actor, children, parked, pace, keep,
                   book, budget, handled>>
    /\ Schedule

\* A child finished stopping: its finalizeTermination tells the parent.
ChildStops ==
    /\ Len(SelectSeq(sysq, LAMBDA c : c = "childTerminated")) < children
    /\ EnqueueSystem("childTerminated")
    /\ UNCHANGED <<queue, suspended, overflow, life, pace, keep, book, budget, handled>>
    /\ Schedule

\* Mutant: every attempt moves the refill's anchor, so an empty bucket stays empty.
RefillStarved ==
    /\ throttle # "none" /\ tokens \in 1..(Burst - 1)
    /\ tokens' = tokens + 1
    /\ UNCHANGED <<lane, life, throttle, timer, keep, book, budget, processing, turn, handled>>

\* Time passes: the bucket earns a token.
Refill ==
    /\ throttle # "none" /\ tokens < Burst
    /\ tokens' = tokens + 1
    /\ UNCHANGED <<lane, life, throttle, timer, keep, book, budget, processing, turn, handled>>

\* The resume timer fires.
ResumeTimer ==
    /\ timer
    /\ timer' = FALSE
    /\ UNCHANGED <<lane, life, throttle, tokens, keep, book, budget, handled>>
    /\ ScheduleIfRunning

-----------------------------------------------------------------------------
(* The turn *)

TurnStart ==
    /\ turn = "queued"
    /\ turn' = "loop"
    /\ UNCHANGED <<lane, life, pace, keep, book, budget, processing, handled>>

Goto(place) == turn' = place /\ UNCHANGED <<processing, handled>>

\* A system command has been handled: run() returns if the cell is terminated
\* by now, and takes the next one otherwise.
CommandDone == IF state' = "terminated" THEN EndTurn ELSE Goto("loop")

\* failToParent: park the lane, leave the decision to the supervisor.
FailToParent ==
    /\ suspended' = TRUE
    /\ state' = IF state = "running" THEN "suspended" ELSE state
    /\ owed' = owed + 1
    /\ failures < MaxFailures /\ failures' = failures + 1

TakeCommand(command) ==
    /\ turn = "loop" /\ handled < Throughput
    /\ sysq # <<>> /\ Head(sysq) = command
    /\ sysq' = Tail(sysq)

\* onCreate: the state is "running" before preStart is awaited.
OnCreate ==
    /\ TakeCommand("create")
    /\ \/ /\ actor' = TRUE /\ state' = "running"
          /\ Goto("preStart")
          /\ UNCHANGED <<suspended, owed, failures>>
       \/ /\ FailToParent          \* the factory threw
          /\ Goto("loop")
          /\ UNCHANGED actor
    /\ UNCHANGED <<queue, overflow, children, parked, pace, keep, book, commands, calls>>

PreStartSettles ==
    /\ turn = "preStart"
    /\ \/ UNCHANGED <<suspended, state, owed, failures>>
       \/ FailToParent
    /\ Goto("loop")
    /\ UNCHANGED <<queue, sysq, overflow, actor, children, parked, pace, keep, book,
                   commands, calls>>

\* onSuspend and onResume, less the cascade to the children.
OnSuspend ==
    /\ TakeCommand("suspend")
    /\ suspended' = TRUE
    /\ state' = IF state = "running" THEN "suspended" ELSE state
    /\ CommandDone
    /\ UNCHANGED <<queue, overflow, actor, children, parked, owed, pace, keep, book, budget>>

OnResume ==
    /\ TakeCommand("resume")
    /\ suspended' = FALSE
    /\ state' = IF state = "suspended" THEN "running" ELSE state
    /\ CommandDone
    /\ UNCHANGED <<queue, overflow, actor, children, parked, owed, pace, keep, book, budget>>

\* onTerminate up to the await of postStop, which waits for the children.
BeginTermination(hook) ==
    /\ state' = "terminating"
    /\ IF children = 0 THEN turn' = hook /\ timer' = FALSE
                       ELSE turn' = "loop" /\ UNCHANGED timer
    /\ UNCHANGED processing

OnTerminate ==
    /\ TakeCommand("terminate")
    /\ IF Stopping THEN UNCHANGED <<state, timer>> /\ CommandDone
                   ELSE BeginTermination("postStop") /\ UNCHANGED handled
    /\ UNCHANGED <<queue, suspended, overflow, actor, children, parked, owed, throttle, tokens,
                   keep, book, budget>>

\* finalizeTermination after postStop settled, well or badly: the stash, then
\* the queue, become dead letters.  run() returns when a command led here; a
\* PoisonPill is a user message, after which its loop goes on.
PostStopSettles ==
    /\ turn \in {"postStop", "pillStop"}
    /\ log' = log \cup Outcomes(stash \o queue, "dead")
    /\ stash' = <<>> /\ queue' = <<>>
    /\ state' = "terminated"
    /\ UNCHANGED <<sysq, suspended, overflow, actor, children, parked, owed, pace, current,
                   replayed, lateStash, posted, budget>>
    /\ IF turn = "postStop" THEN EndTurn ELSE Goto("loop")

\* onRecreate up to the await of preRestart, whatever the state.
OnRecreate ==
    /\ TakeCommand("recreate")
    /\ UNCHANGED <<queue, suspended, overflow, life, pace, current, replayed, lateStash, posted,
                   budget>>
    /\ IF actor
       THEN /\ log' = log \cup Outcomes(stash, "dead") /\ stash' = <<>>
            /\ Goto("preRestart")
       ELSE UNCHANGED <<log, stash>> /\ CommandDone

\* completeRecreate up to the await of postRestart; or the factory throws.
BeginRebuild ==
    \/ Goto("postRestart") /\ UNCHANGED <<suspended, state, owed, failures>>
    \/ FailToParent /\ CommandDone

\* onRecreate after preRestart settled (a throw is logged only): with
\* children, who are told to stop first, the restart is parked.
PreRestartSettles ==
    /\ turn = "preRestart"
    /\ IF StopChildrenOnRestart /\ children > 0
       THEN parked' = TRUE /\ UNCHANGED <<suspended, state, owed, failures>> /\ CommandDone
       ELSE BeginRebuild /\ UNCHANGED parked
    /\ UNCHANGED <<queue, sysq, overflow, actor, children, pace, keep, book, commands, calls>>

PostRestartSettles ==
    /\ turn = "postRestart"
    /\ \/ suspended' = FALSE /\ state' = "running" /\ UNCHANGED <<owed, failures>>
       \/ FailToParent
    /\ CommandDone
    /\ UNCHANGED <<queue, sysq, overflow, actor, children, parked, pace, keep, book,
                   commands, calls>>

\* Mutant: the parked restart is completed whatever the state is.
OnChildTerminatedRevives ==
    /\ TakeCommand("childTerminated")
    /\ children' = IF children > 0 THEN children - 1 ELSE 0
    /\ parked' = (parked /\ children' > 0)
    /\ IF children' > 0 \/ ~(parked \/ state = "terminating")
       THEN UNCHANGED <<suspended, state, owed, timer, failures>> /\ CommandDone
       ELSE IF parked
       THEN BeginRebuild /\ UNCHANGED timer
       ELSE Goto("postStop") /\ timer' = FALSE /\ UNCHANGED <<suspended, state, owed, failures>>
    /\ UNCHANGED <<queue, overflow, actor, throttle, tokens, keep, book, commands, calls>>

\* Mutant: the restart that was parked is dropped, and the stop with it.
OnChildTerminatedForgets ==
    /\ TakeCommand("childTerminated")
    /\ children' = IF children > 0 THEN children - 1 ELSE 0
    /\ parked' = (parked /\ children' > 0)
    /\ IF children' > 0 \/ parked \/ state # "terminating"
       THEN Goto("loop") /\ UNCHANGED <<suspended, state, owed, timer, failures>>
       ELSE Goto("postStop") /\ timer' = FALSE /\ UNCHANGED <<suspended, state, owed, failures>>
    /\ UNCHANGED <<queue, overflow, actor, throttle, tokens, keep, book, commands, calls>>

\* onChildTerminated: the last child completes a parked restart, unless the
\* cell was ordered to stop meanwhile, which it then finishes.
OnChildTerminated ==
    /\ TakeCommand("childTerminated")
    /\ children' = IF children > 0 THEN children - 1 ELSE 0
    /\ parked' = (parked /\ children' > 0)
    /\ IF children' > 0 \/ state = "terminated" \/ ~(parked \/ state = "terminating")
       THEN UNCHANGED <<suspended, state, owed, timer, failures>> /\ CommandDone
       ELSE IF state = "terminating"
       THEN Goto("postStop") /\ timer' = FALSE /\ UNCHANGED <<suspended, state, owed, failures>>
       ELSE BeginRebuild /\ UNCHANGED timer
    /\ UNCHANGED <<queue, overflow, actor, throttle, tokens, keep, book, commands, calls>>

-----------------------------------------------------------------------------
(* User messages *)

UserTurn ==
    /\ turn = "loop" /\ handled < Throughput
    /\ sysq = <<>> /\ state = "running" /\ ~suspended /\ queue # <<>>

Metered == throttle # "none" /\ Droppable(Head(queue))

\* The throttle gate refused the message: "drop" discards it, "pause" puts it
\* back at the head and arms the resume timer.  A bounded mailbox over its
\* ceiling may shed, or throw out of run(): the timer is then not armed.
ThrottleExcess ==
    /\ UserTurn /\ Metered /\ tokens = 0
    /\ LET env == Head(queue)
           r == PrependUser(Tail(queue), <<env>>, Capacity, overflow)
       IN  IF throttle = "drop"
           THEN /\ queue' = Tail(queue)
                /\ log' = log \cup {Outcome(env, "discarded")}
                /\ UNCHANGED timer
           ELSE /\ queue' = r.queue
                /\ timer' = (timer \/ ~r.refused)
                /\ log' = IF r.refused THEN log \cup {Outcome(env, "lost")}
                                      ELSE log \cup Outcomes(r.dropped, "dropped")
    /\ UNCHANGED <<sysq, suspended, overflow, life, throttle, tokens, keep, posted, budget>>
    /\ EndTurn

\* Mutant: the gate consumes a token it does not have.
DequeueOverdrawn ==
    /\ UserTurn
    /\ tokens' = IF Metered THEN tokens - 1 ELSE tokens
    /\ queue' = Tail(queue)

Dequeue ==
    /\ UserTurn /\ (Metered => tokens > 0)
    /\ tokens' = IF Metered THEN tokens - 1 ELSE tokens
    /\ queue' = Tail(queue)

\* _dispatchToBehavior up to the await of the behavior.
HandlerStarts ==
    /\ Dequeue
    /\ current' = <<Head(queue)>> /\ replayed' = FALSE
    /\ Goto("handler")
    /\ UNCHANGED <<sysq, suspended, overflow, life, throttle, timer, stash, lateStash, book, budget>>

\* handleUserMessage on a PoisonPill.
PoisonPill ==
    /\ Dequeue /\ Droppable(Head(queue))
    /\ log' = log \cup {Outcome(Head(queue), "handled")}
    /\ BeginTermination("pillStop") /\ handled' = handled + 1
    /\ UNCHANGED <<sysq, suspended, overflow, actor, children, parked, owed, throttle, keep,
                   posted, budget>>

\* handleUserMessage on a Kill.
Kill ==
    /\ Dequeue /\ Droppable(Head(queue))
    /\ log' = log \cup {Outcome(Head(queue), "handled")}
    /\ FailToParent
    /\ turn' = "loop" /\ handled' = handled + 1 /\ UNCHANGED processing
    /\ UNCHANGED <<sysq, overflow, actor, children, parked, throttle, timer, keep, posted,
                   commands, calls>>

\* The behavior returned or threw: _dispatchSucceeded / _dispatchFailed, then
\* _dispatchEpilogue.  A message it stashed is the stash's to account for.
HandlerSettles ==
    /\ turn = "handler"
    /\ log' = log \cup Outcomes(current, "handled")
    /\ current' = <<>> /\ replayed' = FALSE
    /\ \/ UNCHANGED <<suspended, state, owed, failures>>
       \/ FailToParent
    /\ turn' = "loop" /\ handled' = handled + 1 /\ UNCHANGED processing
    /\ UNCHANGED <<queue, sysq, overflow, actor, children, parked, pace, stash, lateStash, posted,
                   commands, calls>>

\* The loop of run() ends: the batch is full, or nothing can be dequeued.
LoopEnds ==
    /\ turn = "loop"
    /\ \/ handled = Throughput
       \/ sysq = <<>> /\ (state # "running" \/ suspended \/ queue = <<>>)
    /\ UNCHANGED <<lane, life, pace, keep, book, budget>>
    /\ EndTurn

-----------------------------------------------------------------------------
(* Calls the actor's own code makes through its context *)

Call == calls < MaxCalls /\ calls' = calls + 1 /\ UNCHANGED <<commands, failures>>

\* Mutant: the stashed message stays the current one.
StashKeepsCurrent ==
    /\ Call
    /\ turn = "handler" /\ current # <<>> /\ Len(stash) < StashCapacity
    /\ stash' = stash \o current
    /\ lateStash' = (lateStash \/ replayed)
    /\ UNCHANGED <<lane, life, pace, current, replayed, book, processing, turn, handled>>

Stash ==
    /\ Call
    /\ turn = "handler" /\ current # <<>> /\ Len(stash) < StashCapacity
    /\ stash' = stash \o current
    /\ current' = <<>>
    /\ lateStash' = (lateStash \/ replayed)
    /\ UNCHANGED <<lane, life, pace, replayed, book, processing, turn, handled>>

\* unstashAll: a replay the mailbox refuses throws and leaves the stash whole.
UnstashAll ==
    /\ Call
    /\ stash # <<>>
    /\ LET r == PrependUser(queue, stash, Capacity, overflow)
       IN  /\ ~r.refused
           /\ queue' = r.queue
           /\ log' = log \cup Outcomes(r.dropped, "dropped")
    /\ stash' = <<>> /\ replayed' = (turn = "handler")
    /\ UNCHANGED <<sysq, suspended, overflow, life, pace, current, lateStash, posted, handled>>
    /\ Schedule

\* throttle: a fresh, full bucket; a pause in progress ends.
Throttle(onExcess) ==
    /\ Call
    /\ actor
    /\ throttle' = onExcess /\ tokens' = Burst /\ timer' = FALSE
    /\ UNCHANGED <<lane, life, keep, book, handled>>
    /\ ScheduleIfRunning

CancelThrottle ==
    /\ Call
    /\ throttle # "none"
    /\ throttle' = "none" /\ tokens' = 0 /\ timer' = FALSE
    /\ UNCHANGED <<lane, life, keep, book, handled>>
    /\ ScheduleIfRunning

SpawnChild ==
    /\ Call
    /\ turn \in {"preStart", "handler", "postRestart"} /\ ~Stopping
    /\ children < MaxChildren
    /\ children' = children + 1
    /\ UNCHANGED <<lane, state, actor, parked, owed, pace, keep, book, processing, turn, handled>>

-----------------------------------------------------------------------------
Arrive ==
    \/ PostUserMessage \/ PostSignal \/ ChildStops
    \/ \E c \in {"suspend", "recreate", "terminate"} : Supervise(c)
    \/ \E c \in {"resume", "recreate", "terminate"} : Decide(c)

Clock == Refill \/ ResumeTimer

Turn ==
    \/ TurnStart \/ LoopEnds
    \/ OnCreate \/ OnSuspend \/ OnResume \/ OnTerminate \/ OnRecreate \/ OnChildTerminated
    \/ ThrottleExcess \/ HandlerStarts \/ PoisonPill \/ Kill

Settle ==
    \/ PreStartSettles \/ PreRestartSettles \/ PostRestartSettles \/ PostStopSettles
    \/ HandlerSettles

ContextCall ==
    \/ Stash \/ UnstashAll \/ CancelThrottle \/ SpawnChild
    \/ \E mode \in {"pause", "drop"} : Throttle(mode)

Next == Arrive \/ Clock \/ Turn \/ Settle \/ ContextCall

Spec == Init /\ [][Next]_vars

(***************************************************************************)
(* Fairness: a dispatcher runs what it was handed (every Dispatcher.ts     *)
(* implementation queues the unit on a task queue of the event loop), the  *)
(* actor's hooks and handlers settle, armed timers fire and the clock      *)
(* advances, and children that are told to stop do.  Nothing is asked of   *)
(* the supervisor.                                                         *)
(***************************************************************************)
Fairness ==
    /\ WF_vars(Turn) /\ WF_vars(Settle)
    /\ WF_vars(Refill) /\ WF_vars(ResumeTimer)
    /\ WF_vars(ChildStops)

FairSpec == Spec /\ Fairness

-----------------------------------------------------------------------------
(* Properties *)

TypeOK ==
    /\ state \in {"creating", "running", "suspended", "terminating", "terminated"}
    /\ actor \in BOOLEAN /\ overflow \in Policies /\ suspended \in BOOLEAN
    /\ queue \in Seq(Envelope) /\ stash \in Seq(Envelope) /\ current \in Seq(Envelope)
    /\ sysq \in Seq(Commands)
    /\ processing \in BOOLEAN
    /\ turn \in {"off", "queued", "loop", "handler"} \cup Hooks
    /\ handled \in 0..Throughput
    /\ throttle \in {"none", "pause", "drop"} /\ tokens \in 0..Burst /\ timer \in BOOLEAN
    /\ children \in 0..MaxChildren /\ parked \in BOOLEAN /\ owed \in Nat
    /\ posted \in 0..MaxMessages
    /\ replayed \in BOOLEAN /\ lateStash \in BOOLEAN

(***************************************************************************)
(* No lost wakeup: a live cell without a dispatched turn has nothing a     *)
(* turn could do.  Its system lane is empty, and if it is running, its     *)
(* user lane is empty, parked by a suspension or parked by an armed resume *)
(* timer.  This is what the calls of schedule() scattered over ActorCell   *)
(* (and the finally of run()) have to add up to.                           *)
(***************************************************************************)
NoLostWakeup ==
    state # "terminated" /\ ~processing =>
        /\ sysq = <<>>
        /\ state = "running" => queue = <<>> \/ suspended \/ timer

(***************************************************************************)
(* Every message posted is in exactly one place: queued, stashed, in the   *)
(* handler's hands, or accounted for exactly once.  Crosses enqueue,       *)
(* prependUser, stash, the throttle's re-park, restart and termination.    *)
(***************************************************************************)
EachMessageOnce ==
    LET held == queue \o stash \o current
        places(id) == Cardinality({i \in 1..Len(held) : held[i].id = id})
        fates(id) == Cardinality({o \in log : o.env.id = id})
    IN  \A id \in 1..posted : places(id) + fates(id) = 1

(***************************************************************************)
(* A lifecycle notification is handled or becomes a dead letter.  No bound *)
(* sheds it, no throttle discards it, no replay through a stash strips the *)
(* exemption (Envelope.undroppable).                                       *)
(***************************************************************************)
SignalsSurvive ==
    \A o \in log : o.env.undroppable => o.how \in {"handled", "dead"}

(***************************************************************************)
(* unstashAll and the throttle's re-park put messages back where they      *)
(* were: what waits, stash first, is in arrival order, as long as no       *)
(* handler stashed its message after it had replayed the stash.            *)
(***************************************************************************)
ArrivalOrder ==
    ~lateStash => LET waiting == stash \o queue
                  IN  \A i, j \in 1..Len(waiting) : i < j => waiting[i].id < waiting[j].id

(***************************************************************************)
(* The bound of BoundedMailbox holds for everything it may shed, also on   *)
(* the replay path of prependUser and beside signals that are exempt.      *)
(***************************************************************************)
BoundHeld == DroppableIn(queue) <= Capacity

(***************************************************************************)
(* The turn that handled a PoisonPill outlives the cell: run() looks at    *)
(* the system lane again once postStop has settled.                        *)
(***************************************************************************)
LastTurn == state = "terminated" /\ turn # "off"

(***************************************************************************)
(* A cell ordered to stop never runs again: no restart that was requested  *)
(* before or after the order, and no resume, revives it.  Excepted is what *)
(* onRecreate does in the last turn of a PoisonPill (see NeverRevived).    *)
(***************************************************************************)
StopIsFinal == [][Stopping /\ ~LastTurn => Stopping']_vars

(***************************************************************************)
(* The same without the exception, as the documentation has it: after a    *)
(* PoisonPill or a stop "future tell calls to this ref no longer find a    *)
(* live actor", and a terminate "wins" over a restart.  Two orders of      *)
(* events refute it: a recreate that reaches a stopping cell whose         *)
(* children outlive restarts, and one that reaches the last turn of a      *)
(* PoisonPill.                                                             *)
(***************************************************************************)
NeverRevived == [][Stopping => Stopping']_vars

(***************************************************************************)
(* A running cell works its queue off: throttle pauses, suspensions and    *)
(* full batches only delay it.                                             *)
(***************************************************************************)
QueueDrains ==
    state = "running" /\ queue # <<>> ~> queue = <<>> \/ state # "running"

(***************************************************************************)
(* A cell told to stop stops, also when a restart is parked or a supervisor*)
(* answers a failure meanwhile.                                            *)
(***************************************************************************)
StopCompletes ==
    (\E i \in 1..Len(sysq) : sysq[i] = "terminate") ~> state = "terminated"

=============================================================================
