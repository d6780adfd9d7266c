# A TLA+ verification of actor-ts

actor-ts is an actor framework for TypeScript: actors with supervision, and on
top of them clustering, sharding, persistence, CRDTs and more. This directory
models its core and its cluster and persistence protocols in TLA+, model-checks
them with TLC and proves their safety properties with TLAPS.
`PROJECT.json` lists every run, property, mutant, hazard and theorem, and maps each
definition to the lines it stands for.

## The system and what is modelled

| Part | State | Operations | Module |
| --- | --- | --- | --- |
| Bounded mailbox (`mailbox/BoundedMailbox.ts`, `internal/Mailbox.ts`) | a queue, a capacity, an overflow policy | enqueue, enqueueSignal, prependUser | `BoundedMailbox` |
| Actor cell (`internal/ActorCell.ts`) | lifecycle state, two lanes, stash, throttle bucket and timer, `processing` | run, schedule, system commands, hooks, stash, unstashAll, throttle | `CellTurn` |
| Supervision and death watch (`internal/ActorCell.ts`, `Supervision.ts`) | the tree: state, lanes, children, watches and retries of every cell | create, suspend, resume, recreate, terminate, failure, childTerminated, spawn, stop, watch, unwatch | `Supervision` |
| Reliable delivery (`delivery/`) | window and queue of each producer, dedup map of the consumer, the wire | send, retransmit, acknowledge, handle, sweep, evict, restart | `ReliableDelivery` |
| Leases (`coordination/`) | the store's record, each owner's held flag and deadline | acquire, release, renew, lose | `LeaseContract` (abstract), `InMemoryLease` |
| Cluster singleton (`cluster/singleton/ClusterSingletonManager.ts`) | each manager's fields, mailbox and view; hand-over frames; the lease | reconcile, hand-over, child death and respawn, lease events, timers | `ClusterSingleton` |
| Event-sourced actors (`persistence/PersistentActor.ts`, `Replay.ts`, in-memory stores) | journal, snapshots, late calls, lease record, each instance and the call it awaits | start, recover, persist, snapshot, compact, stop, crash | `PersistentActor` |
| Cluster membership (`cluster/Cluster.ts`, `Member.ts`) | each node's member map, frames under way | start, join, gossip, promote, heartbeat, suspect, down, leave, crash | `Membership` |
| Cluster sharding (`cluster/sharding/`) | the coordinator's maps, each region's maps and shard actor, frames, buffered and forwarded messages | register, allocate, hand off, rebalance, passivate, evict, route | `Sharding` |
| Everything else (downing strategies, CRDTs, patterns, remote watch, I/O, HTTP, ...) | | | not modelled; see below and the components of `PROJECT.json` |

How the parts meet: `CellTurn` EXTENDS `BoundedMailbox` and applies its operators
to the user lane. `CellTurn` sees supervision as an environment (`Supervise`,
`Decide`, `ChildStops`), and `Supervision` sees the turn as "a cell with work is
served"; each assumption is a property of the other module (`NoLostWakeup` and
`QueueDrains` there, `SuspensionEnds` and `StopCompletes` here). This is an
argument between two models, not one composed model.
Reliable delivery runs in two actors, so its handlers are atomic up to their
awaits. `ClusterSingleton` composes the managers with `InMemoryLease` (INSTANCE),
whose actions are conjuncts of the managers' steps; the lease in turn implements
`LeaseContract`. The cluster modules take the membership from outside: the
singleton's views change at will, and `Sharding` has one membership for all.

### CellTurn

JavaScript runs to completion between awaits, so an action is the code between
two points where the cell can yield. `turn` says where the one dispatched unit of
work stands (`off`, `queued`, `loop`, `handler`, or a lifecycle hook that is
awaited); `OnX` starts a command and `XSettles` continues it after its await.
Payloads are identities. `log` records what became of each message, and `owed`
counts the suspensions the supervisor still has to answer: both are history. A
throttled cell whose `reject` mailbox is over its ceiling loses the message it
re-parks (the code's comment accepts this); the log says so.
After a system command `run()` returns if the cell has terminated (`CommandDone`);
after a PoisonPill it goes on with its loop, so the commands that arrived during
the await of postStop are still handled, on a terminated cell. `StopIsFinal`
excepts exactly this rest of a turn, and `NeverRevived` does not.

### Supervision

One action is one system command or one user message of one cell, but for the
await of postStop: `AwaitPostStop` opens it and `PostStopSettles` ends the cell, and
the other cells act between. `ending` says where a cell's last turn stands; after a
PoisonPill it stays `open` until `LastTurnEnds`, and a recreate that is found in the
lane then (`OnRecreateTooLate`) brings the cell back. `revived` is history: the cells
this has happened to. A revived cell is dropped by its parent, and its second end
drops a successor of its name; `NoOrphan` excepts these names, and `SuspensionEnds`
a tree in which it has happened, since nobody answers the failures of a revived cell.
The other hooks are part of their
action, since no other cell sees a state between. User strategies are arbitrary:
`OnFailure` allows each directive for the failing child or for all children.
`Strategy` names the strategy object a child's failure is decided by; one in `Anew`
is built at every call of `supervisorStrategy()`. `registerRestart` asks the budget
of the strategy on record, or a new one (`Spent`); `granted` counts the restarts of
a supervisor over all its budgets and is history. Cells are born at most once; a cell with the same
`Name` plays the successor of a stopped child. Abstracted: ordinary messages are
always at hand, `withinTimeRangeMs` is 0, hooks spawn no children.

### ReliableDelivery

A transmission is named by producer, incarnation and sequence number. The wire is
two sets: taking an element may leave a copy behind (duplication), any element
may be taken (reordering) and any may vanish (loss). `order` is the insertion
order of the consumer's `Map`, which is its age order: `Touch` deletes and inserts
a key again, and eviction and sweep both drop the oldest keys (`WithoutOldest`). `handling` is the delivery
whose handler is awaited, with the dedup state object it still holds, so that a
sweep during the await is representable. `handled`, `twice`, `forgotten`,
`confirmed`, `stopped` and `submitted` are history.

### LeaseContract and InMemoryLease

The contract has one variable, the set of owners whose `checkAlive()` answers
true; ownership is taken from nobody or from oneself. `InMemoryLease` has the
store's record and one lease object per owner. Deadlines are the time left, so
that `Tick` needs no growing clock. `Contract` is the refinement mapping:
`holders` is the set of owners for which `CheckAlive` holds.

### ClusterSingleton

A handler is a function from a manager's state to its next one; the frames it
sends and its call of `lease.release()` travel with that state and `Step` applies
them. A view gives each member one of four statuses, which is all that `leader()`
and the hand-over tell apart; `ViewChanges` is any membership event, delivered
only where `changesSingletonHost` lets it through: a member that turns unreachable
under an unchanged leader, and one that joins, are not reported. `lapsed` is history: a holder
let its lease run out.

### PersistentActor

A state is the sequence of events folded into it, so two states are equal only if
the same events made them. `at` is the store call an instance awaits, and other
instances act between any two of its calls. A call that failed may still execute
later (`late`): the circuit breaker's timeout gives up on it, not the store.
`options` holds what differs between deployments: a lease, compaction,
`snapshotIsOptional`, how many snapshots are kept, and how many instances, faults
and crashes there are. `SoundDeployment` says in which of them recovery is sound.

### Membership

Node 1 is everyone's seed. A record is a status and a version; a restarted node's
versions lie in a new epoch, as `Date.now()` makes them, and `EpochAssumption` makes
an epoch long enough that a run of a node does not use it up. A link holds the newest
frame only, since an overtaken frame is refused by its number. A frame is the
sender's map, and merging it is a function of the two maps (`Merged`), followed by
the leader's actions as in `onGossip`. Without auto-down a silent member is held at
unreachable whatever its status (`holdForResolver`).

`Converges` asks for agreement but for three cases in which the code gives none.
`Pinned`: a late leave frame, which names no incarnation, has raised a tombstone above
the version a restarted node began with, and that peer refuses the node from then on.
`OutOfTouch`: after a suspicion neither of two nodes sends the other anything, since
gossip and heartbeats go to reachable members only (the comment at `Cluster.ts:3117`).
`Resurrects`: under auto-down two survivors that do not delete a dead member at the
same instant bring it back to each other again and again (`Cluster.ts:3102`); the run
has the scenario, and only there the dead member may stay.

### Sharding

One shard and its regions: shards meet only in the allocation strategy, whose pick
is arbitrary here. Frames between the coordinator and a region are in order. The
region's handlers return what they flush, and `Becomes` routes it once the
handler's state is set, as `flushBuffer` does. `crossed` is history: a region that
was giving the shard up was answered that it is the home. `dropped` counts the
messages told to a shard actor on its way out. A region's buffer holds `BufferSize`
messages and turns the newest away beyond that (`BufferShard`); `DelayedNotDropped`
is not about those. Each node hears of a member's removal or return only when its own
view changes, so any subset of the regions is told (`Hearers`), the one on the
coordinator's node (`leader`) included. A scenario has a budget for each
kind of event and the kinds of frames that may be lost; `SoundScenario` says in
which of them the shard has one home.

The liveness properties name what the code leaves open. `Unheard`: a region whose node
is not up, or that the coordinator dropped and, with stale-region detection off, nobody
tells; it does not register again on its own. `Parked`: a query that found no eligible
region because of a suspicion; a registration does not retry it, and it waits for a
member to come back or to be removed (`rebalance.mdx:217`).

## Runs

Deadlock checking is off everywhere: an idle actor, a stopped tree and a drained
producer rightly do nothing, and the bounds stop the environment.

| Run | Shows | Bounds |
| --- | --- | --- |
| `cell_turn` | no lost wakeup, every message in one place or accounted for once, signals never shed, replays keep the order, the bound holds, a stop is final; a running cell drains its queue, an order to stop completes | capacity 1, batches of 2, burst 1, 2 messages, 2 context calls, 1 unsolicited command, 1 failure, 1 child; each policy |
| `supervision` | types, no orphan, no missed death, a stop is final; stops complete and suspensions end | guardian, child, three grandchildren, the second with the name of the first; 1 retry; 2 failures and 2 context calls without the third, 1 of each with it; the guardian watches |
| `delivery` | confirmations are true, duplicates only after a lost record, every send told once, queue only behind a full window, the budgets hold | 2 producers, room for 1, window 2, 1 sequence above a gap, 3 sends, 1 restart, 1 sweep |
| `delivery_live` | every send settles while the consumer keeps its record | 1 producer, no restart |
| `singleton` | one instance while the lease is kept, the lease implements its contract, the singleton settles on the elected host | 2 nodes, every initial pair of views, 2 changes of view, or 1 together with a lost frame, a deadline, a death or a lapse; with and without a lease |
| `persistence` | recovered states are prefixes of the journal, batches land on the state they were decided on, compaction keeps history rebuildable | 2 instances, 3 events, batches of up to 2; one instance that compacts with 2 faults and a crash, or two that overlap |
| `membership` | a node's own record stands, maps converge | cold start of 2 nodes with restarts, 2 nodes that suspect each other, 3 nodes with a join, a suspicion, a crash or a departure; with and without auto-down |
| `sharding` | one home, no message to a dying shard, the index agrees with the map, owners agree in the end, buffers drain | 2 hosts and a proxy, a buffer of 2, up to 3 messages and 2 moves, one fault of each kind; 16 scenarios |
| `cell_turn_revive`, `supervision_budget`, `persistence_new`, `sharding_twice` | places where the code does not do what a comment or a document says (below) | one small instance each |

Why these bounds: one place in the mailbox and one token put every message at the
limit; two messages are the least that make a stashed one and a queued one in its
way (three, a stash of two behind a queued one, were checked outside the runs with the
same result: 3.3 million states in six minutes); one child is the least that parks a restart; two grandchildren are the
least for all-for-one and for a successor, three for both at once; one dedup entry for two producers makes
each delivery an eviction; three sends exceed a window of two and leave a gap with
one above it. Two nodes are the least that disagree about a host, and every
hand-over is between two; a third node matters to the membership, where one node's
word reaches another through a third. Two instances are the least that race, and
with three events a batch of two can land between another's read and write. The
scenarios of the cluster modules give each fault on its own and with the one
operation it disturbs; all of them at once are out of reach.

`SYMMETRY` is used only in runs without liveness properties, over the
producers, which the model treats alike.

### Fairness

* `CellTurn`: a dispatcher runs what it was handed (`Turn`), hooks and handlers
  settle, an armed timer fires and tokens accrue, children that were told to stop
  do, and the supervisor answers a failure. Posts and context calls are not fair.
* `Supervision`: each cell with a command or a signal is served (weak fairness
  per cell). Failures, spawns and watches are not fair.
* `ReliableDelivery`: the resend timer fires (weak); a transmission sent again and
  again gets through, an acknowledgment sent again and again is received, and a
  handler tried again and again succeeds (strong). Without these at-least-once
  delivery promises nothing.
* `ClusterSingleton`: mailboxes, the respawn, retry and renewal timers and
  `lease.acquire()` are served, a child told to stop stops, a frame that is not
  lost arrives. Whether a hand-over deadline passes is open.
* `Membership`: the seed timer, the gossip timer towards every target (the code
  picks it at random), heartbeats and the detection of a dead node go on; frames
  arrive.
* `Sharding`: links deliver, shards and regions take their turns, retry, respawn
  and heartbeat timers fire, a region gone for good is swept, a hand-off that
  nobody will answer times out. No fault is fair, and neither is the return of a
  suspected node: after a symmetric partition nobody sends the heartbeat it takes.

### Findings

1. `cell_turn_revive`: `onRecreate` looks at the actor and not at the state, so a
   recreate brings back a cell that was ordered to stop. It does so while a cell that
   keeps its children on restart waits for them; and in the turn of a PoisonPill,
   when the recreate arrived during postStop, whatever `stopChildrenOnRestart` says.
   With `StopChildrenOnRestart` set to TRUE in the cfg the second trace remains:
   PoisonPill, Supervise during postStop, PostStopSettles, OnRecreate,
   PostRestartSettles.
2. `supervision_budget`: the guide counts one restart more than `registerRestart`
   grants. And where `supervisorStrategy()` builds its strategy at every call, as the
   guide's examples do, every failure finds a new budget and the bound is never
   reached. TLC reports the first, which is shorter; in the scenario with the second
   child the guide is also contradicted by a restart it does not allow.
3. `persistence_new`: a recovery that found nothing reads the journal's high-water
   mark in a second call. An append in between is counted in the sequence number
   and missing from the state, and the conditional append does not notice.
4. `sharding_twice`: a region that gives a shard up and asks for its home is
   answered with itself while the hand-off is under way, and hosts it again.

Further behaviours were met while modelling that no run states; some are hazards
of `PROJECT.json` with a note.

* `internal/ActorCell.ts`: a turn is armed for messages a stopping cell may not
  take, and is empty (line 1477); Restart does nothing for a cell whose factory
  threw (1915); a resume that arrives while a restart waits for the children lets
  the old instance handle messages (1945), and its cascade reopens a child whose
  own failure is undecided (1688).
* `delivery/ConsumerController.ts:368`: a producer whose dedup entry was dropped.
* `cluster/singleton/ClusterSingletonManager.ts:567`: two instances without a lease
  when the view changes around an acknowledgment.
* `cluster/Cluster.ts`: a joiner that is suspected before it heard any gossip (2631);
  a late leave frame that tombstones the next incarnation (3006).
* `cluster/sharding/`: a query parked for want of an eligible region, which a
  later registration does not always answer (`ShardCoordinator.ts:1413`) and which the
  region of a returning node does not repeat, as it hears no MemberUp about itself; a query or placement that is lost
  (`ShardRegion.ts:1369`), a shard actor that runs on after a placement elsewhere
  (`ShardRegion.ts:1926`).
* `persistence/Replay.ts:341`: with `snapshotIsOptional` an unreadable snapshot
  becomes a replay of a compacted journal.

## Proofs

The theorems hold for every value of the constants, from the modules' named
assumptions only (`ConstantsAssumption`, `TreeAssumption`, `DeliveryAssumption`,
`PersistenceAssumption`: bounds are naturals, the tree has a root, no cell is its
own parent; `ShardingConstants`: the regions are finitely many, the scenarios speak
of them and budgets are naturals; `DeploymentAssumption`: the singleton's views and
options have the form they are used with; `EpochAssumption`: an epoch of versions has
room for the faults of a scenario). What else a theorem needs is in its statement:
`LeaseConstants` (the time to live is positive and "no record" is not a record),
`NoneIsNoRecord` (the same for the member map), and two conditions on the
deployments, each part of which is needed. TLC finds a counterexample when it is
dropped:

* `SoundDeployment`, for `PersistentActor`. Where events are deleted, one instance
  runs at a time and the snapshot is not optional: a second instance may have its
  events deleted between the snapshot it loaded and the replay, and an instance that
  skips an unreadable snapshot finds an empty journal with a high-water mark. An
  entity without events has one instance and no call that could execute late,
  since a first event may fall between the replay and the probe (finding 3).
* `SoundScenario`, for `Sharding`. A `HandOff` is not lost, or else its timer gives
  the shard away while the owner runs on; and no region starts where one may have
  stopped, or else a frame meant for the old region reaches the new one.

* `CellTurnProofs`: first the cell's schedule, `WakeupNeverLost` (`NoLostWakeup`
  always holds) and, for a cell that stops its children on restart, `StopNeverRevoked` (`StopIsFinal`):
  a stopping cell is revived by nothing, and a terminated one by nothing once the turn
  that handled its PoisonPill is over.
  `WakeupInv` adds to the wakeup property that a turn exists exactly while
  `processing` is set. `StopInv` adds that a stopping cell is in postStop or still
  has children, so that a restart which reaches it is parked and not performed,
  that no stopping cell awaits postRestart, and that `create` is only ever the
  first command of a cell that is being created. Then its messages:
  `MessageInOnePlace` (`EachMessageOnce`), `SignalNeverShed` (`SignalsSurvive`),
  `ReplayKeepsOrder` (`ArrivalOrder`), `MailboxWithinBound` (`BoundHeld`) and
  `CellStaysTyped` (`TypeOK`), by `MailInv`. `Boxes` bounds what the mailbox could
  shed; `InHand` says that one message at most is in hand, and only in a handler;
  `Ledger` that the messages posted are the queued, the stashed, the one in hand and
  those the log accounts for, each once; `InOrder` that the stash comes before the
  message in hand and that before the queue, until the handler has replayed the stash;
  `Spared` that no signal was shed. Every step is then a move of messages between
  these places (`LedgerMoves`). The loop of `prependUser` is a recursive function of
  the number of envelopes replayed; `ReplayExists` unfolds it, and `Loop` says what it
  keeps after each envelope: nothing is lost or doubled, each side stays in order, only
  what may be shed is, and the bound holds. It is shown by the
  least number of envelopes after which it would fail. `CellTypes` adds the lifecycle, throttle and turn variables; the throttle
  never takes a token it does not have.
* `SupervisionProofs`: `TypeCorrect`, in which one restart budget never records more
  than `MaxRetries` (how many budgets a supervisor opens is not bounded). `EndingInv`
  ties a cell's last turn to its state: who awaits postStop is `terminating`, and a turn
  left open belongs to a `terminated` cell. `DeathAlwaysAnnounced` by `WatchInv`, which
  adds that only cells that exist are watched; it needs no exception for revived cells.
  `NeverOrphaned` by `TreeInv`, which adds that the children of a cell have
  distinct names and that a `childTerminated` is queued once, for a registered
  child that is dead. Only so does removal by name never hit a successor. All of it is
  said of the names under which nobody was revived.
  `StopNeverRevoked` (`StopIsFinal`, for cells that stop their children on restart)
  by its own `StopInv`: a stopping cell has children left, so a recreate that
  reaches it is parked, and `create` is only ever the first command of a new cell.
  `Quiet` names what the argument needs of a change of the lanes: it adds no
  `create`.
* `SingletonProofs`: first the lease by itself, with the nodes as its owners:
  `LeaseIsExclusive`, the refinement of `LeaseContract` by `InMemoryLease`.
  `LeaseInv` says that an owner whose lease object is alive is the one the store's
  record names, with a deadline no later than the record's; so whoever may acquire
  is the only one that can be alive. Then the managers composed with the lease:
  `OneInstanceUnderLease` (`AtMostOneUnderLease`) and `ManagersKeepContract`
  (`ContractHolds`). What the composition does to the lease is a step of the lease,
  so `LeaseInv` carries over. `Kept` holds while no lease has lapsed: an instance is alive
  only under a manager that hosts, a manager hosts only in lease state `held`, and
  that state means that the lease object is held and in time. The mailbox is part of
  it: a `terminated` is queued at most once and never beside a live instance, and a
  granted `acquire-result` is queued only while the lease is held, because the state
  changes a message later than the lease does. `Ordinary` names what all handlers
  but two have in common (they host under the lease only and give the lease up only
  when they do not host), so the invariant is argued once for them.
  `ManagersStayTyped` (`TypeOK`) holds with a lease or without, by `Formed`: a
  hand-over is open exactly while somebody's answer is awaited, which every path that
  ends one has to keep.
* `MembershipProofs`: `OwnRecordNeverUnseated` (`OwnRecordStands`). `OwnInv` adds
  that no frame is under way from a node to itself: a node may speak for itself, so
  its own stale frame could unseat it. `KeepsOwn` says of each operator on maps what
  it does to the node's own record. And `VersionsStayBounded` (`TypeOK`): no version
  outgrows `MaxVersion`. This is not obvious, since every map a frame reaches may raise
  the records it holds. `VersionInv` gives every record, in a map or under way, room
  for the rises its status still allows (`Rank`: joining, weakly up, up, unreachable,
  and two into the tombstone) and for what the faults to come may add (`Reserve`: two
  for each start, each suspicion of a running node and each leave frame). A step that
  raises a record lowers its rank, or takes from the reserve. A start takes from the
  reserve as well: it makes a node run again that others hold for unreachable, and
  those may now raise it to up. `EpochAssumption` is the arithmetic of this argument;
  the frames that go round cost nothing.
* `PersistentActorProofs`: `EntityTypes`, `RecoveredStateIsHistory`
  (`StateIsHistory`), `CompactionLosesNothing` (`HistoryRebuildable`) and
  `AppendsDecidedOnHistory` (`DecidedOnHistory`), all by one invariant. `StoreInv`
  says that every snapshot is a prefix of the history and the newest one covers what
  was deleted, and `SoundCall` that the same would hold after any call that is still
  to execute. `Held` says what each instance has folded at each of its awaits, and
  `Undisturbed` what may not happen to the stores meanwhile: no event it has yet to
  read is deleted, and no first event falls between its replay and its probe. A state
  with the right number then is the right prefix, so a conditional append that
  succeeds lands on what the command saw.
* `ShardingTypes`: `IndexFollowsMap` (`ListingAgrees`). `Placed` adds that the home
  is a registered region and that a rebalance under way is from the home; only so do
  the removal of a region and the end of a hand-off clear both sides. And
  `RegionTypes` (`TypeOK`) by `Types`, which adds what every frame holds (a claim
  comes from no proxy, an answer names no proxy) and that a region that does not run
  has no shard and no timer. The module also shows of each operation of a region that
  it keeps `Good` and `Settled`.
* `ShardingProofs`: `ShardHasOneHome` (`OneHome`) and `MovesDropNothing`
  (`DelayedNotDropped`). `Good` ties a region to the coordinator and to the frames
  between them. The region hosts, or has a placement under way, only if it is the
  home; the `HandOff`, the hand-off begun and the `HandOffComplete` are stages of the
  coordinator's one hand-off, in that order, and no placement is behind the
  `HandOff`. So what ends the hand-off finds the region without the shard, and only
  then is there another home. `Settled` is about one region: a shard actor on its way
  out is one whose region buffers, with nothing in its mailbox behind the order to
  passivate. `InStep` says the same of regions that may yet start.
* `ReliableDeliveryProofs`: `EverySendToldOnce` and `QueueOnlyBehindFullWindow`
  by `SendInv` (the accounting of window, queue and outcomes);
  `ConfirmationIsTrue` and `DuplicateNeedsLostRecord` by `DedupInv`, which says
  that what a dedup state records was handled, what was handled is recorded or
  forgotten, an acknowledgment is on the wire only for what was handled, and the
  state an awaited handler holds is the one in the map unless a sweep took it;
  `DedupMapWithinBudget` (`DedupBounded`) by `OrderInv`. Only the sweep touches the
  map while a handler is awaited, so a sweep that took the handler's entry also made
  the room it comes back to. `DeliveryStaysTyped` (`TypeOK`) by `Covered` and
  `Carried`: sequence numbers given out and sends queued for one are covered by what was
  submitted (`Submissions`, which the bound on sends counts), incarnations by the
  restarts, and what travels, is recorded or is held by the handler is a transmission
  some producer made.

`MailInv` with `CellTypes`, `FormInv`, `VersionInv`, `Covered`, `Carried`, `OrderInv`
and the invariants of `PersistentActorProofs` and `ShardingProofs` were themselves
checked with TLC, on the instances of the runs.

Every invariant and action property the passing runs check is proved, those of
`PersistentActor` and `Sharding` under the conditions above, `StopIsFinal` for cells
that stop their children on restart, with the exceptions the properties state. Only model-checked: all liveness (`StopCompletes`,
`QueueDrains`, `SuspensionEnds`, `SendsSettle`, `SettlesOnTheHost`, `Converges`,
`SettlesOnOneOwner`, `BufferDrains`), which is out of the prover's reach with its
fairness conditions, and the four runs that end in a violation. The
provers cannot instantiate the library's induction theorems; that a non-empty set of
naturals has a least element (`LeastNatural`) takes their place, for the maxima and for
the loop of `prependUser`.

## Not modelled

In the modelled parts: receive timeouts and user timers, ask, `become`,
`watchWith`, termination-order groups, the time window of the retry budget, whether the instance that handles
a message is the one before or after a parked restart, validation of malformed
deliveries; the singleton's warm hand-over state and the manager's own stop; event
adapters; tombstone pruning, caps and roles of the membership; a change of the
shard coordinator, its state store, remembered entities; logs, metrics and tracing.
Of the rest, I/O, drivers, conversion and observation stay out; the others are on
the plan.

## Plan

1. Downing strategies over `Membership`: at most one side of a partition survives.
2. `Crdt`: merge is commutative, associative and idempotent, and replicas converge.
3. `CircuitBreaker`, `Backoff`, `Shutdown`, `RemoteWatch`: late results, timeouts
   and lost frames.
4. A change of the shard coordinator on top of `Sharding`.
5. Proofs: one model composed of `CellTurn` and `Supervision`, so that the assumptions
   they make of each other are steps of a proof.
