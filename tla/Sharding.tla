------------------------------- MODULE Sharding -------------------------------
(* One shard of a sharded type: the coordinator that places it, the regions     *)
(* that host it or route to it, and the shard actor each may run                *)
(* (src/src/cluster/sharding).  Shards meet only in the allocation strategy,    *)
(* whose pick for one shard is any eligible region here.  The leader, and so    *)
(* the coordinator, stays put; every region agrees on the number of shards.     *)
EXTENDS Naturals, Sequences, FiniteSets

CONSTANTS Region,       \* the nodes; each runs at most one region of the type
          Proxy,        \* the regions that route and never host
          None,         \* no region, no state
          BufferSize,   \* how many messages a region holds back
          Scenarios     \* the starting points and fault budgets of a run

\* What a scenario may have happen, each so many times.
Budgets == {"messages", "rebalances", "timeouts", "evictions", "losses", "stops", "starts",
            "suspicions", "removals", "passivations", "failures"}

ASSUME ShardingConstants ==
    /\ IsFiniteSet(Region) /\ Proxy \subseteq Region /\ None \notin Region
    /\ BufferSize \in Nat
    /\ \A s \in Scenarios :
          s.running \subseteq Region /\ s.leader \in Region /\ s.budget \in [Budgets -> Nat]

\* A HandOff reaches its region, and no region starts where one has stopped before.
\* The first is lost: the timer gives the shard away while its owner runs on.  The
\* second: a frame meant for the region that stopped reaches the one that started.
SoundScenario(s) == "HandOff" \notin s.losable /\ (s.budget.stops = 0 \/ s.budget.starts = 0)

VARIABLES
    coordinator,        \* the coordinator's maps, and its frames to each region
    regions,            \* each region's own maps, its shard actor, its frames to the coordinator
    member,             \* the membership's word on each node
    notices,            \* membership events a region has not been told of yet
    mail,               \* entity messages on their way to each region
    dropped,            \* messages told to a shard actor that was on its way out
    scenario, left      \* the run's scenario, and what is left of its budgets

vars == <<coordinator, regions, member, notices, mail, dropped, scenario, left>>

Up == {r \in Region : member[r] = "up"}

-------------------------------------------------------------------------------
(* The coordinator.  `home' is shardHome, `listed' the regions whose entry's     *)
(* index lists the shard, `beaten' those with a heartbeat on record.            *)

ToRegion(c, r, kind) ==
    [c EXCEPT !.frames[r] =
        Append(@, [kind |-> kind, home |-> IF kind = "ShardHome" THEN c.home ELSE None])]

\* A pending query is answered with the home, once there is one.
FlushPending(c) ==
    IF c.home \in c.registered
    THEN [c EXCEPT !.pending = {},
                   !.frames = [r \in Region |->
                       IF r \in c.pending
                       THEN Append(@[r], [kind |-> "ShardHome", home |-> c.home]) ELSE @[r]]]
    ELSE c

\* Mutant: the strategy is offered the regions that only route.
EligibleRegionsWithProxies(c) == c.registered \cap Up

EligibleRegions(c) == (c.registered \ Proxy) \cap Up

\* The strategy may pick any eligible region; with none the shard stays homeless.
TryAllocate(c) ==
    IF EligibleRegions(c) = {} THEN {c}
    ELSE {FlushPending(ToRegion([c EXCEPT !.home = r, !.listed = @ \cup {r}], r, "ShardHome"))
             : r \in EligibleRegions(c)}

\* Mutant: the timeout's old copy of this step, which kept the index entry.
ReleaseFromPreviousOwnerKeepsListing(c) == [c EXCEPT !.home = None]

ReleaseFromPreviousOwner(c) ==
    [c EXCEPT !.home = None, !.listed = @ \ {c.rebalancing}]

\* Mutant: a claim to a shard placed elsewhere is acknowledged and left standing.
OnRegisterLeavesConflict(c, r, claims) ==
    LET adopted == claims /\ (c.home \in {None, r} \/ c.home \notin c.registered)
        home    == IF adopted THEN r ELSE c.home
        joined  == [c EXCEPT !.registered = @ \cup {r}, !.home = home,
                             !.listed = IF home = r THEN @ \cup {r} ELSE @ \ {r}]
        acked   == ToRegion(joined, r, "RegisterAcknowledgment")
    IN  {IF adopted THEN FlushPending(acked) ELSE acked}

\* A registration names the shards the region believes it hosts.
OnRegister(c, r, claims) ==
    LET adopted == claims /\ (c.home \in {None, r} \/ c.home \notin c.registered)
        home    == IF adopted THEN r ELSE c.home
        joined  == [c EXCEPT !.registered = @ \cup {r}, !.home = home,
                             !.listed = IF home = r THEN @ \cup {r} ELSE @ \ {r}]
        acked   == ToRegion(joined, r, "RegisterAcknowledgment")
    IN  {IF adopted THEN FlushPending(acked)
         ELSE IF claims /\ c.rebalancing = None THEN ToRegion(acked, r, "HandOff")
         ELSE acked}

\* The home stands in the map until the hand-off has ended, so a region that is
\* giving the shard up may be answered with itself: `crossed' records that.
OnGetShardHome(c, r) ==
    IF c.home \in c.registered
    THEN {[ToRegion(c, r, "ShardHome") EXCEPT !.crossed = @ \/ c.rebalancing = r]}
    ELSE LET parked == [c EXCEPT !.pending = @ \cup {r}]
         IN  IF c.rebalancing = None THEN TryAllocate(parked) ELSE {parked}

OnHandOffComplete(c, r) ==
    IF c.rebalancing # r THEN {c}
    ELSE TryAllocate([ReleaseFromPreviousOwner(c) EXCEPT !.rebalancing = None])

OnRegionTerminated(c, r) ==
    LET gone == [c EXCEPT !.registered = @ \ {r}, !.beaten = @ \ {r}, !.listed = @ \ {r}]
    IN  IF r \notin c.registered THEN {c}
        ELSE IF r \in c.listed
             THEN TryAllocate([gone EXCEPT !.home = None, !.rebalancing = None])
        ELSE {gone}

OnRegionHeartbeat(c, r) ==
    {IF r \in c.registered THEN [c EXCEPT !.beaten = @ \cup {r}]
     ELSE ToRegion(c, r, "RegistrationRequest")}

\* What it does not know, the coordinator leaves unhandled.
DispatchShardingMessage(c, r, frame) ==
    CASE frame.kind = "Register"         -> OnRegister(c, r, frame.claims)
      [] frame.kind = "GetShardHome"     -> OnGetShardHome(c, r)
      [] frame.kind = "HandOffComplete"  -> OnHandOffComplete(c, r)
      [] frame.kind = "RegionTerminated" -> OnRegionTerminated(c, r)
      [] frame.kind = "RegionHeartbeat"  -> OnRegionHeartbeat(c, r)
      [] OTHER                           -> {c}

\* Regions the sweep may judge: not waiting on a membership decision, and heard
\* to beat at least once.
Sweepable(c) == {r \in c.registered \cap c.beaten : member[r] # "unreachable"}

SweepStaleRegion(c, r) ==
    {ToRegion(after, r, "RegionEvicted") : after \in OnRegionTerminated(c, r)}

BeginHandOff(c) == ToRegion([c EXCEPT !.rebalancing = c.home], c.home, "HandOff")

\* A move is only asked of an owner that is registered on an up member.
Movable(c) == c.rebalancing = None /\ c.home \in c.registered \cap Up

-------------------------------------------------------------------------------
(* A region.  `local', `home' and `state' are its localShards, shardHomes and   *)
(* shardState for the shard; `actor' is the shard actor in its `shards' map.    *)

Absent == [running |-> FALSE, local |-> FALSE, home |-> None, state |-> None,
           actor |-> "none", queue |-> <<>>, busy |-> FALSE, declined |-> FALSE,
           handingOff |-> FALSE, releasing |-> FALSE, passivating |-> FALSE,
           buffered |-> 0, registering |-> FALSE, frames |-> <<>>]

ToCoordinator(g, kind) ==
    [g EXCEPT !.frames = Append(@, [kind |-> kind, claims |-> kind = "Register" /\ g.local])]

AskCoordinator(g) == ToCoordinator(g, "GetShardHome")

\* ensureRegistered and register: claim what is hosted, re-ask for what is
\* buffered, and keep the retry armed until an answer.
EnsureRegistered(g) ==
    LET registered == [ToCoordinator(g, "Register") EXCEPT !.registering = TRUE]
    IN  IF g.buffered > 0 THEN AskCoordinator(registered) ELSE registered

EnsureShard(g) ==
    IF g.actor # "none" THEN g
    ELSE [g EXCEPT !.actor = "live", !.queue = <<>>, !.busy = FALSE, !.declined = FALSE]

ShardCannotTakeMessages(g) == g.state \in {"handing-off", "passivating", "backing-off"}

\* Where a message for the shard goes from region g.
Routed(g) ==
    CASE ShardCannotTakeMessages(g) -> "buffer"
      [] ~ShardCannotTakeMessages(g) /\ g.home = None -> "ask"
      [] ~ShardCannotTakeMessages(g) /\ g.home # None /\ g.local -> "local"
      [] OTHER -> "remote"

\* A full buffer turns the newest away, to dead letters.
BufferShard(g, count) ==
    [g EXCEPT !.buffered = IF @ + count <= BufferSize THEN @ + count ELSE BufferSize]

\* `count' messages routed at region g: its new state.
RouteMessages(g, count) ==
    CASE count = 0 -> g
      [] count > 0 /\ Routed(g) = "buffer" -> BufferShard(g, count)
      [] count > 0 /\ Routed(g) = "ask" -> AskCoordinator(BufferShard(g, count))
      [] count > 0 /\ Routed(g) = "local" ->
            LET hosted == EnsureShard(g)
            IN  IF hosted.actor # "live" THEN hosted
                ELSE [hosted EXCEPT !.queue = @ \o [i \in 1..count |-> "message"]]
      [] OTHER -> g

\* What a routing step adds to the mail of another region, and to `dropped'.
Forwarded(g, count) == IF count > 0 /\ Routed(g) = "remote" THEN count ELSE 0
DroppedBy(g, count) ==
    IF count > 0 /\ Routed(g) = "local" /\ EnsureShard(g).actor # "live" THEN count ELSE 0

\* A handler's outcome: the region, and the messages it takes from its buffer to
\* route once the handler has set its state.
Keeps(g) == [region |-> g, flush |-> 0]
Flushes(g) == [region |-> [g EXCEPT !.buffered = 0], flush |-> g.buffered]

\* The shard's stop, ordered: what its mailbox holds goes to dead letters.
StopShard(g) ==
    IF g.actor = "live" THEN [g EXCEPT !.actor = "stopping", !.queue = <<>>] ELSE g

\* Mutant: a placement repeated while the shard is asked to passivate marks it owned.
OnShardHomeForgetsPassivation(g, r, home) ==
    IF home # r
    THEN Flushes([g EXCEPT !.home = home, !.local = FALSE, !.state = None])
    ELSE LET mine == [g EXCEPT !.home = r, !.local = TRUE]
         IN  IF g.state = "backing-off" THEN Keeps(mine)
             ELSE Flushes(EnsureShard([mine EXCEPT !.state = "owned"]))

OnShardHome(g, r, home) ==
    IF home # r
    THEN Flushes([g EXCEPT !.home = home, !.local = FALSE, !.state = None])
    ELSE LET mine == [g EXCEPT !.home = r, !.local = TRUE]
         IN  CASE g.state = "backing-off" -> Keeps(mine)
               [] g.state # "backing-off" /\ g.passivating ->
                     Keeps([mine EXCEPT !.state = "passivating"])
               [] OTHER -> Flushes(EnsureShard([mine EXCEPT !.state = "owned"]))

\* Mutant: the hand-off completes without asking where the buffer goes now.
CompleteHandOffWithoutAsking(g) ==
    Keeps(ToCoordinator([g EXCEPT !.handingOff = FALSE, !.passivating = FALSE, !.actor = "none",
                                  !.local = FALSE, !.home = None, !.state = None],
                        "HandOffComplete"))

CompleteHandOff(g) ==
    LET completed == ToCoordinator(
            [g EXCEPT !.handingOff = FALSE, !.passivating = FALSE, !.actor = "none",
                      !.local = FALSE, !.home = None, !.state = None], "HandOffComplete")
    IN  Keeps(IF g.buffered > 0 THEN AskCoordinator(completed) ELSE completed)

\* Mutant: the hand-off is confirmed when the shard is told to stop, not when it has.
OnHandOffEager(g) ==
    IF g.handingOff \/ ~g.local THEN Keeps(g)
    ELSE IF g.actor = "none" THEN CompleteHandOff(g)
    ELSE Keeps([ToCoordinator([StopShard(g) EXCEPT !.handingOff = TRUE, !.local = FALSE,
                                                   !.state = "handing-off"],
                              "HandOffComplete") EXCEPT !.handingOff = TRUE])

OnHandOff(g) ==
    LET marked == [g EXCEPT !.state = "handing-off"]
    IN  CASE g.handingOff \/ ~g.local -> Keeps(g)
          [] ~g.handingOff /\ g.local /\ g.actor = "none" -> CompleteHandOff(marked)
          [] OTHER -> Keeps([StopShard(marked) EXCEPT !.handingOff = TRUE])

ReleaseEverything(g) ==
    LET forgotten == [g EXCEPT !.home = None, !.local = FALSE, !.state = None]
    IN  IF g.actor = "none" THEN forgotten
        ELSE [StopShard(forgotten) EXCEPT !.handingOff = FALSE, !.passivating = FALSE,
                                          !.releasing = TRUE]

OnRegionEvicted(g) == Keeps(EnsureRegistered(ReleaseEverything(g)))

HandleShardingMessage(g, r, frame) ==
    CASE frame.kind = "RegisterAcknowledgment" -> Keeps([g EXCEPT !.registering = FALSE])
      [] frame.kind = "RegistrationRequest"    -> Keeps(EnsureRegistered(g))
      [] frame.kind = "RegionEvicted"          -> OnRegionEvicted(g)
      [] frame.kind = "ShardHome"              -> OnShardHome(g, r, frame.home)
      [] frame.kind = "HandOff"                -> OnHandOff(g)

HandleShardTerminated(g) ==
    LET gone == [g EXCEPT !.actor = "none"]
    IN  CASE g.releasing -> Keeps([gone EXCEPT !.releasing = FALSE])
          [] ~g.releasing /\ g.handingOff -> CompleteHandOff(gone)
          [] ~g.releasing /\ ~g.handingOff /\ g.passivating ->
                Flushes([gone EXCEPT !.passivating = FALSE,
                                     !.state = IF g.local THEN "owned" ELSE None])
          [] OTHER -> Keeps(IF g.local THEN [gone EXCEPT !.state = "backing-off"] ELSE gone)

OnShardPassivationDeclined(g) ==
    IF ~g.passivating \/ g.handingOff THEN Keeps([g EXCEPT !.declined = FALSE])
    ELSE Flushes([g EXCEPT !.declined = FALSE, !.passivating = FALSE,
                           !.state = IF g.local THEN "owned" ELSE @])

OnMemberRemoved(g, node) ==
    Keeps(EnsureRegistered(IF g.home = node THEN [g EXCEPT !.home = None, !.state = None] ELSE g))

-------------------------------------------------------------------------------
(* The steps.                                                                   *)

\* Region r ends a handler with `outcome': its state, and what it routes.
Becomes(r, outcome) ==
    LET g == outcome.region  count == outcome.flush
    IN  /\ regions' = [regions EXCEPT ![r] = RouteMessages(g, count)]
        /\ mail' = IF Forwarded(g, count) > 0
                   THEN [mail EXCEPT ![g.home] = @ + Forwarded(g, count)] ELSE mail
        /\ dropped' = dropped + DroppedBy(g, count)

Spend(kind) == left[kind] > 0 /\ left' = [left EXCEPT ![kind] = @ - 1]

\* The coordinator handles the next frame of region r.
CoordinatorReceives(r) ==
    /\ regions[r].frames # <<>>
    /\ coordinator' \in DispatchShardingMessage(coordinator, r, Head(regions[r].frames))
    /\ regions' = [regions EXCEPT ![r].frames = Tail(@)]
    /\ UNCHANGED <<member, notices, mail, dropped, scenario, left>>

\* Region r handles the coordinator's next frame; a stopped region drops it.
RegionReceives(r) ==
    /\ coordinator.frames[r] # <<>>
    /\ coordinator' = [coordinator EXCEPT !.frames[r] = Tail(@)]
    /\ Becomes(r, IF regions[r].running
                  THEN HandleShardingMessage(regions[r], r, Head(coordinator.frames[r]))
                  ELSE Keeps(regions[r]))
    /\ UNCHANGED <<member, notices, scenario, left>>

\* The link loses the coordinator's next frame to region r.
FrameLost(r) ==
    /\ coordinator.frames[r] # <<>> /\ Head(coordinator.frames[r]).kind \in scenario.losable
    /\ Spend("losses")
    /\ coordinator' = [coordinator EXCEPT !.frames[r] = Tail(@)]
    /\ UNCHANGED <<regions, member, notices, mail, dropped, scenario>>

\* An application sends a message for the shard through region r.
Send(r) ==
    /\ regions[r].running /\ Spend("messages")
    /\ Becomes(r, [region |-> regions[r], flush |-> 1])
    /\ UNCHANGED <<coordinator, member, notices, scenario>>

\* A message forwarded by another region arrives and is routed again; with no
\* region behind the path it is a dead letter.
MailArrives(r) ==
    /\ mail[r] > 0
    /\ LET g == regions[r]
           routed == [mail EXCEPT ![r] = @ - 1]
       IN  IF ~g.running THEN mail' = routed /\ UNCHANGED <<regions, dropped>>
           ELSE /\ regions' = [regions EXCEPT ![r] = RouteMessages(g, 1)]
                /\ mail' = IF Forwarded(g, 1) > 0 THEN [routed EXCEPT ![g.home] = @ + 1] ELSE routed
                /\ dropped' = dropped + DroppedBy(g, 1)
    /\ UNCHANGED <<coordinator, member, notices, scenario, left>>

\* The shard takes the next message of its mailbox.  Asked to passivate, it stops
\* itself when idle, and declines when an entity is up.
ShardTurn(r) ==
    LET g == regions[r]
        next == [g EXCEPT !.queue = Tail(@)]
        lost == Cardinality({i \in 2..Len(g.queue) : g.queue[i] = "message"})
    IN  /\ g.actor = "live" /\ g.queue # <<>>
        /\ \/ /\ Head(g.queue) = "message"
              /\ regions' = [regions EXCEPT ![r] = [next EXCEPT !.busy = TRUE]]
              /\ UNCHANGED dropped
           \/ /\ Head(g.queue) = "passivate" /\ g.busy
              /\ regions' = [regions EXCEPT ![r] = [next EXCEPT !.declined = TRUE]]
              /\ UNCHANGED dropped
           \/ /\ Head(g.queue) = "passivate" /\ ~g.busy
              /\ regions' = [regions EXCEPT ![r] = StopShard(g)]
              /\ dropped' = dropped + lost
        /\ UNCHANGED <<coordinator, member, notices, mail, scenario, left>>

\* The shard's last entity stops, passivated or done.
EntitiesStop(r) ==
    /\ regions[r].busy
    /\ regions' = [regions EXCEPT ![r].busy = FALSE]
    /\ UNCHANGED <<coordinator, member, notices, mail, dropped, scenario, left>>

\* A stopping shard is gone once its entities are; the region has yet to hear it.
ShardStops(r) ==
    /\ regions[r].actor = "stopping"
    /\ regions' = [regions EXCEPT ![r].actor = "stopped", ![r].busy = FALSE]
    /\ UNCHANGED <<coordinator, member, notices, mail, dropped, scenario, left>>

\* A shard actor fails for good.
ShardFails(r) ==
    /\ regions[r].actor = "live" /\ Spend("failures")
    /\ regions' = [regions EXCEPT ![r].actor = "stopped", ![r].queue = <<>>, ![r].busy = FALSE]
    /\ UNCHANGED <<coordinator, member, notices, mail, dropped, scenario>>

ShardTerminated(r) ==
    /\ regions[r].actor = "stopped"
    /\ Becomes(r, HandleShardTerminated(regions[r]))
    /\ UNCHANGED <<coordinator, member, notices, scenario, left>>

PassivationDeclined(r) ==
    /\ regions[r].declined
    /\ Becomes(r, OnShardPassivationDeclined(regions[r]))
    /\ UNCHANGED <<coordinator, member, notices, scenario, left>>

\* The respawn tick of a shard that backed off.
OnShardRespawnTick(r) ==
    /\ regions[r].state = "backing-off" /\ regions[r].local
    /\ Becomes(r, Flushes(EnsureShard([regions[r] EXCEPT !.state = "owned"])))
    /\ UNCHANGED <<coordinator, member, notices, scenario, left>>

\* The sweep finds the shard empty, as far as the region has been told.
PassivateShard(r) ==
    LET g == regions[r]
    IN  /\ g.local /\ g.actor # "none" /\ ~g.handingOff /\ ~g.passivating /\ g.buffered = 0
        /\ Spend("passivations")
        /\ regions' = [regions EXCEPT ![r] =
              [g EXCEPT !.passivating = TRUE, !.state = "passivating",
                        !.queue = IF g.actor = "live" THEN Append(@, "passivate") ELSE @]]
        /\ UNCHANGED <<coordinator, member, notices, mail, dropped, scenario>>

\* The register retry, armed until an answer.  One registration is under way at a
\* time here; a repeat of an unanswered one changes nothing at the coordinator.
RegisterRetry(r) ==
    /\ regions[r].registering
    /\ \A i \in 1..Len(regions[r].frames) : regions[r].frames[i].kind # "Register"
    /\ \A i \in 1..Len(coordinator.frames[r]) :
          coordinator.frames[r][i].kind # "RegisterAcknowledgment"
    /\ Becomes(r, Keeps(EnsureRegistered(regions[r])))
    /\ UNCHANGED <<coordinator, member, notices, scenario, left>>

\* The beat of the opt-in stale-region detection, one at a time on the link.
SendRegionHeartbeat(r) ==
    /\ scenario.detection /\ regions[r].running
    /\ \A i \in 1..Len(regions[r].frames) : regions[r].frames[i].kind # "RegionHeartbeat"
    /\ coordinator.frames[r] = <<>>
    /\ regions' = [regions EXCEPT ![r] = ToCoordinator(@, "RegionHeartbeat")]
    /\ UNCHANGED <<coordinator, member, notices, mail, dropped, scenario, left>>

\* The coordinator's tick: it evicts regions silent for too long, then may move
\* the shard.  A running region is silent only when its beats are late or lost.
RebalanceTick(swept, move) ==
    /\ swept # {} \/ move
    /\ \/ swept = {}
       \/ /\ scenario.detection /\ swept \subseteq Sweepable(coordinator)
          /\ Cardinality(swept) = 1
    /\ LET false == {r \in swept : regions[r].running}
       IN  /\ left.evictions >= Cardinality(false)
           /\ move => left.rebalances > 0
           /\ left' = [left EXCEPT !.evictions = @ - Cardinality(false),
                                   !.rebalances = @ - (IF move THEN 1 ELSE 0)]
    /\ \E c \in IF swept = {} THEN {coordinator}
                ELSE UNION {SweepStaleRegion(coordinator, r) : r \in swept} :
          /\ move => Movable(c)
          /\ coordinator' = IF move THEN BeginHandOff(c) ELSE c
    /\ UNCHANGED <<regions, member, notices, mail, dropped, scenario>>

\* The region asked to give the shard up is still on its way to answer.
AnswerComing(r) ==
    \/ \E i \in 1..Len(coordinator.frames[r]) : coordinator.frames[r][i].kind = "HandOff"
    \/ regions[r].handingOff /\ regions[r].actor # "none"
    \/ \E i \in 1..Len(regions[r].frames) :
          regions[r].frames[i].kind \in {"HandOffComplete", "RegionTerminated"}

\* The hand-off timer: early when the answer is slow, in the end when none comes.
OnHandOffTimeout ==
    /\ coordinator.rebalancing # None
    /\ IF AnswerComing(coordinator.rebalancing) THEN Spend("timeouts") ELSE UNCHANGED left
    /\ coordinator' \in TryAllocate([ReleaseFromPreviousOwner(coordinator)
                                        EXCEPT !.rebalancing = None])
    /\ UNCHANGED <<regions, member, notices, mail, dropped, scenario>>

-------------------------------------------------------------------------------
(* Regions come and go, and the membership has its say.                         *)

\* sharding.start on a node: preStart registers the region.
Start(r) ==
    /\ ~regions[r].running /\ Spend("starts")
    /\ regions' = [regions EXCEPT ![r] =
          EnsureRegistered([Absent EXCEPT !.running = TRUE, !.frames = regions[r].frames])]
    /\ UNCHANGED <<coordinator, member, notices, mail, dropped, scenario>>

\* A region stops: its shard has stopped before postStop tells the coordinator.
Stop(r) ==
    /\ regions[r].running /\ Spend("stops")
    /\ \E told \in IF "RegionTerminated" \in scenario.losable THEN BOOLEAN ELSE {TRUE} :
          regions' = [regions EXCEPT ![r] =
              LET stopped == [Absent EXCEPT !.frames = regions[r].frames]
              IN  IF told THEN ToCoordinator(stopped, "RegionTerminated") ELSE stopped]
    /\ notices' = [notices EXCEPT ![r] = {}]
    /\ UNCHANGED <<coordinator, member, mail, dropped, scenario>>

Running == {r \in Region : regions[r].running}

\* The regions that hear of a change in the leader's view: its own, and those of
\* the nodes whose view changes as well.  A node need not learn what the leader
\* held of it, nor a third one of a record that was back before it was told.
Hearers == {told \in SUBSET Running : scenario.leader \in Running => scenario.leader \in told}

\* A node falls silent to the leader's failure detector; the link may still deliver.
Suspect(r) ==
    /\ member[r] = "up" /\ r # scenario.leader /\ Spend("suspicions")
    /\ member' = [member EXCEPT ![r] = "unreachable"]
    /\ UNCHANGED <<coordinator, regions, notices, mail, dropped, scenario>>

\* It is downed although its region runs on: the coordinator drops its regions,
\* the others forget the homes they know on it.  A node silent for that long has
\* had what was sent to it before, or never will.
Remove(r) ==
    /\ member[r] = "unreachable" /\ Spend("removals")
    /\ member' = [member EXCEPT ![r] = "removed"]
    /\ coordinator' \in OnRegionTerminated([coordinator EXCEPT !.frames[r] = <<>>], r)
    /\ \E told \in Hearers :
          notices' = [q \in Region |-> IF q \in told \ {r} THEN notices[q] \cup {r} ELSE notices[q]]
    /\ UNCHANGED <<regions, mail, dropped, scenario>>

\* It is heard from again, or merged again after a removal: MemberUp, on which a
\* region registers again.
Return(r) ==
    /\ member[r] # "up"
    /\ member' = [member EXCEPT ![r] = "up"]
    /\ \E told \in Hearers :
          notices' = [q \in Region |-> IF q \in told THEN notices[q] \cup {"up"} ELSE notices[q]]
    /\ UNCHANGED <<coordinator, regions, mail, dropped, scenario, left>>

\* A region's cluster subscription hands it the events owed.
ClusterEvent(r) ==
    /\ \E event \in notices[r] :
          /\ notices' = [notices EXCEPT ![r] = @ \ {event}]
          /\ Becomes(r, IF event = "up" THEN Keeps(EnsureRegistered(regions[r]))
                        ELSE OnMemberRemoved(regions[r], event))
    /\ UNCHANGED <<coordinator, member, scenario, left>>

-------------------------------------------------------------------------------
\* A cluster whose members are up; the scenario's regions have registered.
Init ==
    /\ scenario \in Scenarios
    /\ left = scenario.budget
    /\ coordinator = [registered |-> scenario.running, beaten |-> {}, listed |-> {},
                      home |-> None, rebalancing |-> None, pending |-> {}, crossed |-> FALSE,
                      frames |-> [r \in Region |-> <<>>]]
    /\ regions = [r \in Region |-> [Absent EXCEPT !.running = r \in scenario.running]]
    /\ member = [r \in Region |-> "up"]
    /\ notices = [r \in Region |-> {}]
    /\ mail = [r \in Region |-> 0]
    /\ dropped = 0

Next ==
    \/ \E r \in Region :
          \/ CoordinatorReceives(r)   \/ RegionReceives(r)      \/ FrameLost(r)
          \/ Send(r)                  \/ MailArrives(r)
          \/ ShardTurn(r)             \/ EntitiesStop(r)        \/ ShardStops(r)
          \/ ShardFails(r)            \/ ShardTerminated(r)     \/ PassivationDeclined(r)
          \/ OnShardRespawnTick(r)    \/ PassivateShard(r)      \/ RegisterRetry(r)
          \/ SendRegionHeartbeat(r)   \/ Start(r)               \/ Stop(r)
          \/ Suspect(r)               \/ Remove(r)              \/ Return(r)
          \/ ClusterEvent(r)
    \/ \E swept \in SUBSET Region, move \in BOOLEAN : RebalanceTick(swept, move)
    \/ OnHandOffTimeout

Spec == Init /\ [][Next]_vars

\* Links deliver, actors take their turns, timers fire, and a region gone for good
\* is swept in the end.  No fault is fair, nor is the return of a suspected node: one
\* cut off by a partition need not be heard from again (#930).
Fairness ==
    /\ \A r \in Region :
          /\ WF_vars(CoordinatorReceives(r))
          /\ WF_vars(RegionReceives(r))
          /\ WF_vars(MailArrives(r))
          /\ WF_vars(ShardTurn(r) \/ ShardStops(r) \/ ShardTerminated(r))
          /\ WF_vars(PassivationDeclined(r))
          /\ WF_vars(OnShardRespawnTick(r))
          /\ WF_vars(RegisterRetry(r) \/ SendRegionHeartbeat(r))
          /\ WF_vars(ClusterEvent(r))
    /\ WF_vars(\E r \in Region \ Running : RebalanceTick({r}, FALSE))
    /\ WF_vars(OnHandOffTimeout /\ ~AnswerComing(coordinator.rebalancing))

FairSpec == Spec /\ Fairness

-------------------------------------------------------------------------------
Maybe == Region \cup {None}

\* The maps hold what the code's types allow, and a region runs only what it may.
TypeOK ==
    /\ coordinator.registered \subseteq Region /\ coordinator.beaten \subseteq coordinator.registered
    /\ coordinator.home \in Maybe \ Proxy /\ coordinator.rebalancing \in Maybe \ Proxy
    /\ coordinator.pending \subseteq Region
    /\ \A r \in Region :
          /\ regions[r].actor \in {"none", "live", "stopping", "stopped"}
          /\ regions[r].state \in {None, "owned", "handing-off", "passivating", "backing-off"}
          /\ regions[r].home \in Maybe \ Proxy
          /\ r \in Proxy \/ ~regions[r].running =>
                regions[r].actor = "none" /\ ~regions[r].local

Copies == {r \in Region : regions[r].actor \in {"live", "stopping"}}

\* Nothing forces the coordinator's hand in this scenario: no hand-off is given up
\* early, no running region is evicted or downed.
Orderly ==
    scenario.budget.timeouts = 0 /\ scenario.budget.evictions = 0 /\ scenario.budget.removals = 0

\* "Each entity is one actor, on one node, at a time" (sharding/overview.mdx): no
\* two regions run the shard, a stopping one included.
OneActorOneNode == Orderly => Cardinality(Copies) <= 1

\* The same through rebalances, stops and starts of regions, passivation and
\* failures of the shard, as long as no region that is giving the shard up was
\* answered that it is the home (onHandOff, completeHandOff, tryAllocate).
OneHome == Orderly /\ ~coordinator.crossed => Cardinality(Copies) <= 1

\* The per-region index agrees with the map: exactly the home lists the shard, so
\* a region that goes takes exactly its own shards with it (#1429).
ListingAgrees == coordinator.listed = {coordinator.home} \ {None}

\* A message sent while the shard moves or passivates is delayed, not dropped: it
\* is never told to a shard actor on its way out (route, onShardHome).  What a full
\* buffer turns away (bufferShard) is not counted.
DelayedNotDropped ==
    Orderly /\ ~coordinator.crossed /\ scenario.budget.failures = 0 => dropped = 0

Owners == {r \in Region : regions[r].local}

\* A region the coordinator has no word from and no way to reach: its node is not
\* up, or it was dropped with its node, heard no event on which it registers, and
\* sends no beat the coordinator could answer.
Unheard(r) == member[r] # "up" \/ (~scenario.detection /\ r \notin coordinator.registered)

\* Whatever an eviction, a lost notice, a false downing or an early timeout left
\* behind, the regions come to agree with the coordinator on who owns the shard:
\* the claims a region registers are adjudicated, the loser told to hand off.  Only
\* a region that stays unheard keeps what it believes it owns.
SettlesOnOneOwner ==
    <>[](~coordinator.crossed =>
            \A r \in Owners : r = coordinator.home \/ Unheard(r))

\* The query of region r was parked when no region was on an up member; neither a
\* registration nor the member's return allocates, only the next query.
Parked(r) ==
    /\ left.suspicions < scenario.budget.suspicions
    /\ r \in coordinator.pending /\ coordinator.home = None /\ coordinator.rebalancing = None

\* What a region buffers for the shard is routed in the end, unless its query stays
\* parked or the region unheard for good (askCoordinator, flushPending, flushBuffer).
BufferDrains ==
    \A r \in Region :
        regions[r].buffered > 0 ~> (regions[r].buffered = 0 \/ [](Parked(r) \/ Unheard(r)))
=============================================================================
