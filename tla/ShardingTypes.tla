----------------------------- MODULE ShardingTypes -----------------------------
(***************************************************************************)
(* Two results on one shard, for every set of regions and every scenario:  *)
(*                                                                         *)
(*  - the coordinator's map and the index of each region agree after every *)
(*    step, whatever is lost, times out or is evicted (Placed);            *)
(*  - the maps keep their types, and what may not host hosts nothing       *)
(*    (Types).                                                             *)
(*                                                                         *)
(* The module also defines Good, which ties one region to the coordinator  *)
(* and to the frames between them, and Settled, about one region's shard   *)
(* actor, and shows that the operations of a region keep them.             *)
(***************************************************************************)
EXTENDS Sharding, FiniteSetTheorems, TLAPS

\* The fields of the coordinator.
Fields == {"registered", "beaten", "listed", "home", "rebalancing", "pending", "crossed", "frames"}

IsCoordinator(c) == c = [field \in Fields |-> c[field]]

(***************************************************************************)
(* The home is a region on record, a hand-off under way is the home's, and *)
(* exactly the home lists the shard.  The last alone is not inductive: a   *)
(* hand-off that ended for another region than the home would clear the    *)
(* map and leave the listing.                                              *)
(***************************************************************************)
Placed(c) ==
    /\ IsCoordinator(c)
    /\ c.registered \subseteq Region
    /\ c.home \in c.registered \cup {None}
    /\ c.rebalancing \in {c.home, None}
    /\ c.listed = {c.home} \ {None}

-----------------------------------------------------------------------------
(* What the coordinator's operations preserve *)

\* Frames and pending queries are beside the point.
LEMMA ToRegionPlaced ==
    ASSUME NEW c, Placed(c), NEW r \in Region, NEW kind PROVE Placed(ToRegion(c, r, kind))
BY DEF Placed, IsCoordinator, Fields, ToRegion

LEMMA FlushPendingPlaced ==
    ASSUME NEW c, Placed(c) PROVE Placed(FlushPending(c))
BY DEF Placed, IsCoordinator, Fields, FlushPending

\* The strategy places a shard that has no home.
LEMMA TryAllocatePlaced ==
    ASSUME NEW c, Placed(c), c.home = None, NEW d \in TryAllocate(c) PROVE Placed(d)
<1>1. CASE EligibleRegions(c) = {}
  BY <1>1 DEF TryAllocate
<1>2. CASE EligibleRegions(c) # {}
  <2>1. PICK r \in EligibleRegions(c) :
          d = FlushPending(ToRegion([c EXCEPT !.home = r, !.listed = @ \cup {r}], r, "ShardHome"))
    BY <1>2 DEF TryAllocate
  <2> DEFINE homed == [c EXCEPT !.home = r, !.listed = @ \cup {r}]
  <2>2. r \in Region /\ r \in c.registered
    BY DEF EligibleRegions, Placed
  <2>3. /\ IsCoordinator(homed)
        /\ homed.registered = c.registered /\ homed.rebalancing = c.rebalancing
        /\ homed.home = r /\ homed.listed = c.listed \cup {r}
    BY DEF Placed, IsCoordinator, Fields
  <2>4. Placed(homed)
    BY <2>2, <2>3, ShardingConstants DEF Placed
  <2> HIDE DEF homed
  <2> QED BY <2>1, <2>2, <2>4, ToRegionPlaced, FlushPendingPlaced DEF homed
<1> QED BY <1>1, <1>2

\* The end of a hand-off, confirmed or timed out.
LEMMA ReleasePlaced ==
    ASSUME NEW c, Placed(c), c.rebalancing # None
    PROVE  LET released == [ReleaseFromPreviousOwner(c) EXCEPT !.rebalancing = None]
           IN  Placed(released) /\ released.home = None
<1> DEFINE released == [ReleaseFromPreviousOwner(c) EXCEPT !.rebalancing = None]
<1>1. /\ IsCoordinator(released)
      /\ released.registered = c.registered /\ released.rebalancing = None
      /\ released.home = None /\ released.listed = c.listed \ {c.rebalancing}
  BY DEF Placed, IsCoordinator, Fields, ReleaseFromPreviousOwner
<1>2. c.listed \ {c.rebalancing} = {}
  BY DEF Placed
<1> QED BY <1>1, <1>2 DEF Placed

LEMMA OnRegisterPlaced ==
    ASSUME NEW c, Placed(c), NEW r \in Region, NEW claims, NEW d \in OnRegister(c, r, claims)
    PROVE  Placed(d)
<1> DEFINE adopted == claims /\ (c.home \in {None, r} \/ c.home \notin c.registered)
           home    == IF adopted THEN r ELSE c.home
           joined  == [c EXCEPT !.registered = @ \cup {r}, !.home = home,
                                !.listed = IF home = r THEN @ \cup {r} ELSE @ \ {r}]
           acked   == ToRegion(joined, r, "RegisterAcknowledgment")
<1>1. d = IF adopted THEN FlushPending(acked)
          ELSE IF claims /\ c.rebalancing = None THEN ToRegion(acked, r, "HandOff")
          ELSE acked
  BY DEF OnRegister
<1>2. Placed(joined)
  <2>1. /\ IsCoordinator(joined)
        /\ joined.registered = c.registered \cup {r} /\ joined.rebalancing = c.rebalancing
        /\ joined.home = home
        /\ joined.listed = IF home = r THEN c.listed \cup {r} ELSE c.listed \ {r}
    BY DEF Placed, IsCoordinator, Fields
  <2>2. home \in {c.home, r} /\ c.rebalancing \in {home, None}
    BY DEF Placed
  <2>3. (IF home = r THEN c.listed \cup {r} ELSE c.listed \ {r}) = {home} \ {None}
    BY ShardingConstants DEF Placed
  <2> HIDE DEF joined, home
  <2> QED BY <2>1, <2>2, <2>3 DEF Placed
<1> HIDE DEF joined
<1>3. Placed(acked)
  BY <1>2, ToRegionPlaced
<1> HIDE DEF acked, adopted
<1> QED BY <1>1, <1>3, ToRegionPlaced, FlushPendingPlaced

LEMMA OnGetShardHomePlaced ==
    ASSUME NEW c, Placed(c), NEW r \in Region, NEW d \in OnGetShardHome(c, r) PROVE Placed(d)
<1>1. CASE c.home \in c.registered
  <2> DEFINE told == ToRegion(c, r, "ShardHome")
  <2>1. d = [told EXCEPT !.crossed = @ \/ c.rebalancing = r]
    BY <1>1 DEF OnGetShardHome
  <2>2. Placed(told)
    BY ToRegionPlaced
  <2> HIDE DEF told
  <2> QED BY <2>1, <2>2 DEF Placed, IsCoordinator, Fields
<1>2. CASE c.home \notin c.registered
  <2> DEFINE parked == [c EXCEPT !.pending = @ \cup {r}]
  <2>1. Placed(parked) /\ parked.home = None
    BY <1>2 DEF Placed, IsCoordinator, Fields
  <2>2. d \in IF c.rebalancing = None THEN TryAllocate(parked) ELSE {parked}
    BY <1>2 DEF OnGetShardHome
  <2> HIDE DEF parked
  <2> QED BY <2>1, <2>2, TryAllocatePlaced
<1> QED BY <1>1, <1>2

LEMMA OnHandOffCompletePlaced ==
    ASSUME NEW c, Placed(c), NEW r \in Region, NEW d \in OnHandOffComplete(c, r) PROVE Placed(d)
<1>1. CASE c.rebalancing # r
  BY <1>1 DEF OnHandOffComplete
<1>2. CASE c.rebalancing = r
  <2> DEFINE released == [ReleaseFromPreviousOwner(c) EXCEPT !.rebalancing = None]
  <2>1. Placed(released) /\ released.home = None
    BY <1>2, ReleasePlaced, ShardingConstants
  <2>2. d \in TryAllocate(released)
    BY <1>2 DEF OnHandOffComplete
  <2> HIDE DEF released
  <2> QED BY <2>1, <2>2, TryAllocatePlaced
<1> QED BY <1>1, <1>2

LEMMA OnRegionTerminatedPlaced ==
    ASSUME NEW c, Placed(c), NEW r \in Region, NEW d \in OnRegionTerminated(c, r) PROVE Placed(d)
<1> DEFINE gone == [c EXCEPT !.registered = @ \ {r}, !.beaten = @ \ {r}, !.listed = @ \ {r}]
           homeless == [gone EXCEPT !.home = None, !.rebalancing = None]
<1>1. CASE r \notin c.registered
  BY <1>1 DEF OnRegionTerminated
<1>2. CASE r \in c.registered /\ r \in c.listed
  <2>1. Placed(homeless) /\ homeless.home = None
    <3>1. /\ IsCoordinator(homeless)
          /\ homeless.registered = c.registered \ {r} /\ homeless.rebalancing = None
          /\ homeless.home = None /\ homeless.listed = c.listed \ {r}
      BY DEF Placed, IsCoordinator, Fields
    <3>2. c.listed \ {r} = {}
      BY <1>2 DEF Placed
    <3> QED BY <3>1, <3>2 DEF Placed
  <2>2. d \in TryAllocate(homeless)
    BY <1>2 DEF OnRegionTerminated
  <2> HIDE DEF homeless
  <2> QED BY <2>1, <2>2, TryAllocatePlaced
<1>3. CASE r \in c.registered /\ r \notin c.listed
  <2>1. d = gone
    BY <1>3 DEF OnRegionTerminated
  <2>2. Placed(gone)
    <3>1. /\ IsCoordinator(gone)
          /\ gone.registered = c.registered \ {r} /\ gone.rebalancing = c.rebalancing
          /\ gone.home = c.home /\ gone.listed = c.listed \ {r}
      BY DEF Placed, IsCoordinator, Fields
    <3>2. r # None /\ c.listed \ {r} = c.listed /\ c.home # r
      BY <1>3, ShardingConstants DEF Placed
    <3> QED BY <3>1, <3>2 DEF Placed
  <2> QED BY <2>1, <2>2
<1> QED BY <1>1, <1>2, <1>3

LEMMA DispatchPlaced ==
    ASSUME NEW c, Placed(c), NEW r \in Region, NEW frame,
           NEW d \in DispatchShardingMessage(c, r, frame)
    PROVE  Placed(d)
<1>1. CASE d \in OnRegionHeartbeat(c, r)
  <2>1. Placed([c EXCEPT !.beaten = @ \cup {r}])
    BY DEF Placed, IsCoordinator, Fields
  <2> QED BY <1>1, <2>1, ToRegionPlaced DEF OnRegionHeartbeat
<1> QED
  BY <1>1, OnRegisterPlaced, OnGetShardHomePlaced, OnHandOffCompletePlaced,
     OnRegionTerminatedPlaced DEF DispatchShardingMessage

-----------------------------------------------------------------------------
(* Every step *)

LEMMA RebalanceTickPlaced ==
    ASSUME Placed(coordinator), NEW swept \in SUBSET Region, NEW move \in BOOLEAN,
           RebalanceTick(swept, move)
    PROVE  Placed(coordinator')
<1>1. PICK c \in IF swept = {} THEN {coordinator}
                 ELSE UNION {SweepStaleRegion(coordinator, r) : r \in swept} :
          /\ move => Movable(c)
          /\ coordinator' = IF move THEN BeginHandOff(c) ELSE c
  BY DEF RebalanceTick
<1>2. Placed(c)
  <2>1. CASE swept = {}
    BY <2>1
  <2>2. CASE swept # {}
    <3>1. PICK r \in swept : c \in SweepStaleRegion(coordinator, r)
      BY <2>2
    <3>2. PICK after \in OnRegionTerminated(coordinator, r) : c = ToRegion(after, r, "RegionEvicted")
      BY <3>1 DEF SweepStaleRegion
    <3>3. Placed(after)
      BY OnRegionTerminatedPlaced
    <3> QED BY <3>2, <3>3, ToRegionPlaced
  <2> QED BY <2>1, <2>2
<1>3. CASE move
  <2> DEFINE begun == [c EXCEPT !.rebalancing = c.home]
  <2>1. c.home \in Region
    BY <1>1, <1>3 DEF Movable, Up
  <2>2. Placed(begun)
    BY <1>2 DEF Placed, IsCoordinator, Fields
  <2>3. coordinator' = ToRegion(begun, c.home, "HandOff")
    BY <1>1, <1>3 DEF BeginHandOff
  <2> HIDE DEF begun
  <2> QED BY <2>1, <2>2, <2>3, ToRegionPlaced
<1> QED BY <1>1, <1>2, <1>3

\* Before the shard is placed, nobody lists it.
LEMMA PlacedInit == Init => Placed(coordinator)
<1> SUFFICES ASSUME Init PROVE Placed(coordinator)
  OBVIOUS
<1>1. /\ scenario.running \subseteq Region
      /\ coordinator = [registered |-> scenario.running, beaten |-> {}, listed |-> {},
                         home |-> None, rebalancing |-> None, pending |-> {}, crossed |-> FALSE,
                         frames |-> [r \in Region |-> <<>>]]
  BY ShardingConstants DEF Init
<1>2. IsCoordinator(coordinator)
  BY <1>1 DEF IsCoordinator, Fields
<1> QED BY <1>1, <1>2 DEF Placed

LEMMA PlacedStep ==
    ASSUME Placed(coordinator), [Next]_vars PROVE Placed(coordinator')
<1>1. ASSUME NEW r \in Region, CoordinatorReceives(r) PROVE Placed(coordinator')
  BY <1>1, DispatchPlaced DEF CoordinatorReceives
<1>2. ASSUME NEW r \in Region, RegionReceives(r) \/ FrameLost(r) PROVE Placed(coordinator')
  <2>1. coordinator' = [coordinator EXCEPT !.frames[r] = Tail(@)]
    BY <1>2 DEF RegionReceives, FrameLost
  <2> QED BY <2>1 DEF Placed, IsCoordinator, Fields
<1>3. ASSUME NEW r \in Region, Remove(r) PROVE Placed(coordinator')
  <2> DEFINE cut == [coordinator EXCEPT !.frames[r] = <<>>]
  <2>1. Placed(cut)
    BY DEF Placed, IsCoordinator, Fields
  <2>2. coordinator' \in OnRegionTerminated(cut, r)
    BY <1>3 DEF Remove
  <2> HIDE DEF cut
  <2> QED BY <2>1, <2>2, OnRegionTerminatedPlaced
<1>4. CASE OnHandOffTimeout
  <2> DEFINE released == [ReleaseFromPreviousOwner(coordinator) EXCEPT !.rebalancing = None]
  <2>1. Placed(released) /\ released.home = None
    BY <1>4, ReleasePlaced DEF OnHandOffTimeout
  <2>2. coordinator' \in TryAllocate(released)
    BY <1>4 DEF OnHandOffTimeout
  <2> HIDE DEF released
  <2> QED BY <2>1, <2>2, TryAllocatePlaced
<1>5. ASSUME NEW r \in Region,
             \/ Send(r) \/ MailArrives(r) \/ ShardTurn(r) \/ EntitiesStop(r) \/ ShardStops(r)
             \/ ShardFails(r) \/ ShardTerminated(r) \/ PassivationDeclined(r)
             \/ OnShardRespawnTick(r) \/ PassivateShard(r) \/ RegisterRetry(r)
             \/ SendRegionHeartbeat(r) \/ Start(r) \/ Stop(r) \/ Suspect(r) \/ Return(r)
             \/ ClusterEvent(r)
      PROVE  coordinator' = coordinator
  BY <1>5 DEF Send, MailArrives, ShardTurn, EntitiesStop, ShardStops, ShardFails, ShardTerminated,
     PassivationDeclined, OnShardRespawnTick, PassivateShard, RegisterRetry, SendRegionHeartbeat,
     Start, Stop, Suspect, Return, ClusterEvent
<1>6. CASE UNCHANGED vars
  BY <1>6 DEF vars
<1> QED BY <1>1, <1>2, <1>3, <1>4, <1>5, <1>6, RebalanceTickPlaced DEF Next

\* For every set of regions, whatever is lost, evicted, downed or timed out:
\* exactly the shard's home lists it in its index, so a region that goes takes
\* exactly its own shards with it (onRegister, releaseFromPreviousOwner,
\* onRegionTerminated, tryAllocate).
THEOREM IndexFollowsMap == Spec => []ListingAgrees
<1>1. Init => Placed(coordinator)
  BY PlacedInit
<1>2. Placed(coordinator) /\ [Next]_vars => Placed(coordinator)'
  BY PlacedStep
<1>3. Placed(coordinator) => ListingAgrees
  BY DEF Placed, ListingAgrees
<1> QED BY <1>1, <1>2, <1>3, PTL DEF Spec

-----------------------------------------------------------------------------
(* What the maps and frames hold *)

Homes == Maybe \ Proxy
RegionKinds == {"Register", "GetShardHome", "HandOffComplete", "RegionTerminated", "RegionHeartbeat"}
RegionFrame == [kind : RegionKinds, claims : BOOLEAN]
CoordinatorKinds ==
    {"RegisterAcknowledgment", "RegistrationRequest", "RegionEvicted", "ShardHome", "HandOff"}
CoordinatorFrame == [kind : CoordinatorKinds, home : Homes]

ACoordinator ==
    [registered : SUBSET Region, beaten : SUBSET Region, listed : SUBSET Region, home : Homes,
     rebalancing : Homes, pending : SUBSET Region, crossed : BOOLEAN,
     frames : [Region -> Seq(CoordinatorFrame)]]

ARegion ==
    [running : BOOLEAN, local : BOOLEAN, home : Homes,
     state : {None, "owned", "handing-off", "passivating", "backing-off"},
     actor : {"none", "live", "stopping", "stopped"}, queue : Seq({"message", "passivate"}),
     busy : BOOLEAN, declined : BOOLEAN, handingOff : BOOLEAN, releasing : BOOLEAN,
     passivating : BOOLEAN, buffered : Nat, registering : BOOLEAN, frames : Seq(RegionFrame)]

\* h is g but for the fields fs.
RegionFields ==
    {"running", "local", "home", "state", "actor", "queue", "busy", "declined", "handingOff",
     "releasing", "passivating", "buffered", "registering", "frames"}
Same(g, h, fs) == \A f \in RegionFields \ fs : h[f] = g[f]

\* A region that only routes neither hosts the shard nor claims it.
Hosts(r, g) ==
    (g.local \/ g.actor # "none" \/ \E i \in 1..Len(g.frames) : g.frames[i].claims) => r \notin Proxy

Fine(r, g) == g \in ARegion /\ Hosts(r, g)

LEMMA NoneIsHome == None \in Homes
BY ShardingConstants DEF Homes, Maybe

LEMMA ToCoordinatorFine ==
    ASSUME NEW r, NEW g, Fine(r, g), NEW kind \in RegionKinds
    PROVE  /\ Fine(r, ToCoordinator(g, kind))
           /\ ToCoordinator(g, kind).frames
                = Append(g.frames, [kind |-> kind, claims |-> kind = "Register" /\ g.local])
           /\ Same(g, ToCoordinator(g, kind), {"frames"})
<1> DEFINE x == [kind |-> kind, claims |-> kind = "Register" /\ g.local]
           new == Append(g.frames, x)
           h == ToCoordinator(g, kind)
<1>1. g \in ARegion /\ g.frames \in Seq(RegionFrame) /\ g.local \in BOOLEAN
  BY DEF Fine, ARegion
<1>2. x \in RegionFrame
  BY <1>1 DEF RegionFrame
<1>3. /\ new \in Seq(RegionFrame) /\ Len(new) = Len(g.frames) + 1 /\ Len(g.frames) \in Nat
      /\ \A i \in 1..Len(g.frames) : new[i] = g.frames[i]
      /\ new[Len(g.frames) + 1] = x
  <2> HIDE DEF x
  <2> QED
    BY <1>1, <1>2
<1>4. h = [g EXCEPT !.frames = new]
  BY DEF ToCoordinator
<1> HIDE DEF new, h
<1>5. /\ h \in ARegion /\ h.frames = new
      /\ Same(g, h, {"frames"})
  BY <1>1, <1>3, <1>4 DEF ARegion, Same, RegionFields
<1>6. ASSUME NEW i \in 1..Len(new), new[i].claims
      PROVE  g.local \/ \E j \in 1..Len(g.frames) : g.frames[j].claims
  <2>1. CASE i \in 1..Len(g.frames)
    BY <1>3, <1>6, <2>1
  <2>2. CASE i = Len(g.frames) + 1
    <3>1. x.claims => g.local
      OBVIOUS
    <3>2. new[i] = x
      BY <1>3, <2>2
    <3> HIDE DEF x
    <3> QED
      BY <1>6, <3>1, <3>2
  <2> QED
    BY <1>3, <2>1, <2>2
<1>7. Hosts(r, h)
  <2>1. h.local = g.local /\ h.actor = g.actor
    BY <1>5 DEF Same, RegionFields
  <2> QED
    BY <1>5, <1>6, <2>1 DEF Hosts, Fine
<1> QED
  BY <1>5, <1>7 DEF Fine, h, new

-----------------------------------------------------------------------------
(* What is on the links *)

Has(s, kind) == \E i \in 1..Len(s) : s[i].kind = kind
Names(s, r) == \E i \in 1..Len(s) : s[i].kind = "ShardHome" /\ s[i].home = r
AllName(s, r) == \A i \in 1..Len(s) : s[i].kind = "ShardHome" => s[i].home = r

\* Once r is named the home, no frame behind names another.
Steady(s, r) ==
    \A i, j \in 1..Len(s) :
        i < j /\ s[i].kind = "ShardHome" /\ s[i].home = r /\ s[j].kind = "ShardHome" => s[j].home = r

\* Behind a HandOff there is no placement and no second HandOff.
HandOffLast(s) ==
    \A i, j \in 1..Len(s) :
        i < j /\ s[i].kind = "HandOff" => s[j].kind \notin {"ShardHome", "HandOff"}

\* Behind a HandOffComplete there is no claim and no second HandOffComplete.
CompleteLast(s) ==
    \A i, j \in 1..Len(s) :
        i < j /\ s[i].kind = "HandOffComplete" => s[j].kind # "HandOffComplete" /\ s[j].claims = FALSE

\* A claim under way is still true, or a HandOffComplete follows it.
Backed(s, local) ==
    \A i \in 1..Len(s) : s[i].claims = TRUE =>
        local = TRUE \/ \E j \in 1..Len(s) : j > i /\ s[j].kind = "HandOffComplete"

\* The indices of a sequence with one more element.
LEMMA AppendIndex ==
    ASSUME NEW S, NEW s \in Seq(S), NEW x \in S
    PROVE  /\ Append(s, x) \in Seq(S) /\ Len(s) \in Nat /\ Len(Append(s, x)) = Len(s) + 1
           /\ 1..Len(Append(s, x)) = 1..Len(s) \cup {Len(s) + 1}
           /\ \A i \in 1..Len(s) : Append(s, x)[i] = s[i] /\ i < Len(s) + 1
           /\ Append(s, x)[Len(s) + 1] = x
<1>1. /\ Append(s, x) \in Seq(S) /\ Len(s) \in Nat /\ Len(Append(s, x)) = Len(s) + 1
      /\ \A i \in 1..Len(s) : Append(s, x)[i] = s[i]
      /\ Append(s, x)[Len(s) + 1] = x
  OBVIOUS
<1>2. 1..Len(Append(s, x)) = 1..Len(s) \cup {Len(s) + 1}
  BY <1>1
<1> QED
  BY <1>1, <1>2

\* And of one with its head gone.
LEMMA TailIndex ==
    ASSUME NEW S, NEW s \in Seq(S), s # <<>>
    PROVE  /\ Tail(s) \in Seq(S) /\ Head(s) \in S /\ Len(s) \in Nat /\ Len(s) >= 1
           /\ Head(s) = s[1] /\ Len(Tail(s)) = Len(s) - 1
           /\ \A i \in 1..Len(Tail(s)) : Tail(s)[i] = s[i + 1] /\ i + 1 \in 1..Len(s) /\ i + 1 > 1
           /\ \A i \in 1..Len(s) : i = 1 \/ (i - 1 \in 1..Len(Tail(s)) /\ Tail(s)[i - 1] = s[i])
<1>1. /\ Tail(s) \in Seq(S) /\ Head(s) \in S /\ Head(s) = s[1] /\ Len(Tail(s)) = Len(s) - 1
      /\ \A i \in 1..Len(Tail(s)) : Tail(s)[i] = s[i + 1]
  OBVIOUS
<1>2. Len(s) \in Nat /\ Len(s) >= 1
  OBVIOUS
<1>3. ASSUME NEW i \in 1..Len(s), i # 1
      PROVE  i - 1 \in 1..Len(Tail(s)) /\ Tail(s)[i - 1] = s[i]
  <2>1. i - 1 \in 1..Len(Tail(s)) /\ (i - 1) + 1 = i
    BY <1>1, <1>2, <1>3
  <2> QED
    BY <1>1, <2>1
<1> QED
  BY <1>1, <1>2, <1>3

LEMMA HasAppend ==
    ASSUME NEW S, NEW s \in Seq(S), NEW x \in S, NEW kind
    PROVE  Has(Append(s, x), kind) <=> Has(s, kind) \/ x.kind = kind
<1> DEFINE t == Append(s, x)
<1>1. /\ Len(s) \in Nat /\ 1..Len(t) = 1..Len(s) \cup {Len(s) + 1}
      /\ \A i \in 1..Len(s) : t[i] = s[i]
      /\ t[Len(s) + 1] = x
  BY AppendIndex
<1> HIDE DEF t
<1> QED
  BY <1>1 DEF Has, t

LEMMA HasTail ==
    ASSUME NEW S, NEW s \in Seq(S), s # <<>>, NEW kind
    PROVE  Has(s, kind) <=> Head(s).kind = kind \/ Has(Tail(s), kind)
<1> DEFINE t == Tail(s)
<1>1. /\ 1 \in 1..Len(s) /\ Head(s) = s[1]
      /\ \A i \in 1..Len(t) : t[i] = s[i + 1] /\ i + 1 \in 1..Len(s)
      /\ \A i \in 1..Len(s) : i = 1 \/ (i - 1 \in 1..Len(t) /\ t[i - 1] = s[i])
  BY TailIndex
<1> HIDE DEF t
<1>2. ASSUME Has(s, kind) PROVE Head(s).kind = kind \/ Has(t, kind)
  <2>1. PICK i \in 1..Len(s) : s[i].kind = kind
    BY <1>2 DEF Has
  <2> QED
    BY <1>1, <2>1 DEF Has
<1>3. ASSUME Has(t, kind) PROVE Has(s, kind)
  <2>1. PICK i \in 1..Len(t) : t[i].kind = kind
    BY <1>3 DEF Has
  <2> QED
    BY <1>1, <2>1 DEF Has
<1>4. ASSUME Head(s).kind = kind PROVE Has(s, kind)
  BY <1>1, <1>4 DEF Has
<1> QED
  BY <1>2, <1>3, <1>4 DEF t

\* The coordinator sends a region one more frame.
LEMMA InboxAppend ==
    ASSUME NEW S, NEW s \in Seq(S), NEW x \in S, NEW r
    PROVE  LET t == Append(s, x)
           IN  /\ Names(t, r) <=> Names(s, r) \/ (x.kind = "ShardHome" /\ x.home = r)
               /\ AllName(s, r) /\ (x.kind = "ShardHome" => x.home = r) => AllName(t, r)
               /\ Steady(s, r) /\ (Names(s, r) /\ x.kind = "ShardHome" => x.home = r) => Steady(t, r)
               /\ HandOffLast(s) /\ (Has(s, "HandOff") => x.kind \notin {"ShardHome", "HandOff"})
                    => HandOffLast(t)
<1> DEFINE t == Append(s, x)
<1>1. /\ Len(s) \in Nat /\ Len(t) = Len(s) + 1 /\ 1..Len(t) = 1..Len(s) \cup {Len(s) + 1}
      /\ \A i \in 1..Len(s) : t[i] = s[i]
      /\ t[Len(s) + 1] = x
  BY AppendIndex
<1> HIDE DEF t
<1>2. Names(t, r) <=> Names(s, r) \/ (x.kind = "ShardHome" /\ x.home = r)
  BY <1>1 DEF Names
<1>3. AllName(s, r) /\ (x.kind = "ShardHome" => x.home = r) => AllName(t, r)
  BY <1>1 DEF AllName
<1>4. ASSUME Steady(s, r), Names(s, r) /\ x.kind = "ShardHome" => x.home = r
      PROVE  Steady(t, r)
  <2> SUFFICES ASSUME NEW i \in 1..Len(t), NEW j \in 1..Len(t), i < j, t[i].kind = "ShardHome",
                      t[i].home = r, t[j].kind = "ShardHome"
               PROVE  t[j].home = r
    BY DEF Steady
  <2>1. i \in 1..Len(s) /\ t[i] = s[i]
    BY <1>1
  <2>2. CASE j \in 1..Len(s)
    BY <1>1, <1>4, <2>1, <2>2 DEF Steady
  <2>3. CASE j = Len(s) + 1
    <3>1. Names(s, r)
      BY <2>1 DEF Names
    <3> QED
      BY <1>1, <1>4, <2>3, <3>1
  <2> QED
    BY <1>1, <2>2, <2>3
<1>5. ASSUME HandOffLast(s), Has(s, "HandOff") => x.kind \notin {"ShardHome", "HandOff"}
      PROVE  HandOffLast(t)
  <2> SUFFICES ASSUME NEW i \in 1..Len(t), NEW j \in 1..Len(t), i < j, t[i].kind = "HandOff"
               PROVE  t[j].kind \notin {"ShardHome", "HandOff"}
    BY DEF HandOffLast
  <2>1. i \in 1..Len(s) /\ t[i] = s[i]
    BY <1>1
  <2>2. CASE j \in 1..Len(s)
    BY <1>1, <1>5, <2>1, <2>2 DEF HandOffLast
  <2>3. CASE j = Len(s) + 1
    <3>1. Has(s, "HandOff")
      BY <2>1 DEF Has
    <3> QED
      BY <1>1, <1>5, <2>3, <3>1
  <2> QED
    BY <1>1, <2>2, <2>3
<1> QED
  BY <1>2, <1>3, <1>4, <1>5 DEF t

\* A region takes its next frame, or the link loses it.
LEMMA InboxTail ==
    ASSUME NEW S, NEW s \in Seq(S), s # <<>>, NEW r
    PROVE  LET t == Tail(s)
               x == Head(s)
           IN  /\ Names(s, r) <=> (x.kind = "ShardHome" /\ x.home = r) \/ Names(t, r)
               /\ AllName(s, r) => AllName(t, r) /\ (x.kind = "ShardHome" => x.home = r)
               /\ Steady(s, r) => /\ Steady(t, r)
                                  /\ x.kind = "ShardHome" /\ x.home = r => AllName(t, r)
               /\ HandOffLast(s) => /\ HandOffLast(t)
                                    /\ x.kind = "HandOff" => ~Has(t, "ShardHome") /\ ~Has(t, "HandOff")
<1> DEFINE t == Tail(s)
           x == Head(s)
<1>1. /\ Len(s) \in Nat /\ Len(s) >= 1 /\ x = s[1] /\ Len(t) = Len(s) - 1
      /\ \A i \in 1..Len(t) : t[i] = s[i + 1] /\ i + 1 \in 1..Len(s) /\ i + 1 > 1
      /\ \A i \in 1..Len(s) : i = 1 \/ (i - 1 \in 1..Len(t) /\ t[i - 1] = s[i])
  BY TailIndex
<1>0. 1 \in 1..Len(s)
  BY <1>1
<1> HIDE DEF t, x
<1>2. Names(s, r) <=> (x.kind = "ShardHome" /\ x.home = r) \/ Names(t, r)
  <2>1. ASSUME Names(s, r) PROVE (x.kind = "ShardHome" /\ x.home = r) \/ Names(t, r)
    <3>1. PICK i \in 1..Len(s) : s[i].kind = "ShardHome" /\ s[i].home = r
      BY <2>1 DEF Names
    <3> QED
      BY <1>1, <3>1 DEF Names
  <2>2. ASSUME Names(t, r) PROVE Names(s, r)
    <3>1. PICK i \in 1..Len(t) : t[i].kind = "ShardHome" /\ t[i].home = r
      BY <2>2 DEF Names
    <3> QED
      BY <1>1, <3>1 DEF Names
  <2>3. ASSUME x.kind = "ShardHome", x.home = r PROVE Names(s, r)
    BY <1>0, <1>1, <2>3 DEF Names
  <2> QED
    BY <2>1, <2>2, <2>3
<1>3. ASSUME AllName(s, r)
      PROVE  AllName(t, r) /\ (x.kind = "ShardHome" => x.home = r)
  BY <1>0, <1>1, <1>3 DEF AllName
<1>4. ASSUME Steady(s, r)
      PROVE  Steady(t, r)
  <2> SUFFICES ASSUME NEW i \in 1..Len(t), NEW j \in 1..Len(t), i < j, t[i].kind = "ShardHome",
                      t[i].home = r, t[j].kind = "ShardHome"
               PROVE  t[j].home = r
    BY DEF Steady
  <2>1. /\ i + 1 \in 1..Len(s) /\ j + 1 \in 1..Len(s) /\ i + 1 < j + 1
        /\ t[i] = s[i + 1] /\ t[j] = s[j + 1]
    BY <1>1
  <2> QED
    BY <1>4, <2>1 DEF Steady
<1>5. ASSUME Steady(s, r), x.kind = "ShardHome", x.home = r
      PROVE  AllName(t, r)
  <2> SUFFICES ASSUME NEW j \in 1..Len(t), t[j].kind = "ShardHome"
               PROVE  t[j].home = r
    BY DEF AllName
  <2>1. j + 1 \in 1..Len(s) /\ 1 < j + 1 /\ t[j] = s[j + 1]
    BY <1>1
  <2> QED
    BY <1>0, <1>1, <1>5, <2>1 DEF Steady
<1>6. ASSUME HandOffLast(s)
      PROVE  HandOffLast(t)
  <2> SUFFICES ASSUME NEW i \in 1..Len(t), NEW j \in 1..Len(t), i < j, t[i].kind = "HandOff"
               PROVE  t[j].kind \notin {"ShardHome", "HandOff"}
    BY DEF HandOffLast
  <2>1. /\ i + 1 \in 1..Len(s) /\ j + 1 \in 1..Len(s) /\ i + 1 < j + 1
        /\ t[i] = s[i + 1] /\ t[j] = s[j + 1]
    BY <1>1
  <2> QED
    BY <1>6, <2>1 DEF HandOffLast
<1>7. ASSUME HandOffLast(s), x.kind = "HandOff"
      PROVE  ~Has(t, "ShardHome") /\ ~Has(t, "HandOff")
  <2> SUFFICES ASSUME NEW j \in 1..Len(t)
               PROVE  t[j].kind \notin {"ShardHome", "HandOff"}
    BY DEF Has
  <2>1. j + 1 \in 1..Len(s) /\ 1 < j + 1 /\ t[j] = s[j + 1]
    BY <1>1
  <2> QED
    BY <1>0, <1>1, <1>7, <2>1 DEF HandOffLast
<1> QED
  BY <1>2, <1>3, <1>4, <1>5, <1>6, <1>7 DEF t, x

\* A region sends one more frame.
LEMMA OutboxAppend ==
    ASSUME NEW s \in Seq(RegionFrame), NEW x \in RegionFrame, NEW local, CompleteLast(s)
    PROVE  LET t == Append(s, x)
           IN  /\ ~Has(s, "HandOffComplete") \/ (x.kind # "HandOffComplete" /\ x.claims = FALSE)
                    => CompleteLast(t)
               /\ Backed(s, local) /\ (x.claims = FALSE \/ local = TRUE) => Backed(t, local)
               /\ x.kind = "HandOffComplete" /\ x.claims = FALSE => Backed(t, local)
<1> DEFINE t == Append(s, x)
<1>1. /\ Len(s) \in Nat /\ Len(t) = Len(s) + 1 /\ 1..Len(t) = 1..Len(s) \cup {Len(s) + 1}
      /\ \A i \in 1..Len(s) : t[i] = s[i] /\ i < Len(s) + 1
      /\ t[Len(s) + 1] = x
  BY AppendIndex
<1>0. x.claims \in BOOLEAN
  BY DEF RegionFrame
<1> HIDE DEF t
<1>2. ASSUME ~Has(s, "HandOffComplete") \/ (x.kind # "HandOffComplete" /\ x.claims = FALSE)
      PROVE  CompleteLast(t)
  <2> SUFFICES ASSUME NEW i \in 1..Len(t), NEW j \in 1..Len(t), i < j, t[i].kind = "HandOffComplete"
               PROVE  t[j].kind # "HandOffComplete" /\ t[j].claims = FALSE
    BY DEF CompleteLast
  <2>1. i \in 1..Len(s) /\ t[i] = s[i]
    BY <1>1
  <2>2. CASE j \in 1..Len(s)
    BY <1>1, <2>1, <2>2 DEF CompleteLast
  <2>3. CASE j = Len(s) + 1
    <3>1. Has(s, "HandOffComplete")
      BY <2>1 DEF Has
    <3> QED
      BY <1>1, <1>2, <2>3, <3>1
  <2> QED
    BY <1>1, <2>2, <2>3
<1>3. ASSUME Backed(s, local), x.claims = FALSE \/ local = TRUE
      PROVE  Backed(t, local)
  <2> SUFFICES ASSUME NEW i \in 1..Len(t), t[i].claims = TRUE, local # TRUE
               PROVE  \E j \in 1..Len(t) : j > i /\ t[j].kind = "HandOffComplete"
    BY DEF Backed
  <2>1. i \in 1..Len(s) /\ t[i] = s[i]
    BY <1>1, <1>3
  <2>2. PICK j \in 1..Len(s) : j > i /\ s[j].kind = "HandOffComplete"
    BY <1>3, <2>1 DEF Backed
  <2> QED
    BY <1>1, <2>2
<1>4. ASSUME x.kind = "HandOffComplete", x.claims = FALSE
      PROVE  Backed(t, local)
  <2> SUFFICES ASSUME NEW i \in 1..Len(t), t[i].claims = TRUE
               PROVE  \E j \in 1..Len(t) : j > i /\ t[j].kind = "HandOffComplete"
    BY DEF Backed
  <2>1. i \in 1..Len(s)
    BY <1>1, <1>4
  <2>2. Len(s) + 1 > i /\ Len(s) + 1 \in 1..Len(t) /\ t[Len(s) + 1].kind = "HandOffComplete"
    BY <1>1, <1>4, <2>1
  <2> QED
    BY <2>2
<1> QED
  BY <1>2, <1>3, <1>4 DEF t

\* The coordinator takes a region's next frame.
LEMMA OutboxTail ==
    ASSUME NEW s \in Seq(RegionFrame), s # <<>>, NEW local, CompleteLast(s), Backed(s, local)
    PROVE  LET t == Tail(s)
               x == Head(s)
           IN  /\ CompleteLast(t)
               /\ Backed(t, local)
               /\ x.kind = "HandOffComplete" => ~Has(t, "HandOffComplete")
               /\ x.claims = TRUE /\ x.kind # "HandOffComplete"
                    => local = TRUE \/ Has(t, "HandOffComplete")
<1> DEFINE t == Tail(s)
           x == Head(s)
<1>1. /\ Len(s) \in Nat /\ Len(s) >= 1 /\ x = s[1] /\ Len(t) = Len(s) - 1
      /\ \A i \in 1..Len(t) : t[i] = s[i + 1] /\ i + 1 \in 1..Len(s) /\ i + 1 > 1
      /\ \A i \in 1..Len(s) : i = 1 \/ (i - 1 \in 1..Len(t) /\ t[i - 1] = s[i])
  BY TailIndex
<1>0. 1 \in 1..Len(s)
  BY <1>1
<1> HIDE DEF t, x
<1>2. CompleteLast(t)
  <2> SUFFICES ASSUME NEW i \in 1..Len(t), NEW j \in 1..Len(t), i < j, t[i].kind = "HandOffComplete"
               PROVE  t[j].kind # "HandOffComplete" /\ t[j].claims = FALSE
    BY DEF CompleteLast
  <2>1. /\ i + 1 \in 1..Len(s) /\ j + 1 \in 1..Len(s) /\ i + 1 < j + 1
        /\ t[i] = s[i + 1] /\ t[j] = s[j + 1]
    BY <1>1
  <2> QED
    BY <2>1 DEF CompleteLast
<1>3. Backed(t, local)
  <2> SUFFICES ASSUME NEW i \in 1..Len(t), t[i].claims = TRUE, local # TRUE
               PROVE  \E j \in 1..Len(t) : j > i /\ t[j].kind = "HandOffComplete"
    BY DEF Backed
  <2>1. i + 1 \in 1..Len(s) /\ t[i] = s[i + 1]
    BY <1>1
  <2>2. PICK j \in 1..Len(s) : j > i + 1 /\ s[j].kind = "HandOffComplete"
    BY <2>1 DEF Backed
  <2>3. j - 1 \in 1..Len(t) /\ t[j - 1] = s[j] /\ j - 1 > i
    BY <1>1, <2>1, <2>2
  <2> QED
    BY <2>2, <2>3
<1>4. ASSUME x.kind = "HandOffComplete" PROVE ~Has(t, "HandOffComplete")
  <2> SUFFICES ASSUME NEW j \in 1..Len(t) PROVE t[j].kind # "HandOffComplete"
    BY DEF Has
  <2>1. j + 1 \in 1..Len(s) /\ 1 < j + 1 /\ t[j] = s[j + 1]
    BY <1>1
  <2> QED
    BY <1>0, <1>1, <1>4, <2>1 DEF CompleteLast
<1>5. ASSUME x.claims = TRUE, local # TRUE PROVE Has(t, "HandOffComplete")
  <2>1. PICK j \in 1..Len(s) : j > 1 /\ s[j].kind = "HandOffComplete"
    BY <1>0, <1>1, <1>5 DEF Backed
  <2> QED
    BY <1>1, <2>1 DEF Has
<1> QED
  BY <1>2, <1>3, <1>4, <1>5 DEF t, x

LEMMA EmptyLink ==
    ASSUME NEW r, NEW local
    PROVE  /\ \A kind : ~Has(<<>>, kind)
           /\ ~Names(<<>>, r) /\ AllName(<<>>, r) /\ Steady(<<>>, r) /\ HandOffLast(<<>>)
           /\ CompleteLast(<<>>) /\ Backed(<<>>, local)
<1>1. Len(<<>>) = 0
  OBVIOUS
<1> QED
  BY <1>1 DEF Has, Names, AllName, Steady, HandOffLast, CompleteLast, Backed

-----------------------------------------------------------------------------
(* One region and the coordinator *)

\* The region runs the shard, or will on what is under way to it.
Hosting(c, g, r) == g.local \/ g.actor # "none" \/ Names(c.frames[r], r)

(***************************************************************************)
(* A region hosts the shard only while the coordinator has it as the home. *)
(* The rest is why that lasts.  The placements under way to a host name    *)
(* it; a HandOff under way, a hand-off begun and a HandOffComplete under   *)
(* way are stages of the coordinator's one hand-off, in that order; no     *)
(* placement is behind the HandOff, so what ends the hand-off finds the    *)
(* region without the shard; and a claim under way is true, or is followed *)
(* by the HandOffComplete that ends it.                                    *)
(***************************************************************************)
Good(c, g, r) ==
    /\ Hosting(c, g, r) => c.home = r
    /\ g.actor # "none" => g.local
    /\ ~g.releasing
    /\ g.handingOff => /\ g.actor # "none" /\ c.rebalancing = r
                       /\ ~Has(c.frames[r], "HandOff") /\ ~Has(g.frames, "HandOffComplete")
    /\ g.local => AllName(c.frames[r], r)
    /\ Steady(c.frames[r], r) /\ HandOffLast(c.frames[r])
    /\ Has(c.frames[r], "HandOff") => c.rebalancing = r /\ ~Has(g.frames, "HandOffComplete")
    /\ Has(g.frames, "HandOffComplete") => c.rebalancing = r /\ ~Hosting(c, g, r)
    /\ CompleteLast(g.frames) /\ Backed(g.frames, g.local)
    /\ c.rebalancing = r /\ Has(c.frames[r], "ShardHome") => Has(c.frames[r], "HandOff")
    /\ c.rebalancing = r /\ Hosting(c, g, r) => Has(c.frames[r], "HandOff") \/ g.handingOff
    /\ ~Has(g.frames, "RegionTerminated") /\ ~Has(c.frames[r], "RegionEvicted")

(***************************************************************************)
(* A shard on its way out is one whose region buffers for it, and nothing  *)
(* is in its mailbox behind the order to passivate.                        *)
(***************************************************************************)
Settled(g) ==
    /\ g.actor \in {"stopping", "stopped"} => g.handingOff \/ (g.passivating /\ ~g.declined)
    /\ g.handingOff => g.state = "handing-off"
    /\ g.passivating /\ ~g.handingOff => g.state = "passivating"
    /\ g.passivating => g.actor # "none"
    /\ g.declined /\ g.actor # "none" => g.passivating
    /\ g.actor # "live" => g.queue = <<>>
    /\ \A i \in 1..Len(g.queue) :
          g.queue[i] = "passivate" => i = Len(g.queue) /\ g.passivating /\ ~g.declined

\* What a step of region r that takes g to h keeps.
Kept(c, r, g, h) ==
    /\ Fine(r, g) => Fine(r, h) /\ h.running = g.running
    /\ Fine(r, g) /\ Good(c, g, r) => Good(c, h, r)
    /\ Fine(r, g) /\ Good(c, g, r) /\ Settled(g) => Settled(h)

LEMMA KeptTwice ==
    ASSUME NEW c, NEW r, NEW g, NEW h, NEW k, Kept(c, r, g, h), Kept(c, r, h, k)
    PROVE  Kept(c, r, g, k)
BY DEF Kept

\* The fields the hand-off turns on are as they were, and only a local shard runs.
LEMMA SameClaim ==
    ASSUME NEW c, NEW r, NEW g, NEW h, Fine(r, g), h \in ARegion,
           h.frames = g.frames, h.local = g.local, h.handingOff = g.handingOff,
           h.releasing = g.releasing, g.actor = "none" /\ ~g.local => h.actor = "none",
           g.handingOff /\ g.actor # "none" => h.actor # "none"
    PROVE  Fine(r, h) /\ (Good(c, g, r) => Good(c, h, r))
<1>1. Fine(r, h)
  BY DEF Fine, Hosts
<1>2. ASSUME Good(c, g, r) PROVE Good(c, h, r)
  <2>1. h.actor # "none" => g.local
    BY <1>2 DEF Good, ARegion, Fine
  <2>2. Hosting(c, h, r) => Hosting(c, g, r)
    BY <2>1 DEF Hosting
  <2> QED
    BY <1>2, <2>1, <2>2 DEF Good
<1> QED
  BY <1>1, <1>2

\* A frame that says nothing of the hand-off.
LEMMA QuietFrame ==
    ASSUME NEW c, NEW r, NEW g, NEW kind \in {"Register", "GetShardHome", "RegionHeartbeat"}
    PROVE  Kept(c, r, g, ToCoordinator(g, kind))
<1> DEFINE x == [kind |-> kind, claims |-> kind = "Register" /\ g.local]
           h == ToCoordinator(g, kind)
<1>1. SUFFICES ASSUME Fine(r, g)
               PROVE  /\ Fine(r, h) /\ h.running = g.running
                      /\ Good(c, g, r) => Good(c, h, r)
                      /\ Settled(g) => Settled(h)
  BY DEF Kept
<1>2. /\ Fine(r, h) /\ h.frames = Append(g.frames, x)
      /\ Same(g, h, {"frames"})
  <2>1. kind \in RegionKinds
    BY DEF RegionKinds
  <2> QED
    BY <1>1, <2>1, ToCoordinatorFine
<1> HIDE DEF h
<1>3. /\ h.running = g.running /\ h.local = g.local /\ h.actor = g.actor
      /\ h.handingOff = g.handingOff /\ h.releasing = g.releasing
      /\ h.state = g.state /\ h.queue = g.queue /\ h.declined = g.declined /\ h.passivating = g.passivating
  BY <1>2 DEF Same, RegionFields
<1>4. Settled(g) => Settled(h)
  BY <1>3 DEF Settled
<1>5. ASSUME Good(c, g, r) PROVE Good(c, h, r)
  <2>1. g.frames \in Seq(RegionFrame) /\ g.local \in BOOLEAN
    BY <1>1 DEF Fine, ARegion
  <2>2. x \in RegionFrame /\ x.kind = kind
    BY <2>1 DEF RegionFrame, RegionKinds
  <2>3. x.claims => g.local
    OBVIOUS
  <2>4. x.claims = FALSE \/ g.local = TRUE
    <3> HIDE DEF x
    <3> QED
      BY <2>1, <2>2, <2>3 DEF RegionFrame
  <2> HIDE DEF x
  <2>5. \A k : Has(h.frames, k) <=> Has(g.frames, k) \/ x.kind = k
    BY <1>2, <2>1, <2>2, HasAppend
  <2>6. CompleteLast(g.frames) /\ Backed(g.frames, g.local)
    BY <1>5 DEF Good
  <2>7. ~Has(g.frames, "HandOffComplete") \/ x.claims = FALSE
    BY <1>5, <2>4 DEF Good, Hosting
  <2>8. CompleteLast(h.frames) /\ Backed(h.frames, g.local)
    BY <1>2, <2>1, <2>2, <2>4, <2>6, <2>7, OutboxAppend
  <2>9. /\ Has(h.frames, "HandOffComplete") <=> Has(g.frames, "HandOffComplete")
        /\ Has(h.frames, "RegionTerminated") <=> Has(g.frames, "RegionTerminated")
    BY <2>2, <2>5
  <2>10. Hosting(c, h, r) <=> Hosting(c, g, r)
    BY <1>3 DEF Hosting
  <2> QED
    BY <1>3, <1>5, <2>8, <2>9, <2>10 DEF Good
<1> QED
  BY <1>2, <1>3, <1>4, <1>5

LEMMA AskKept ==
    ASSUME NEW c, NEW r, NEW g PROVE Kept(c, r, g, AskCoordinator(g))
BY QuietFrame DEF AskCoordinator

LEMMA EnsureRegisteredKept ==
    ASSUME NEW c, NEW r, NEW g PROVE Kept(c, r, g, EnsureRegistered(g))
<1> DEFINE told == ToCoordinator(g, "Register")
           armed == [told EXCEPT !.registering = TRUE]
<1>1. Kept(c, r, g, told)
  BY QuietFrame
<1> HIDE DEF told
<1>2. Kept(c, r, told, armed)
  <2> SUFFICES ASSUME Fine(r, told)
               PROVE  /\ Fine(r, armed) /\ armed.running = told.running
                      /\ Good(c, told, r) => Good(c, armed, r)
                      /\ Settled(told) => Settled(armed)
    BY DEF Kept
  <2>1. /\ armed \in ARegion
        /\ Same(told, armed, {"registering"})
    BY DEF Fine, ARegion, Same, RegionFields
  <2> HIDE DEF armed
  <2>2. /\ armed.running = told.running /\ armed.local = told.local /\ armed.actor = told.actor
        /\ armed.handingOff = told.handingOff /\ armed.releasing = told.releasing
        /\ armed.state = told.state /\ armed.queue = told.queue /\ armed.declined = told.declined
        /\ armed.passivating = told.passivating /\ armed.frames = told.frames
    BY <2>1 DEF Same, RegionFields
  <2>3. Settled(told) => Settled(armed)
    BY <2>2 DEF Settled
  <2> QED
    BY <2>1, <2>2, <2>3, SameClaim
<1> HIDE DEF armed
<1>3. Kept(c, r, g, armed)
  BY <1>1, <1>2, KeptTwice
<1>4. Kept(c, r, g, AskCoordinator(armed))
  BY <1>3, AskKept, KeptTwice
<1>5. EnsureRegistered(g) \in {armed, AskCoordinator(armed)}
  BY DEF EnsureRegistered, armed, told
<1> QED
  BY <1>3, <1>4, <1>5

-----------------------------------------------------------------------------
(* What the region's operations keep *)

Untouched(g, h) ==
    /\ h.running = g.running /\ h.local = g.local /\ h.handingOff = g.handingOff
    /\ h.releasing = g.releasing /\ h.frames = g.frames

LEMMA QuietChange ==
    ASSUME NEW c, NEW r, NEW g, NEW h,
           Fine(r, g) => /\ h \in ARegion /\ Untouched(g, h)
                         /\ g.actor = "none" /\ ~g.local => h.actor = "none"
                         /\ g.handingOff /\ g.actor # "none" => h.actor # "none",
           Fine(r, g) /\ Good(c, g, r) /\ Settled(g) => Settled(h)
    PROVE  Kept(c, r, g, h)
<1> SUFFICES ASSUME Fine(r, g)
             PROVE  Fine(r, h) /\ h.running = g.running /\ (Good(c, g, r) => Good(c, h, r))
  BY DEF Kept
<1> QED
  BY SameClaim DEF Untouched

LEMMA EnsureShardKept ==
    ASSUME NEW c, NEW r, NEW g, g.local PROVE Kept(c, r, g, EnsureShard(g))
<1> DEFINE h == EnsureShard(g)
<1>1. CASE g.actor # "none"
  <2>1. h = g
    BY <1>1 DEF EnsureShard
  <2> QED
    BY <2>1 DEF Kept
<1>2. CASE g.actor = "none"
  <2>1. h = [g EXCEPT !.actor = "live", !.queue = <<>>, !.busy = FALSE, !.declined = FALSE]
    BY <1>2 DEF EnsureShard
  <2> HIDE DEF h
  <2>2. ASSUME Fine(r, g)
        PROVE  /\ h \in ARegion /\ Untouched(g, h) /\ h.actor = "live" /\ h.queue = <<>>
               /\ h.declined = FALSE /\ h.passivating = g.passivating /\ h.state = g.state
    <3>1. <<>> \in Seq({"message", "passivate"})
      OBVIOUS
    <3> QED
      BY <2>1, <2>2, <3>1 DEF Fine, ARegion, Untouched
  <2>3. ASSUME Fine(r, g), Settled(g) PROVE Settled(h)
    <3>1. Len(h.queue) = 0
      BY <2>2, <2>3
    <3> QED
      BY <1>2, <2>2, <2>3, <3>1 DEF Settled, Untouched
  <2>4. Kept(c, r, g, h)
    BY <1>2, <2>2, <2>3, QuietChange
  <2> QED
    BY <2>4 DEF h
<1> QED
  BY <1>1, <1>2

\* Messages behind a queue without an order to passivate.
LEMMA QueueMessages ==
    ASSUME NEW q \in Seq({"message", "passivate"}), NEW n \in Nat
    PROVE  LET all == q \o [i \in 1..n |-> "message"]
           IN  /\ all \in Seq({"message", "passivate"})
               /\ (\A i \in 1..Len(q) : q[i] # "passivate")
                     => \A i \in 1..Len(all) : all[i] # "passivate"
<1> DEFINE more == [i \in 1..n |-> "message"]
           all == q \o more
<1>1. more \in Seq({"message", "passivate"}) /\ Len(more) = n
  <2>1. more \in Seq({"message", "passivate"})
    OBVIOUS
  <2> QED
    BY <2>1
<1>2. \A i \in 1..Len(more) : more[i] = "message"
  BY <1>1
<1> HIDE DEF more
<1>3. /\ all \in Seq({"message", "passivate"}) /\ Len(all) = Len(q) + Len(more)
      /\ \A i \in 1..Len(q) + Len(more) :
            all[i] = IF i <= Len(q) THEN q[i] ELSE more[i - Len(q)]
  BY <1>1
<1>4. Len(q) \in Nat
  OBVIOUS
<1> HIDE DEF all
<1>5. ASSUME \A i \in 1..Len(q) : q[i] # "passivate", NEW i \in 1..Len(all)
      PROVE  all[i] # "passivate"
  <2>1. CASE i <= Len(q)
    <3>1. i \in 1..Len(q) /\ i \in 1..Len(q) + Len(more)
      BY <1>3, <1>4, <2>1
    <3> QED
      BY <1>3, <1>5, <2>1, <3>1
  <2>2. CASE ~(i <= Len(q))
    <3>1. i - Len(q) \in 1..Len(more) /\ i \in 1..Len(q) + Len(more)
      BY <1>1, <1>3, <1>4, <2>2
    <3>2. more[i - Len(q)] = "message"
      BY <1>2, <3>1
    <3> QED
      BY <1>3, <2>2, <3>1, <3>2
  <2> QED
    BY <2>1, <2>2
<1> QED
  BY <1>3, <1>5 DEF all, more

\* route: a message for a shard that can take none is buffered, so none is told
\* to one on its way out.
LEMMA RouteKept ==
    ASSUME NEW c, NEW r, NEW g, NEW n \in Nat
    PROVE  /\ Kept(c, r, g, RouteMessages(g, n))
           /\ Fine(r, g) /\ Good(c, g, r) /\ Settled(g) => DroppedBy(g, n) = 0
<1> DEFINE h == RouteMessages(g, n)
<1>1. CASE n = 0
  <2>1. h = g /\ DroppedBy(g, n) = 0
    BY <1>1 DEF RouteMessages, DroppedBy
  <2> QED
    BY <2>1 DEF Kept
<1>2. CASE n > 0 /\ Routed(g) = "remote"
  <2>1. h = g /\ DroppedBy(g, n) = 0
    BY <1>2 DEF RouteMessages, DroppedBy
  <2> QED
    BY <2>1 DEF Kept
<1>3. CASE n > 0 /\ (Routed(g) = "buffer" \/ Routed(g) = "ask")
  <2> DEFINE b == BufferShard(g, n)
  <2>1. h \in {b, AskCoordinator(b)} /\ DroppedBy(g, n) = 0
    BY <1>3 DEF RouteMessages, DroppedBy
  <2>2. ASSUME Fine(r, g)
        PROVE  /\ b \in ARegion /\ Untouched(g, b) /\ b.actor = g.actor /\ b.queue = g.queue
               /\ b.declined = g.declined /\ b.passivating = g.passivating /\ b.state = g.state
    BY <2>2, ShardingConstants DEF BufferShard, Fine, ARegion, Untouched
  <2> HIDE DEF b
  <2>3. ASSUME Fine(r, g), Settled(g) PROVE Settled(b)
    BY <2>2, <2>3 DEF Settled, Untouched
  <2>4. Kept(c, r, g, b)
    BY <2>2, <2>3, QuietChange
  <2>5. Kept(c, r, g, AskCoordinator(b))
    BY <2>4, AskKept, KeptTwice
  <2> QED
    BY <2>1, <2>4, <2>5
<1>4. CASE n > 0 /\ Routed(g) = "local"
  <2> DEFINE e == EnsureShard(g)
             m == [e EXCEPT !.queue = @ \o [i \in 1..n |-> "message"]]
  <2>1. h = IF e.actor # "live" THEN e ELSE m
    BY <1>4 DEF RouteMessages
  <2>2. g.local /\ ~ShardCannotTakeMessages(g)
    BY <1>4 DEF Routed
  <2>3. Kept(c, r, g, e) /\ e.state = g.state
    <3>1. Kept(c, r, g, e)
      BY <2>2, EnsureShardKept
    <3> QED
      BY <3>1 DEF EnsureShard
  <2>4. ASSUME Fine(r, g), Good(c, g, r), Settled(g)
        PROVE  e.actor = "live" /\ Fine(r, e) /\ Settled(e) /\ ~g.passivating /\ ~e.passivating
    <3>1. ~g.handingOff /\ ~g.passivating
      BY <2>2, <2>4 DEF Settled, ShardCannotTakeMessages
    <3>2. g.actor \in {"none", "live"}
      BY <2>4, <3>1 DEF Settled, Fine, ARegion
    <3>3. e.actor = "live" /\ e.passivating = g.passivating
      BY <2>4, <3>2 DEF EnsureShard, Fine, ARegion
    <3> QED
      BY <2>3, <2>4, <3>1, <3>3 DEF Kept
  <2> HIDE DEF e
  <2>5. ASSUME Fine(r, e), e.actor = "live"
        PROVE  /\ m \in ARegion /\ Untouched(e, m) /\ m.actor = e.actor
               /\ m.queue = e.queue \o [i \in 1..n |-> "message"]
               /\ m.declined = e.declined /\ m.passivating = e.passivating /\ m.state = e.state
    <3> DEFINE all == e.queue \o [i \in 1..n |-> "message"]
    <3>1. all \in Seq({"message", "passivate"})
      BY <2>5, QueueMessages DEF Fine, ARegion
    <3>2. m = [e EXCEPT !.queue = all]
      OBVIOUS
    <3> HIDE DEF all, m
    <3>3. /\ m \in ARegion /\ Untouched(e, m) /\ m.actor = e.actor /\ m.queue = all
          /\ m.declined = e.declined /\ m.passivating = e.passivating /\ m.state = e.state
      BY <2>5, <3>1, <3>2 DEF Fine, ARegion, Untouched
    <3> QED
      BY <3>3 DEF all
  <2> HIDE DEF m
  <2>6. ASSUME Fine(r, e), e.actor = "live", Settled(e), ~e.passivating
        PROVE  Settled(m)
    <3>1. \A i \in 1..Len(e.queue) : e.queue[i] # "passivate"
      BY <2>6 DEF Settled
    <3> DEFINE all == e.queue \o [i \in 1..n |-> "message"]
    <3>3. e.queue \in Seq({"message", "passivate"})
      BY <2>6 DEF Fine, ARegion
    <3>4. \A i \in 1..Len(all) : all[i] # "passivate"
      BY <3>1, <3>3, QueueMessages
    <3>5. m.queue = all
      BY <2>5, <2>6
    <3> HIDE DEF all
    <3>2. \A i \in 1..Len(m.queue) : m.queue[i] # "passivate"
      BY <3>4, <3>5
    <3> QED
      BY <2>5, <2>6, <3>2 DEF Settled, Untouched
  <2>7. CASE e.actor = "live"
    <3>1. h = m
      BY <2>1, <2>7
    <3>2. ASSUME Fine(r, e) PROVE Fine(r, m) /\ m.running = e.running /\ (Good(c, e, r) => Good(c, m, r))
      BY <2>5, <2>7, <3>2, SameClaim DEF Untouched
    <3>3. ASSUME Fine(r, g), Good(c, g, r), Settled(g) PROVE Settled(m)
      BY <2>4, <2>6, <3>3
    <3>4. Kept(c, r, g, m)
      BY <2>3, <3>2, <3>3 DEF Kept
    <3> QED
      BY <2>7, <3>1, <3>4 DEF DroppedBy, e
  <2>8. CASE e.actor # "live"
    BY <2>1, <2>3, <2>4, <2>8
  <2> QED
    BY <2>7, <2>8
<1>5. Routed(g) \in {"buffer", "ask", "local", "remote"}
  BY DEF Routed
<1> QED
  BY <1>1, <1>2, <1>3, <1>4, <1>5

-----------------------------------------------------------------------------
(* The region's handlers *)

\* A handler that takes g to the outcome o, while the coordinator's record of the
\* region goes from c to d.
Handled(c, d, r, g, o) ==
    /\ Fine(r, g) => Fine(r, o.region) /\ o.region.running = g.running /\ o.flush \in Nat
    /\ Fine(r, g) /\ Good(c, g, r) => Good(d, o.region, r)
    /\ Fine(r, g) /\ Good(c, g, r) /\ Settled(g) => Settled(o.region)

\* The coordinator's next frame to the region is gone.
Taken(c, d, r) ==
    /\ c.frames[r] \in Seq(CoordinatorFrame) /\ c.frames[r] # <<>>
    /\ d.home = c.home /\ d.rebalancing = c.rebalancing /\ d.frames[r] = Tail(c.frames[r])

LEMMA KeepsHandled ==
    ASSUME NEW c, NEW r, NEW g, NEW h, Kept(c, r, g, h)
    PROVE  Handled(c, c, r, g, Keeps(h))
BY DEF Handled, Kept, Keeps

LEMMA FlushesHandled ==
    ASSUME NEW c, NEW r, NEW g, NEW h, Kept(c, r, g, h)
    PROVE  Handled(c, c, r, g, Flushes(h))
<1> DEFINE k == [h EXCEPT !.buffered = 0]
<1>1. Flushes(h) = [region |-> k, flush |-> h.buffered]
  BY DEF Flushes
<1>2. ASSUME Fine(r, h)
      PROVE  /\ k \in ARegion /\ Untouched(h, k) /\ k.actor = h.actor /\ k.queue = h.queue
             /\ k.declined = h.declined /\ k.passivating = h.passivating /\ k.state = h.state
             /\ h.buffered \in Nat
  BY <1>2 DEF Fine, ARegion, Untouched
<1> HIDE DEF k
<1>3. ASSUME Fine(r, h), Settled(h) PROVE Settled(k)
  BY <1>2, <1>3 DEF Settled, Untouched
<1>4. Kept(c, r, h, k)
  BY <1>2, <1>3, QuietChange
<1>5. Kept(c, r, g, k)
  BY <1>4, KeptTwice
<1>6. Flushes(h).region = k /\ Flushes(h).flush = h.buffered
  BY <1>1
<1> QED
  BY <1>2, <1>5, <1>6 DEF Handled, Kept

LEMMA NamesHas == ASSUME NEW s, NEW r, Names(s, r) PROVE Has(s, "ShardHome")
BY DEF Names, Has

\* A frame other than the HandOff goes, and the region stays as it is.
LEMMA TakenGood ==
    ASSUME NEW c, NEW d, NEW r, NEW g, Taken(c, d, r), Head(c.frames[r]).kind # "HandOff", Good(c, g, r)
    PROVE  Good(d, g, r)
<1> DEFINE s == c.frames[r]
           t == d.frames[r]
           x == Head(s)
<1>1. /\ s \in Seq(CoordinatorFrame) /\ s # <<>> /\ t = Tail(s)
      /\ d.home = c.home /\ d.rebalancing = c.rebalancing
  BY DEF Taken
<1>2. \A kind : Has(s, kind) <=> x.kind = kind \/ Has(t, kind)
  BY <1>1, HasTail
<1>3. /\ Names(t, r) => Names(s, r)
      /\ AllName(s, r) => AllName(t, r)
      /\ Steady(s, r) => Steady(t, r)
      /\ HandOffLast(s) => HandOffLast(t)
  BY <1>1, InboxTail
<1>4. /\ Has(t, "HandOff") <=> Has(s, "HandOff")
      /\ Has(t, "ShardHome") => Has(s, "ShardHome")
      /\ Has(t, "RegionEvicted") => Has(s, "RegionEvicted")
  BY <1>2
<1>5. Hosting(d, g, r) => Hosting(c, g, r)
  BY <1>3 DEF Hosting
<1> QED
  BY <1>1, <1>3, <1>4, <1>5 DEF Good

\* onShardHome: a host is never told of another home, and a region that is giving
\* the shard up is never told to keep it.
LEMMA OnShardHomeHandled ==
    ASSUME NEW c, NEW d, NEW r \in Region, NEW g, Taken(c, d, r), Head(c.frames[r]).kind = "ShardHome"
    PROVE  Handled(c, d, r, g, OnShardHome(g, r, Head(c.frames[r]).home))
<1> DEFINE s == c.frames[r]
           t == d.frames[r]
           x == Head(s)
           home == x.home
           o == OnShardHome(g, r, home)
<1>1. /\ s \in Seq(CoordinatorFrame) /\ s # <<>> /\ t = Tail(s) /\ x \in CoordinatorFrame
      /\ d.home = c.home /\ d.rebalancing = c.rebalancing
  <2>1. s \in Seq(CoordinatorFrame) /\ s # <<>> /\ t = Tail(s) /\ d.home = c.home /\ d.rebalancing = c.rebalancing
    BY DEF Taken
  <2> QED
    BY <2>1, TailIndex
<1>2. home \in Homes /\ x.kind = "ShardHome"
  BY <1>1 DEF CoordinatorFrame
<1>3. Good(c, g, r) => Good(d, g, r)
  BY TakenGood
<1>4. Has(s, "ShardHome")
  BY <1>1, HasTail
<1>5. ASSUME Good(c, g, r) PROVE ~g.handingOff
  BY <1>4, <1>5 DEF Good
<1> HIDE DEF x, s, t, home
<1>6. CASE home # r
  <2> DEFINE h == [g EXCEPT !.home = home, !.local = FALSE, !.state = None]
  <2>1. o = Flushes(h)
    BY <1>6 DEF OnShardHome
  <2>2. ASSUME Fine(r, g)
        PROVE  /\ h \in ARegion /\ h.frames = g.frames /\ h.local = FALSE /\ h.actor = g.actor
               /\ h.running = g.running /\ h.handingOff = g.handingOff /\ h.releasing = g.releasing
               /\ h.declined = g.declined /\ h.passivating = g.passivating /\ h.queue = g.queue
    BY <1>2, <2>2 DEF Fine, ARegion
  <2> HIDE DEF h
  <2>3. Fine(r, g) => Fine(r, h) /\ h.running = g.running
    BY <2>2 DEF Fine, Hosts
  <2>4. ASSUME Fine(r, g), Good(c, g, r)
        PROVE  g.local = FALSE /\ g.actor = "none"
    <3>1. AllName(s, r) => home = r
      BY <1>1, <1>2, InboxTail DEF home, x
    <3> QED
      BY <1>6, <2>4, <3>1 DEF Good, Fine, ARegion, s
  <2>5. ASSUME Fine(r, g), Good(c, g, r) PROVE Good(d, h, r)
    BY <1>3, <2>2, <2>4, <2>5, SameClaim
  <2>6. ASSUME Fine(r, g), Good(c, g, r), Settled(g) PROVE Settled(h)
    BY <1>5, <2>2, <2>4, <2>6 DEF Settled
  <2>7. Handled(d, d, r, h, Flushes(h))
    BY FlushesHandled DEF Kept
  <2> QED
    BY <2>1, <2>3, <2>5, <2>6, <2>7 DEF Handled, home, x, s
<1>7. CASE home = r
  <2> DEFINE mine == [g EXCEPT !.home = r, !.local = TRUE]
  <2>1. r \in Homes /\ r \notin Proxy
    BY <1>2, <1>7, ShardingConstants DEF Homes, Maybe
  <2>2. ASSUME Fine(r, g)
        PROVE  /\ mine \in ARegion /\ mine.frames = g.frames /\ mine.local = TRUE /\ mine.actor = g.actor
               /\ mine.running = g.running /\ mine.handingOff = g.handingOff
               /\ mine.releasing = g.releasing /\ mine.declined = g.declined /\ mine.state = g.state
               /\ mine.passivating = g.passivating /\ mine.queue = g.queue
    BY <2>1, <2>2 DEF Fine, ARegion
  <2>3. Fine(r, g) => Fine(r, mine) /\ mine.running = g.running
    BY <2>1, <2>2 DEF Fine, Hosts
  <2>4. ASSUME Fine(r, g), Good(c, g, r) PROVE Good(d, mine, r)
    <3>1. Names(s, r)
      BY <1>1, <1>2, <1>7, InboxTail DEF home, x
    <3>2. Hosting(c, g, r) /\ c.home = r /\ ~Has(g.frames, "HandOffComplete")
      BY <2>4, <3>1 DEF Hosting, Good, s
    <3>3. AllName(t, r)
      BY <1>1, <1>2, <1>7, <2>4, InboxTail DEF home, x, Good, s
    <3>4. c.rebalancing = r => Has(t, "HandOff")
      <4>1. c.rebalancing = r => Has(s, "HandOff")
        BY <1>4, <2>4 DEF Good, s
      <4> QED
        BY <1>1, <1>2, <4>1, HasTail DEF x
    <3>5. Backed(g.frames, TRUE)
      BY DEF Backed
    <3>6. Good(d, g, r)
      BY <1>3, <2>4
    <3> HIDE DEF mine
    <3> QED
      BY <1>1, <1>5, <2>2, <2>4, <3>2, <3>3, <3>4, <3>5, <3>6 DEF Good, Hosting, t
  <2>5. ASSUME Fine(r, g), Settled(g) PROVE Settled(mine)
    <3> HIDE DEF mine
    <3> QED
      BY <2>2, <2>5 DEF Settled
  <2>6. CASE g.state = "backing-off"
    <3>1. o = Keeps(mine)
      BY <1>7, <2>6 DEF OnShardHome
    <3> HIDE DEF mine
    <3> QED
      BY <2>3, <2>4, <2>5, <3>1 DEF Handled, Keeps, home, x, s
  <2>7. CASE g.state # "backing-off" /\ g.passivating
    <3> DEFINE h == [mine EXCEPT !.state = "passivating"]
    <3>1. o = Keeps(h)
      BY <1>7, <2>7 DEF OnShardHome
    <3> HIDE DEF mine
    <3>2. ASSUME Fine(r, mine)
          PROVE  /\ h \in ARegion /\ Untouched(mine, h) /\ h.actor = mine.actor /\ h.queue = mine.queue
                 /\ h.declined = mine.declined /\ h.passivating = mine.passivating /\ h.state = "passivating"
      BY <3>2 DEF Fine, ARegion, Untouched
    <3> HIDE DEF h
    <3>3. ASSUME Fine(r, mine) PROVE Fine(r, h) /\ h.running = mine.running /\ (Good(d, mine, r) => Good(d, h, r))
      BY <3>2, <3>3, SameClaim DEF Untouched
    <3>4. ASSUME Fine(r, g), Good(c, g, r), Settled(g) PROVE Settled(h)
      BY <1>5, <2>2, <2>3, <2>5, <3>2, <3>4 DEF Settled, Untouched
    <3> QED
      BY <2>3, <2>4, <3>1, <3>3, <3>4 DEF Handled, Keeps, home, x, s
  <2>8. CASE g.state # "backing-off" /\ ~g.passivating
    <3> DEFINE owned == [mine EXCEPT !.state = "owned"]
               h == EnsureShard(owned)
    <3>1. o = Flushes(h)
      BY <1>7, <2>8 DEF OnShardHome
    <3> HIDE DEF mine
    <3>2. ASSUME Fine(r, mine)
          PROVE  /\ owned \in ARegion /\ Untouched(mine, owned) /\ owned.actor = mine.actor
                 /\ owned.queue = mine.queue /\ owned.declined = mine.declined
                 /\ owned.passivating = mine.passivating
      BY <3>2 DEF Fine, ARegion, Untouched
    <3> HIDE DEF owned
    <3>3. ASSUME Fine(r, mine)
          PROVE  Fine(r, owned) /\ owned.running = mine.running /\ (Good(d, mine, r) => Good(d, owned, r))
      BY <3>2, <3>3, SameClaim DEF Untouched
    <3>4. ASSUME Fine(r, g), Good(c, g, r), Settled(g) PROVE Settled(owned)
      BY <1>5, <2>2, <2>3, <2>5, <2>8, <3>2, <3>4 DEF Settled, Untouched
    <3>5. ASSUME Fine(r, g) PROVE Kept(d, r, owned, h)
      BY <2>2, <2>3, <3>2, <3>5, EnsureShardKept DEF Untouched
    <3> HIDE DEF h
    <3>6. ASSUME Fine(r, g) PROVE Handled(d, d, r, owned, Flushes(h))
      BY <3>5, <3>6, FlushesHandled
    <3> QED
      BY <2>3, <2>4, <3>1, <3>3, <3>4, <3>6 DEF Handled, home, x, s
  <2> QED
    BY <2>6, <2>7, <2>8
<1> QED
  BY <1>6, <1>7

\* completeHandOff: the region is without the shard when it says so.
LEMMA CompleteHandOffDone ==
    ASSUME NEW d, NEW r, NEW g, Fine(r, g)
    PROVE  LET o == CompleteHandOff(g)
           IN  /\ Fine(r, o.region) /\ o.region.running = g.running /\ o.flush = 0
               /\ /\ d.rebalancing = r /\ ~g.releasing
                  /\ ~Has(d.frames[r], "HandOff") /\ ~Has(d.frames[r], "ShardHome")
                  /\ ~Has(d.frames[r], "RegionEvicted")
                  /\ Steady(d.frames[r], r) /\ HandOffLast(d.frames[r])
                  /\ ~Has(g.frames, "HandOffComplete") /\ ~Has(g.frames, "RegionTerminated")
                  /\ CompleteLast(g.frames)
                  => Good(d, o.region, r)
               /\ g.queue = <<>> => Settled(o.region)
<1> DEFINE h == [g EXCEPT !.handingOff = FALSE, !.passivating = FALSE, !.actor = "none",
                          !.local = FALSE, !.home = None, !.state = None]
           x == [kind |-> "HandOffComplete", claims |-> FALSE]
           told == ToCoordinator(h, "HandOffComplete")
           o == CompleteHandOff(g)
<1>1. /\ h \in ARegion /\ h.frames = g.frames /\ h.local = FALSE /\ h.actor = "none"
      /\ h.running = g.running /\ h.handingOff = FALSE /\ h.releasing = g.releasing
      /\ h.passivating = FALSE /\ h.queue = g.queue
  BY NoneIsHome DEF Fine, ARegion
<1>2. o \in {Keeps(told), Keeps(AskCoordinator(told))}
  BY DEF CompleteHandOff
<1> HIDE DEF h
<1>3. Fine(r, h)
  BY <1>1 DEF Fine, Hosts
<1>4. /\ Fine(r, told)
      /\ told.frames = Append(h.frames, [kind |-> "HandOffComplete",
                                         claims |-> "HandOffComplete" = "Register" /\ h.local])
      /\ Same(h, told, {"frames"})
  BY <1>3, ToCoordinatorFine DEF RegionKinds
<1>5. /\ told.frames = Append(g.frames, x) /\ told.local = FALSE /\ told.actor = "none"
      /\ told.running = g.running /\ told.handingOff = FALSE /\ told.releasing = g.releasing
      /\ told.passivating = FALSE /\ told.queue = g.queue
  BY <1>1, <1>4 DEF Same, RegionFields
<1>6. x \in RegionFrame /\ x.kind = "HandOffComplete" /\ x.claims = FALSE /\ g.frames \in Seq(RegionFrame)
  BY DEF RegionFrame, RegionKinds, Fine, ARegion
<1> HIDE DEF told, x
<1>7. ASSUME d.rebalancing = r, ~g.releasing,
             ~Has(d.frames[r], "HandOff"), ~Has(d.frames[r], "ShardHome"),
             ~Has(d.frames[r], "RegionEvicted"),
             Steady(d.frames[r], r), HandOffLast(d.frames[r]),
             ~Has(g.frames, "HandOffComplete"), ~Has(g.frames, "RegionTerminated"),
             CompleteLast(g.frames)
      PROVE  Good(d, told, r)
  <2>1. ~Names(d.frames[r], r)
    BY <1>7, NamesHas
  <2>2. ~Hosting(d, told, r)
    BY <1>5, <2>1 DEF Hosting
  <2>3. CompleteLast(told.frames) /\ Backed(told.frames, told.local)
    <3>1. \A local : CompleteLast(Append(g.frames, x)) /\ Backed(Append(g.frames, x), local)
      BY <1>6, <1>7, OutboxAppend
    <3> QED
      BY <1>5, <3>1
  <2>4. \A kind : Has(told.frames, kind) <=> Has(g.frames, kind) \/ x.kind = kind
    BY <1>5, <1>6, HasAppend
  <2>5. ~Has(told.frames, "RegionTerminated")
    BY <1>6, <1>7, <2>4
  <2> QED
    BY <1>5, <1>7, <2>2, <2>3, <2>5 DEF Good
<1>8. ASSUME g.queue = <<>> PROVE Settled(told)
  <2>1. Len(told.queue) = 0
    BY <1>5, <1>8
  <2> QED
    BY <1>5, <1>8, <2>1 DEF Settled
<1>9. Kept(d, r, told, AskCoordinator(told))
  BY AskKept
<1>10. ASSUME NEW k \in {told, AskCoordinator(told)}
       PROVE  /\ Fine(r, k) /\ k.running = g.running
              /\ Good(d, told, r) => Good(d, k, r)
              /\ Good(d, told, r) /\ Settled(told) => Settled(k)
  BY <1>4, <1>5, <1>9 DEF Kept
<1>11. o.region \in {told, AskCoordinator(told)} /\ o.flush = 0
  BY <1>2 DEF Keeps
<1>12. ASSUME g.queue = <<>> PROVE Settled(AskCoordinator(told))
  <2>1. Same(told, AskCoordinator(told), {"frames"})
    BY <1>4, ToCoordinatorFine DEF AskCoordinator, RegionKinds
  <2>2. Settled(told)
    BY <1>8, <1>12
  <2> QED
    BY <2>1, <2>2 DEF Same, RegionFields, Settled
<1> HIDE DEF o
<1> QED
  BY <1>7, <1>8, <1>10, <1>11, <1>12 DEF o

\* onHandOff: the shard stops first, and the rest waits for it.
LEMMA OnHandOffHandled ==
    ASSUME NEW c, NEW d, NEW r \in Region, NEW g, Taken(c, d, r), Head(c.frames[r]).kind = "HandOff"
    PROVE  Handled(c, d, r, g, OnHandOff(g))
<1> DEFINE s == c.frames[r]
           t == d.frames[r]
           x == Head(s)
           o == OnHandOff(g)
           marked == [g EXCEPT !.state = "handing-off"]
<1>1. /\ s \in Seq(CoordinatorFrame) /\ s # <<>> /\ t = Tail(s) /\ x.kind = "HandOff"
      /\ d.home = c.home /\ d.rebalancing = c.rebalancing
  BY DEF Taken
<1>2. \A kind : Has(s, kind) <=> x.kind = kind \/ Has(t, kind)
  BY <1>1, HasTail
<1>3. ASSUME Good(c, g, r)
      PROVE  /\ d.rebalancing = r /\ ~g.handingOff /\ ~g.releasing
             /\ ~Has(t, "HandOff") /\ ~Has(t, "ShardHome") /\ ~Has(t, "RegionEvicted")
             /\ Steady(t, r) /\ HandOffLast(t) /\ ~Names(t, r) /\ (g.local => AllName(t, r))
             /\ ~Has(g.frames, "HandOffComplete") /\ ~Has(g.frames, "RegionTerminated")
             /\ CompleteLast(g.frames) /\ Backed(g.frames, g.local)
             /\ (g.actor # "none" => g.local) /\ (Hosting(c, g, r) => c.home = r)
  <2>1. Has(s, "HandOff") /\ ~Has(t, "RegionEvicted")
    BY <1>1, <1>2, <1>3 DEF Good
  <2>2. HandOffLast(s) /\ Steady(s, r) /\ (g.local => AllName(s, r))
    BY <1>3 DEF Good
  <2>3. /\ HandOffLast(t) /\ Steady(t, r) /\ ~Has(t, "ShardHome") /\ ~Has(t, "HandOff")
        /\ g.local => AllName(t, r)
    BY <1>1, <2>2, InboxTail
  <2>4. ~Names(t, r)
    BY <2>3, NamesHas
  <2> HIDE DEF t, x
  <2> QED
    BY <1>1, <1>3, <2>1, <2>3, <2>4 DEF Good
<1> HIDE DEF x, t
<1>4. ASSUME Fine(r, g)
      PROVE  /\ marked \in ARegion /\ Untouched(g, marked) /\ marked.actor = g.actor
             /\ marked.queue = g.queue /\ marked.declined = g.declined
             /\ marked.passivating = g.passivating /\ marked.state = "handing-off"
  BY <1>4 DEF Fine, ARegion, Untouched
<1>5. Fine(r, g) => Fine(r, marked)
  BY <1>4, SameClaim DEF Untouched
<1>6. CASE g.handingOff \/ ~g.local
  <2>1. o = Keeps(g)
    BY <1>6 DEF OnHandOff
  <2>2. ASSUME Fine(r, g), Good(c, g, r) PROVE Good(d, g, r)
    <3>1. g.local = FALSE /\ g.actor = "none" /\ g.handingOff = FALSE
      BY <1>3, <1>6, <2>2 DEF Fine, ARegion
    <3>2. ~Hosting(d, g, r)
      BY <1>3, <2>2, <3>1 DEF Hosting, t
    <3> QED
      BY <1>3, <2>2, <3>1, <3>2 DEF Good, t
  <2> QED
    BY <2>1, <2>2 DEF Handled, Keeps
<1>7. CASE ~g.handingOff /\ g.local /\ g.actor = "none"
  <2>1. o = CompleteHandOff(marked)
    BY <1>7 DEF OnHandOff
  <2> HIDE DEF marked
  <2>2. ASSUME Fine(r, g)
        PROVE  Fine(r, o.region) /\ o.region.running = g.running /\ o.flush \in Nat
    <3>1. Fine(r, marked) /\ marked.running = g.running
      BY <1>4, <1>5, <2>2 DEF Untouched
    <3>2. /\ Fine(r, CompleteHandOff(marked).region) /\ CompleteHandOff(marked).flush = 0
          /\ CompleteHandOff(marked).region.running = marked.running
      BY <3>1, CompleteHandOffDone
    <3> QED
      BY <2>1, <3>1, <3>2
  <2>3. ASSUME Fine(r, g), Good(c, g, r) PROVE Good(d, o.region, r)
    BY <1>3, <1>4, <1>5, <2>1, <2>3, CompleteHandOffDone DEF Untouched, t
  <2>4. ASSUME Fine(r, g), Settled(g) PROVE Settled(o.region)
    <3>1. marked.queue = <<>>
      BY <1>4, <1>7, <2>4 DEF Settled
    <3> QED
      BY <1>5, <2>1, <2>4, <3>1, CompleteHandOffDone
  <2> HIDE DEF o
  <2> QED
    BY <2>2, <2>3, <2>4 DEF Handled, o
<1>8. CASE ~g.handingOff /\ g.local /\ g.actor # "none"
  <2> DEFINE stopped == StopShard(marked)
             h == [stopped EXCEPT !.handingOff = TRUE]
  <2>1. o = Keeps(h)
    BY <1>8 DEF OnHandOff
  <2> HIDE DEF marked
  <2>2. ASSUME Fine(r, g)
        PROVE  /\ stopped \in ARegion /\ Untouched(g, stopped) /\ stopped.state = "handing-off"
               /\ stopped.actor # "none" /\ stopped.declined = g.declined
               /\ stopped.passivating = g.passivating
               /\ stopped.actor # "live" /\ (g.actor = "live" => stopped.queue = <<>>)
               /\ (g.actor # "live" => stopped.queue = g.queue)
    <3>1. <<>> \in Seq({"message", "passivate"})
      OBVIOUS
    <3>2. CASE g.actor = "live"
      <4>1. stopped = [marked EXCEPT !.actor = "stopping", !.queue = <<>>]
        BY <1>4, <2>2, <3>2 DEF StopShard
      <4> HIDE DEF stopped
      <4> QED
        BY <1>4, <2>2, <3>1, <3>2, <4>1 DEF ARegion, Untouched
    <3>3. CASE g.actor # "live"
      <4>1. stopped = marked
        BY <1>4, <2>2, <3>3 DEF StopShard
      <4> HIDE DEF stopped
      <4> QED
        BY <1>4, <1>8, <2>2, <3>3, <4>1
    <3> QED
      BY <3>2, <3>3
  <2> HIDE DEF stopped
  <2>3. ASSUME Fine(r, g)
        PROVE  /\ h \in ARegion /\ h.handingOff = TRUE /\ h.state = "handing-off"
               /\ h.local = g.local /\ h.frames = g.frames /\ h.running = g.running
               /\ h.releasing = g.releasing /\ h.actor # "none" /\ h.actor # "live"
               /\ h.declined = g.declined /\ h.passivating = g.passivating
               /\ (g.actor = "live" => h.queue = <<>>) /\ (g.actor # "live" => h.queue = g.queue)
    BY <2>2, <2>3 DEF ARegion, Untouched
  <2> HIDE DEF h
  <2>4. Fine(r, g) => Fine(r, h)
    BY <1>8, <2>3 DEF Fine, Hosts
  <2>5. ASSUME Fine(r, g), Good(c, g, r) PROVE Good(d, h, r)
    <3>1. d.home = r
      BY <1>1, <1>3, <1>8, <2>5 DEF Hosting
    <3>2. Backed(h.frames, h.local) /\ CompleteLast(h.frames)
      BY <1>3, <2>3, <2>5
    <3> QED
      BY <1>3, <1>8, <2>3, <2>5, <3>1, <3>2 DEF Good, t
  <2>6. ASSUME Fine(r, g), Settled(g) PROVE Settled(h)
    <3>1. h.queue = <<>>
      BY <2>3, <2>6 DEF Settled
    <3>2. 1..Len(h.queue) = {}
      BY <3>1
    <3>3. h.declined => h.passivating
      BY <1>8, <2>3, <2>6 DEF Settled
    <3> QED
      BY <2>3, <2>6, <3>1, <3>2, <3>3 DEF Settled
  <2>7. o.region = h /\ o.flush = 0 /\ 0 \in Nat
    BY <2>1 DEF Keeps
  <2> HIDE DEF o
  <2> QED
    BY <2>3, <2>4, <2>5, <2>6, <2>7 DEF Handled, o
<1> QED
  BY <1>6, <1>7, <1>8

\* handleShardTerminated: a shard that is gone ends the hand-off or the passivation it stopped for.
LEMMA ShardTerminatedHandled ==
    ASSUME NEW c, NEW r, NEW g, g.actor = "stopped"
    PROVE  Handled(c, c, r, g, HandleShardTerminated(g))
<1> DEFINE gone == [g EXCEPT !.actor = "none"]
           o == HandleShardTerminated(g)
<1>1. ASSUME Fine(r, g)
      PROVE  /\ gone \in ARegion /\ Untouched(g, gone) /\ gone.actor = "none"
             /\ gone.queue = g.queue /\ gone.declined = g.declined
             /\ gone.passivating = g.passivating /\ gone.state = g.state
  BY <1>1 DEF Fine, ARegion, Untouched
<1>2. ASSUME Fine(r, g) PROVE Fine(r, gone)
  BY <1>1, <1>2 DEF Fine, Hosts, Untouched
<1>3. ASSUME Settled(g) PROVE g.queue = <<>> /\ (g.handingOff \/ g.passivating)
  BY <1>3 DEF Settled
<1>4. CASE g.releasing
  <2> DEFINE h == [gone EXCEPT !.releasing = FALSE]
  <2>1. o.region = h /\ o.flush = 0 /\ 0 \in Nat
    BY <1>4 DEF HandleShardTerminated, Keeps
  <2> HIDE DEF gone
  <2>2. ASSUME Fine(r, g)
        PROVE  /\ h \in ARegion /\ h.frames = gone.frames /\ h.local = gone.local
               /\ h.actor = gone.actor /\ h.running = g.running
    BY <1>1, <2>2 DEF ARegion, Untouched
  <2> HIDE DEF h, o
  <2>3. ASSUME Fine(r, g) PROVE Fine(r, h)
    BY <1>2, <2>2, <2>3 DEF Fine, Hosts
  <2>4. ~Good(c, g, r)
    BY <1>4 DEF Good
  <2> QED
    BY <2>1, <2>2, <2>3, <2>4 DEF Handled, o
<1>5. CASE ~g.releasing /\ g.handingOff
  <2>1. o = CompleteHandOff(gone)
    BY <1>5 DEF HandleShardTerminated
  <2> HIDE DEF gone
  <2>2. ASSUME Fine(r, g)
        PROVE  Fine(r, o.region) /\ o.region.running = g.running /\ o.flush \in Nat
    <3>1. Fine(r, gone) /\ gone.running = g.running
      BY <1>1, <1>2, <2>2 DEF Untouched
    <3>2. /\ Fine(r, CompleteHandOff(gone).region) /\ CompleteHandOff(gone).flush = 0
          /\ CompleteHandOff(gone).region.running = gone.running
      BY <3>1, CompleteHandOffDone
    <3> QED
      BY <2>1, <3>1, <3>2
  <2>3. ASSUME Fine(r, g), Good(c, g, r) PROVE Good(c, o.region, r)
    <3>1. /\ c.rebalancing = r /\ ~Has(c.frames[r], "HandOff") /\ ~Has(c.frames[r], "ShardHome")
          /\ ~Has(c.frames[r], "RegionEvicted") /\ Steady(c.frames[r], r) /\ HandOffLast(c.frames[r])
          /\ ~Has(g.frames, "HandOffComplete") /\ ~Has(g.frames, "RegionTerminated")
          /\ CompleteLast(g.frames)
      BY <1>5, <2>3 DEF Good
    <3>2. gone.frames = g.frames /\ ~gone.releasing
      BY <1>1, <1>5, <2>3 DEF Untouched
    <3> QED
      BY <1>2, <2>1, <2>3, <3>1, <3>2, CompleteHandOffDone
  <2>4. ASSUME Fine(r, g), Settled(g) PROVE Settled(o.region)
    <3>1. gone.queue = <<>>
      BY <1>1, <1>3, <2>4
    <3> QED
      BY <1>2, <2>1, <2>4, <3>1, CompleteHandOffDone
  <2> HIDE DEF o
  <2> QED
    BY <2>2, <2>3, <2>4 DEF Handled, o
<1>6. CASE ~g.releasing /\ ~g.handingOff /\ g.passivating
  <2> DEFINE h == [gone EXCEPT !.passivating = FALSE, !.state = IF g.local THEN "owned" ELSE None]
  <2>1. o = Flushes(h)
    BY <1>6 DEF HandleShardTerminated
  <2> HIDE DEF gone
  <2>2. ASSUME Fine(r, g)
        PROVE  /\ h \in ARegion /\ Untouched(g, h) /\ h.actor = "none" /\ h.queue = g.queue
               /\ h.passivating = FALSE
    BY <1>1, <2>2 DEF ARegion, Untouched
  <2> HIDE DEF h
  <2>3. ASSUME Fine(r, g), Settled(g) PROVE Settled(h)
    <3>1. h.queue = <<>> /\ ~h.handingOff
      BY <1>3, <1>6, <2>2, <2>3 DEF Untouched
    <3>2. 1..Len(h.queue) = {}
      BY <3>1
    <3> QED
      BY <2>2, <2>3, <3>1, <3>2 DEF Settled
  <2>4. Kept(c, r, g, h)
    BY <1>6, <2>2, <2>3, QuietChange
  <2> QED
    BY <2>1, <2>4, FlushesHandled
<1>7. CASE ~g.releasing /\ ~g.handingOff /\ ~g.passivating
  <2> DEFINE h == IF g.local THEN [gone EXCEPT !.state = "backing-off"] ELSE gone
  <2>1. o = Keeps(h)
    BY <1>7 DEF HandleShardTerminated
  <2> HIDE DEF gone
  <2>2. ASSUME Fine(r, g) PROVE h \in ARegion /\ Untouched(g, h) /\ h.actor = "none"
    BY <1>1, <2>2 DEF ARegion, Untouched
  <2> HIDE DEF h
  <2>3. ~Settled(g)
    BY <1>3, <1>7
  <2>4. Kept(c, r, g, h)
    BY <1>7, <2>2, <2>3, QuietChange
  <2> QED
    BY <2>1, <2>4, KeepsHandled
<1> QED
  BY <1>4, <1>5, <1>6, <1>7

\* onShardPassivationDeclined: the shard stays, and what was buffered for it goes to it.
LEMMA PassivationDeclinedHandled ==
    ASSUME NEW c, NEW r, NEW g, g.declined
    PROVE  Handled(c, c, r, g, OnShardPassivationDeclined(g))
<1> DEFINE o == OnShardPassivationDeclined(g)
<1>1. CASE ~g.passivating \/ g.handingOff
  <2> DEFINE h == [g EXCEPT !.declined = FALSE]
  <2>1. o = Keeps(h)
    BY <1>1 DEF OnShardPassivationDeclined
  <2>2. ASSUME Fine(r, g)
        PROVE  /\ h \in ARegion /\ Untouched(g, h) /\ h.actor = g.actor /\ h.queue = g.queue
               /\ h.passivating = g.passivating /\ h.state = g.state /\ h.declined = FALSE
    BY <2>2 DEF Fine, ARegion, Untouched
  <2> HIDE DEF h
  <2>3. ASSUME Fine(r, g), Settled(g) PROVE Settled(h)
    BY <2>2, <2>3 DEF Settled, Untouched
  <2>4. Kept(c, r, g, h)
    BY <2>2, <2>3, QuietChange
  <2> QED
    BY <2>1, <2>4, KeepsHandled
<1>2. CASE g.passivating /\ ~g.handingOff
  <2> DEFINE h == [g EXCEPT !.declined = FALSE, !.passivating = FALSE,
                            !.state = IF g.local THEN "owned" ELSE @]
  <2>1. o = Flushes(h)
    BY <1>2 DEF OnShardPassivationDeclined
  <2>2. ASSUME Fine(r, g)
        PROVE  /\ h \in ARegion /\ Untouched(g, h) /\ h.actor = g.actor /\ h.queue = g.queue
               /\ h.passivating = FALSE /\ h.declined = FALSE
    BY <2>2 DEF Fine, ARegion, Untouched
  <2> HIDE DEF h
  <2>3. ASSUME Fine(r, g), Settled(g) PROVE Settled(h)
    <3>1. /\ g.actor \notin {"stopping", "stopped"}
          /\ \A i \in 1..Len(g.queue) : g.queue[i] # "passivate"
      BY <1>2, <2>3 DEF Settled
    <3>2. h.handingOff = g.handingOff
      BY <2>2, <2>3 DEF Untouched
    <3> QED
      BY <1>2, <2>2, <2>3, <3>1, <3>2 DEF Settled
  <2>4. Kept(c, r, g, h)
    BY <2>2, <2>3, QuietChange
  <2> QED
    BY <2>1, <2>4, FlushesHandled
<1> QED
  BY <1>1, <1>2

LEMMA ReleaseEverythingFine ==
    ASSUME NEW r, NEW g, Fine(r, g)
    PROVE  Fine(r, ReleaseEverything(g)) /\ ReleaseEverything(g).running = g.running
<1> DEFINE forgotten == [g EXCEPT !.home = None, !.local = FALSE, !.state = None]
           h == ReleaseEverything(g)
<1>1. /\ forgotten \in ARegion /\ forgotten.running = g.running /\ forgotten.frames = g.frames
      /\ forgotten.local = FALSE /\ forgotten.actor = g.actor
  BY NoneIsHome DEF Fine, ARegion
<1>2. CASE g.actor = "none"
  <2>1. h = forgotten
    BY <1>2 DEF ReleaseEverything
  <2> HIDE DEF forgotten, h
  <2> QED
    BY <1>1, <1>2, <2>1 DEF Fine, Hosts, h
<1>3. CASE g.actor # "none"
  <2> DEFINE k == StopShard(forgotten)
  <2>1. h = [k EXCEPT !.handingOff = FALSE, !.passivating = FALSE, !.releasing = TRUE]
    BY <1>3 DEF ReleaseEverything
  <2> HIDE DEF forgotten
  <2>2. /\ k \in ARegion /\ k.running = g.running /\ k.frames = g.frames
    <3>1. <<>> \in Seq({"message", "passivate"})
      OBVIOUS
    <3> QED
      BY <1>1, <3>1 DEF StopShard, ARegion
  <2> HIDE DEF k, h
  <2>3. h \in ARegion /\ h.running = g.running /\ h.frames = g.frames
    BY <2>1, <2>2 DEF ARegion
  <2> QED
    BY <1>3, <2>3 DEF Fine, Hosts, h
<1> QED
  BY <1>2, <1>3

\* onMemberRemoved: the homes on the node are forgotten.
LEMMA MemberRemovedFine ==
    ASSUME NEW r, NEW g, NEW node, Fine(r, g)
    PROVE  LET o == OnMemberRemoved(g, node)
           IN  Fine(r, o.region) /\ o.region.running = g.running /\ o.flush = 0
<1> DEFINE h == IF g.home = node THEN [g EXCEPT !.home = None, !.state = None] ELSE g
           k == EnsureRegistered(h)
<1>1. h \in ARegion /\ h.running = g.running /\ h.frames = g.frames /\ h.local = g.local /\ h.actor = g.actor
  <2> DEFINE forgotten == [g EXCEPT !.home = None, !.state = None]
  <2>1. /\ forgotten \in ARegion /\ forgotten.running = g.running /\ forgotten.frames = g.frames /\ forgotten.local = g.local
        /\ forgotten.actor = g.actor
    BY NoneIsHome DEF Fine, ARegion
  <2>2. h \in {forgotten, g} /\ g \in ARegion
    BY DEF Fine
  <2> HIDE DEF forgotten, h
  <2> QED
    BY <2>1, <2>2
<1>2. OnMemberRemoved(g, node) = Keeps(k)
  BY DEF OnMemberRemoved
<1> HIDE DEF h
<1>3. Fine(r, h)
  BY <1>1 DEF Fine, Hosts
<1>4. Fine(r, k) /\ k.running = h.running
  BY <1>3, EnsureRegisteredKept DEF Kept
<1>5. OnMemberRemoved(g, node).region = k /\ OnMemberRemoved(g, node).flush = 0
  BY <1>2 DEF Keeps
<1> HIDE DEF k
<1> QED
  BY <1>1, <1>4, <1>5

\* handleShardingMessage, frame by frame.
LEMMA MessageHandled ==
    ASSUME NEW c, NEW d, NEW r \in Region, NEW g, Taken(c, d, r)
    PROVE  Handled(c, d, r, g, HandleShardingMessage(g, r, Head(c.frames[r])))
<1> DEFINE s == c.frames[r]
           x == Head(s)
           o == HandleShardingMessage(g, r, x)
<1>1. s \in Seq(CoordinatorFrame) /\ s # <<>> /\ x \in CoordinatorFrame
  BY TailIndex DEF Taken
<1>2. x.kind \in CoordinatorKinds
  BY <1>1 DEF CoordinatorFrame
<1>3. x.kind # "HandOff" /\ Good(c, g, r) => Good(d, g, r)
  BY TakenGood
<1>4. ASSUME NEW k, Handled(d, d, r, g, k), x.kind # "HandOff" PROVE Handled(c, d, r, g, k)
  BY <1>3, <1>4 DEF Handled
<1> HIDE DEF x
<1>5. CASE x.kind = "RegisterAcknowledgment"
  <2> DEFINE h == [g EXCEPT !.registering = FALSE]
  <2>1. o = Keeps(h)
    BY <1>5 DEF HandleShardingMessage
  <2>2. ASSUME Fine(r, g)
        PROVE  /\ h \in ARegion /\ Untouched(g, h) /\ h.actor = g.actor /\ h.queue = g.queue
               /\ h.passivating = g.passivating /\ h.state = g.state /\ h.declined = g.declined
    BY <2>2 DEF Fine, ARegion, Untouched
  <2> HIDE DEF h
  <2>3. ASSUME Fine(r, g), Settled(g) PROVE Settled(h)
    BY <2>2, <2>3 DEF Settled, Untouched
  <2>4. Kept(d, r, g, h)
    BY <2>2, <2>3, QuietChange
  <2> QED
    BY <1>4, <1>5, <2>1, <2>4, KeepsHandled DEF x
<1>6. CASE x.kind = "RegistrationRequest"
  <2>1. o = Keeps(EnsureRegistered(g))
    BY <1>6 DEF HandleShardingMessage
  <2>2. Handled(d, d, r, g, Keeps(EnsureRegistered(g)))
    BY EnsureRegisteredKept, KeepsHandled
  <2> QED
    BY <1>4, <1>6, <2>1, <2>2 DEF x
<1>7. CASE x.kind = "RegionEvicted"
  <2> DEFINE h == EnsureRegistered(ReleaseEverything(g))
  <2>1. o = Keeps(h)
    BY <1>7 DEF HandleShardingMessage, OnRegionEvicted
  <2>2. ASSUME Fine(r, g) PROVE Fine(r, h) /\ h.running = g.running
    BY <2>2, ReleaseEverythingFine, EnsureRegisteredKept DEF Kept
  <2>3. Has(s, "RegionEvicted")
    BY <1>1, <1>7, HasTail DEF x
  <2>4. ~Good(c, g, r)
    BY <2>3 DEF Good
  <2>5. o.region = h /\ o.flush = 0 /\ 0 \in Nat
    BY <2>1 DEF Keeps
  <2> HIDE DEF h, o
  <2> QED
    BY <2>2, <2>4, <2>5 DEF Handled, o, x
<1>8. CASE x.kind = "ShardHome"
  <2>1. o = OnShardHome(g, r, x.home)
    BY <1>8 DEF HandleShardingMessage
  <2> QED
    BY <1>8, <2>1, OnShardHomeHandled DEF x
<1>9. CASE x.kind = "HandOff"
  <2>1. o = OnHandOff(g)
    BY <1>9 DEF HandleShardingMessage
  <2> QED
    BY <1>9, <2>1, OnHandOffHandled DEF x
<1> QED
  BY <1>2, <1>5, <1>6, <1>7, <1>8, <1>9 DEF CoordinatorKinds

\* The handler's last step: what it takes from its buffer is routed.
LEMMA HandlerEnds ==
    ASSUME NEW c, NEW d, NEW r, NEW g, NEW o, Handled(c, d, r, g, o), Fine(r, g)
    PROVE  LET k == RouteMessages(o.region, o.flush)
           IN  /\ Fine(r, k) /\ k.running = g.running
               /\ Good(c, g, r) => Good(d, k, r)
               /\ Good(c, g, r) /\ Settled(g) => Settled(k) /\ DroppedBy(o.region, o.flush) = 0
<1> DEFINE h == o.region
           n == o.flush
           k == RouteMessages(h, n)
<1>1. Fine(r, h) /\ h.running = g.running /\ n \in Nat
  BY DEF Handled
<1>2. /\ Good(c, g, r) => Good(d, h, r)
      /\ Good(c, g, r) /\ Settled(g) => Settled(h)
  BY DEF Handled
<1>3. /\ Kept(d, r, h, k)
      /\ Fine(r, h) /\ Good(d, h, r) /\ Settled(h) => DroppedBy(h, n) = 0
  BY <1>1, RouteKept
<1> QED
  BY <1>1, <1>2, <1>3 DEF Kept

-----------------------------------------------------------------------------
(* The shard actor's own steps *)

\* The shard takes a message, or the order to passivate.
LEMMA ShardTurnKept ==
    ASSUME NEW c, NEW r, NEW g, g.actor = "live", g.queue # <<>>
    PROVE  /\ Head(g.queue) = "message"
                => Kept(c, r, g, [[g EXCEPT !.queue = Tail(@)] EXCEPT !.busy = TRUE])
           /\ Head(g.queue) = "passivate"
                => /\ Kept(c, r, g, [[g EXCEPT !.queue = Tail(@)] EXCEPT !.declined = TRUE])
                   /\ Kept(c, r, g, StopShard(g))
                   /\ Fine(r, g) /\ Settled(g)
                        => Cardinality({i \in 2..Len(g.queue) : g.queue[i] = "message"}) = 0
<1> DEFINE q == g.queue
           t == Tail(q)
           taken == [[g EXCEPT !.queue = Tail(@)] EXCEPT !.busy = TRUE]
           declined == [[g EXCEPT !.queue = Tail(@)] EXCEPT !.declined = TRUE]
           stopped == StopShard(g)
<1>1. ASSUME Fine(r, g)
      PROVE  /\ q \in Seq({"message", "passivate"}) /\ t \in Seq({"message", "passivate"})
             /\ Len(q) \in Nat /\ Len(q) >= 1 /\ Len(t) = Len(q) - 1 /\ Head(q) = q[1]
             /\ \A i \in 1..Len(t) : t[i] = q[i + 1] /\ i + 1 \in 1..Len(q)
  <2>1. q \in Seq({"message", "passivate"})
    BY <1>1 DEF Fine, ARegion
  <2> QED
    BY <2>1, TailIndex
<1>2. ASSUME Fine(r, g)
      PROVE  /\ taken \in ARegion /\ Untouched(g, taken) /\ taken.actor = g.actor /\ taken.queue = t
             /\ taken.passivating = g.passivating /\ taken.state = g.state
             /\ taken.declined = g.declined
  <2> HIDE DEF t
  <2>1. taken = [g EXCEPT !.queue = t, !.busy = TRUE]
    BY DEF t
  <2> HIDE DEF taken
  <2> QED
    BY <1>1, <1>2, <2>1 DEF Fine, ARegion, Untouched
<1>3. ASSUME Fine(r, g)
      PROVE  /\ declined \in ARegion /\ Untouched(g, declined) /\ declined.actor = g.actor
             /\ declined.queue = t /\ declined.passivating = g.passivating
             /\ declined.state = g.state /\ declined.declined = TRUE
  <2> HIDE DEF t
  <2>1. declined = [g EXCEPT !.queue = t, !.declined = TRUE]
    BY DEF t
  <2> HIDE DEF declined
  <2> QED
    BY <1>1, <1>3, <2>1 DEF Fine, ARegion, Untouched
<1>4. ASSUME Fine(r, g)
      PROVE  /\ stopped \in ARegion /\ Untouched(g, stopped) /\ stopped.actor = "stopping"
             /\ stopped.queue = <<>> /\ stopped.passivating = g.passivating
             /\ stopped.state = g.state /\ stopped.declined = g.declined
  <2>1. <<>> \in Seq({"message", "passivate"})
    OBVIOUS
  <2>2. stopped = [g EXCEPT !.actor = "stopping", !.queue = <<>>]
    BY DEF StopShard
  <2> HIDE DEF stopped
  <2> QED
    BY <1>4, <2>1, <2>2 DEF Fine, ARegion, Untouched
<1>5. ASSUME Fine(r, g), Settled(g), Head(q) = "passivate"
      PROVE  Len(q) = 1 /\ g.passivating /\ ~g.declined
  <2>1. 1 \in 1..Len(q) /\ q[1] = "passivate"
    BY <1>1, <1>5
  <2> QED
    BY <1>5, <2>1 DEF Settled
<1> HIDE DEF t, taken, declined, stopped
<1>6. ASSUME Fine(r, g), Settled(g) PROVE Settled(taken)
  <2> SUFFICES ASSUME NEW i \in 1..Len(t), t[i] = "passivate"
               PROVE  i = Len(t) /\ g.passivating /\ ~g.declined
    BY <1>2, <1>6 DEF Settled, Untouched
  <2>1. q[i + 1] = "passivate" /\ i + 1 \in 1..Len(q)
    BY <1>1, <1>6
  <2>2. i + 1 = Len(q) /\ g.passivating /\ ~g.declined
    BY <1>6, <2>1 DEF Settled
  <2> QED
    BY <1>1, <1>6, <2>2
<1>7. ASSUME Fine(r, g), Settled(g), Head(q) = "passivate" PROVE Settled(declined)
  <2>1. 1..Len(t) = {}
    BY <1>1, <1>5, <1>7
  <2> QED
    BY <1>3, <1>5, <1>7, <2>1 DEF Settled, Untouched
<1>8. ASSUME Fine(r, g), Settled(g), Head(q) = "passivate" PROVE Settled(stopped)
  <2>1. 1..Len(stopped.queue) = {}
    BY <1>4, <1>8
  <2> QED
    BY <1>4, <1>5, <1>8, <2>1 DEF Settled, Untouched
<1>9. ASSUME Fine(r, g), Settled(g), Head(q) = "passivate"
      PROVE  Cardinality({i \in 2..Len(q) : q[i] = "message"}) = 0
  <2>1. {i \in 2..Len(q) : q[i] = "message"} = {}
    BY <1>5, <1>9
  <2> QED
    BY <2>1, FS_EmptySet
<1>10. Kept(c, r, g, taken)
  BY <1>2, <1>6, QuietChange
<1>11. Head(q) = "passivate" => Kept(c, r, g, declined)
  BY <1>3, <1>7, QuietChange
<1>12. Head(q) = "passivate" => Kept(c, r, g, stopped)
  BY <1>4, <1>8, QuietChange
<1> QED
  BY <1>9, <1>10, <1>11, <1>12 DEF taken, declined, stopped

LEMMA EntitiesStopKept ==
    ASSUME NEW c, NEW r, NEW g PROVE Kept(c, r, g, [g EXCEPT !.busy = FALSE])
<1> DEFINE h == [g EXCEPT !.busy = FALSE]
<1>1. ASSUME Fine(r, g)
      PROVE  /\ h \in ARegion /\ Untouched(g, h) /\ h.actor = g.actor /\ h.queue = g.queue
             /\ h.passivating = g.passivating /\ h.state = g.state /\ h.declined = g.declined
  BY <1>1 DEF Fine, ARegion, Untouched
<1> HIDE DEF h
<1>2. ASSUME Fine(r, g), Settled(g) PROVE Settled(h)
  BY <1>1, <1>2 DEF Settled, Untouched
<1>3. Kept(c, r, g, h)
  BY <1>1, <1>2, QuietChange
<1> QED
  BY <1>3 DEF h

LEMMA ShardStopsKept ==
    ASSUME NEW c, NEW r, NEW g, g.actor = "stopping"
    PROVE  Kept(c, r, g, [g EXCEPT !.actor = "stopped", !.busy = FALSE])
<1> DEFINE h == [g EXCEPT !.actor = "stopped", !.busy = FALSE]
<1>1. ASSUME Fine(r, g)
      PROVE  /\ h \in ARegion /\ Untouched(g, h) /\ h.actor = "stopped" /\ h.queue = g.queue
             /\ h.passivating = g.passivating /\ h.state = g.state /\ h.declined = g.declined
  BY <1>1 DEF Fine, ARegion, Untouched
<1> HIDE DEF h
<1>2. ASSUME Fine(r, g), Settled(g) PROVE Settled(h)
  BY <1>1, <1>2 DEF Settled, Untouched
<1>3. Kept(c, r, g, h)
  BY <1>1, <1>2, QuietChange
<1> QED
  BY <1>3 DEF h

\* A failed shard: the region's claim stands, but what it routes there is lost.
LEMMA ShardFailsGood ==
    ASSUME NEW c, NEW r, NEW g, g.actor = "live", Fine(r, g)
    PROVE  LET h == [g EXCEPT !.actor = "stopped", !.queue = <<>>, !.busy = FALSE]
           IN  Fine(r, h) /\ h.running = g.running /\ (Good(c, g, r) => Good(c, h, r))
<1> DEFINE h == [g EXCEPT !.actor = "stopped", !.queue = <<>>, !.busy = FALSE]
<1>1. <<>> \in Seq({"message", "passivate"})
  OBVIOUS
<1>2. h \in ARegion /\ Untouched(g, h) /\ h.actor = "stopped"
  BY <1>1 DEF Fine, ARegion, Untouched
<1> HIDE DEF h
<1>3. Fine(r, h) /\ h.running = g.running /\ (Good(c, g, r) => Good(c, h, r))
  BY <1>2, SameClaim DEF Untouched
<1> QED
  BY <1>3 DEF h

\* passivateIdleShards: an order to passivate is the last thing in the shard's mailbox.
LEMMA PassivateKept ==
    ASSUME NEW c, NEW r, NEW g, g.actor # "none", ~g.handingOff, ~g.passivating
    PROVE  Kept(c, r, g, [g EXCEPT !.passivating = TRUE, !.state = "passivating",
                                   !.queue = IF g.actor = "live" THEN Append(@, "passivate") ELSE @])
<1> DEFINE q == IF g.actor = "live" THEN Append(g.queue, "passivate") ELSE g.queue
           h == [g EXCEPT !.passivating = TRUE, !.state = "passivating", !.queue = q]
           all == Append(g.queue, "passivate")
<1>1. ASSUME Fine(r, g)
      PROVE  /\ all \in Seq({"message", "passivate"}) /\ g.queue \in Seq({"message", "passivate"})
             /\ Len(g.queue) \in Nat /\ Len(all) = Len(g.queue) + 1
             /\ 1..Len(all) = 1..Len(g.queue) \cup {Len(g.queue) + 1}
             /\ \A i \in 1..Len(g.queue) : all[i] = g.queue[i]
  <2>1. g.queue \in Seq({"message", "passivate"})
    BY <1>1 DEF Fine, ARegion
  <2> QED
    BY <2>1, AppendIndex
<1>2. q \in {all, g.queue} /\ (g.actor = "live" => q = all)
  OBVIOUS
<1> HIDE DEF q, all
<1>3. ASSUME Fine(r, g)
      PROVE  /\ h \in ARegion /\ Untouched(g, h) /\ h.actor = g.actor /\ h.queue = q
             /\ h.passivating = TRUE /\ h.state = "passivating" /\ h.declined = g.declined
  <2>1. q \in Seq({"message", "passivate"})
    BY <1>1, <1>2, <1>3
  <2> QED
    BY <1>3, <2>1 DEF Fine, ARegion, Untouched
<1> HIDE DEF h
<1>4. ASSUME Fine(r, g), Settled(g) PROVE Settled(h)
  <2>1. g.actor = "live"
    BY <1>4 DEF Settled, Fine, ARegion
  <2>2. ~g.declined /\ \A i \in 1..Len(g.queue) : g.queue[i] # "passivate"
    BY <1>4 DEF Settled
  <2>3. \A i \in 1..Len(q) : q[i] = "passivate" => i = Len(q)
    BY <1>1, <1>2, <1>4, <2>1, <2>2
  <2> QED
    BY <1>3, <1>4, <2>1, <2>2, <2>3 DEF Settled, Untouched
<1>5. Kept(c, r, g, h)
  BY <1>3, <1>4, QuietChange
<1> QED
  BY <1>5 DEF h, q

\* onShardRespawnTick
LEMMA RespawnHandled ==
    ASSUME NEW c, NEW r, NEW g, g.state = "backing-off", g.local
    PROVE  Handled(c, c, r, g, Flushes(EnsureShard([g EXCEPT !.state = "owned"])))
<1> DEFINE h == [g EXCEPT !.state = "owned"]
<1>1. ASSUME Fine(r, g)
      PROVE  /\ h \in ARegion /\ Untouched(g, h) /\ h.actor = g.actor /\ h.queue = g.queue
             /\ h.passivating = g.passivating /\ h.declined = g.declined
  BY <1>1 DEF Fine, ARegion, Untouched
<1> HIDE DEF h
<1>2. ASSUME Fine(r, g), Settled(g) PROVE Settled(h)
  BY <1>1, <1>2 DEF Settled, Untouched
<1>3. Kept(c, r, g, h)
  BY <1>1, <1>2, QuietChange
<1>4. Fine(r, g) => Kept(c, r, h, EnsureShard(h))
  BY <1>1, EnsureShardKept DEF Untouched
<1>5. Kept(c, r, g, EnsureShard(h))
  BY <1>3, <1>4 DEF Kept
<1> QED
  BY <1>5, FlushesHandled DEF h

-----------------------------------------------------------------------------
(* What the coordinator's operations keep of the types *)

Typed(c) == c \in ACoordinator /\ c.beaten \subseteq c.registered

\* d is c but for the fields fs.
Beside(c, d, fs) == \A f \in Fields \ fs : d[f] = c[f]

\* An operation keeps the types, and forgets no crossed answer.
Grows(c, d) == Typed(d) /\ (c.crossed => d.crossed)

\* One more frame on the link to region r.
LEMMA TellEffect ==
    ASSUME NEW c, Typed(c), NEW r \in Region, NEW kind \in CoordinatorKinds
    PROVE  LET d == ToRegion(c, r, kind)
               x == [kind |-> kind, home |-> IF kind = "ShardHome" THEN c.home ELSE None]
           IN  /\ Typed(d) /\ Beside(c, d, {"frames"}) /\ x \in CoordinatorFrame
               /\ d.frames[r] = Append(c.frames[r], x)
               /\ \A q \in Region \ {r} : d.frames[q] = c.frames[q]
<1> DEFINE x == [kind |-> kind, home |-> IF kind = "ShardHome" THEN c.home ELSE None]
           fs == [c.frames EXCEPT ![r] = Append(@, x)]
           d == ToRegion(c, r, kind)
<1>1. c \in ACoordinator /\ c.home \in Homes /\ c.frames \in [Region -> Seq(CoordinatorFrame)]
  BY DEF Typed, ACoordinator
<1>2. x \in CoordinatorFrame
  BY <1>1, NoneIsHome DEF CoordinatorFrame
<1>3. d = [c EXCEPT !.frames = fs]
  BY DEF ToRegion
<1> HIDE DEF x
<1>4. Append(c.frames[r], x) \in Seq(CoordinatorFrame)
  BY <1>1, <1>2
<1>5. /\ fs \in [Region -> Seq(CoordinatorFrame)] /\ fs[r] = Append(c.frames[r], x)
      /\ \A q \in Region \ {r} : fs[q] = c.frames[q]
  BY <1>1, <1>4
<1> HIDE DEF fs, d
<1>6. d \in ACoordinator /\ Beside(c, d, {"frames"}) /\ d.frames = fs
  BY <1>1, <1>3, <1>5 DEF ACoordinator, Beside, Fields
<1>7. Typed(d)
  BY <1>6 DEF Typed, Beside, Fields
<1> QED
  BY <1>2, <1>5, <1>6, <1>7 DEF d, x

LEMMA TellGrows ==
    ASSUME NEW c, Typed(c), NEW r \in Region, NEW kind \in CoordinatorKinds
    PROVE  Grows(c, ToRegion(c, r, kind))
<1>1. Typed(ToRegion(c, r, kind)) /\ Beside(c, ToRegion(c, r, kind), {"frames"})
  BY TellEffect
<1> QED
  BY <1>1 DEF Grows, Beside, Fields

\* The pending queries are answered, each once.
LEMMA FlushEffect ==
    ASSUME NEW c, Typed(c)
    PROVE  LET d == FlushPending(c)
               x == [kind |-> "ShardHome", home |-> c.home]
           IN  /\ Typed(d) /\ Beside(c, d, {"frames", "pending"}) /\ x \in CoordinatorFrame
               /\ d.pending = IF c.home \in c.registered THEN {} ELSE c.pending
               /\ \A q \in Region :
                     \/ d.frames[q] = c.frames[q]
                     \/ q \in c.pending /\ d.frames[q] = Append(c.frames[q], x)
<1> DEFINE x == [kind |-> "ShardHome", home |-> c.home]
           fs == [r \in Region |-> IF r \in c.pending THEN Append(c.frames[r], x) ELSE c.frames[r]]
           d == FlushPending(c)
<1>1. c \in ACoordinator /\ c.home \in Homes /\ c.frames \in [Region -> Seq(CoordinatorFrame)]
  BY DEF Typed, ACoordinator
<1>2. x \in CoordinatorFrame
  BY <1>1 DEF CoordinatorFrame, CoordinatorKinds
<1>3. d = IF c.home \in c.registered THEN [c EXCEPT !.pending = {}, !.frames = fs] ELSE c
  BY DEF FlushPending
<1> HIDE DEF x
<1>4. \A q \in Region : Append(c.frames[q], x) \in Seq(CoordinatorFrame)
  BY <1>1, <1>2
<1>5. /\ fs \in [Region -> Seq(CoordinatorFrame)]
      /\ \A q \in Region : \/ fs[q] = c.frames[q]
                           \/ q \in c.pending /\ fs[q] = Append(c.frames[q], x)
  BY <1>1, <1>4
<1> HIDE DEF fs, d
<1>6. /\ d \in ACoordinator /\ Beside(c, d, {"frames", "pending"}) /\ d.frames \in {fs, c.frames}
      /\ d.pending = IF c.home \in c.registered THEN {} ELSE c.pending
  BY <1>1, <1>3, <1>5 DEF ACoordinator, Beside, Fields
<1>7. Typed(d)
  BY <1>6 DEF Typed, Beside, Fields
<1> QED
  BY <1>2, <1>5, <1>6, <1>7 DEF d, x

LEMMA FlushGrows ==
    ASSUME NEW c, Typed(c) PROVE Grows(c, FlushPending(c))
<1>1. Typed(FlushPending(c)) /\ Beside(c, FlushPending(c), {"frames", "pending"})
  BY FlushEffect
<1> QED
  BY <1>1 DEF Grows, Beside, Fields

\* The region the strategy picks may host.
LEMMA PickEffect ==
    ASSUME NEW c, Typed(c), NEW r \in EligibleRegions(c)
    PROVE  LET d == [c EXCEPT !.home = r, !.listed = @ \cup {r}]
           IN  /\ Typed(d) /\ Beside(c, d, {"home", "listed"}) /\ d.home = r
               /\ r \in Region /\ r \in c.registered
<1> DEFINE d == [c EXCEPT !.home = r, !.listed = @ \cup {r}]
<1>1. c \in ACoordinator /\ c.registered \subseteq Region
  BY DEF Typed, ACoordinator
<1>2. r \in Region /\ r \in c.registered /\ r \in Homes
  BY <1>1 DEF EligibleRegions, Homes, Maybe
<1>3. d \in ACoordinator /\ Beside(c, d, {"home", "listed"}) /\ d.home = r
  BY <1>1, <1>2 DEF ACoordinator, Beside, Fields
<1> HIDE DEF d
<1>4. Typed(d)
  BY <1>3 DEF Typed, Beside, Fields
<1> QED
  BY <1>2, <1>3, <1>4 DEF d

LEMMA GrowsTwice ==
    ASSUME NEW c, NEW d, NEW e, Grows(c, d), Grows(d, e) PROVE Grows(c, e)
BY DEF Grows

LEMMA BesideGrows ==
    ASSUME NEW c, NEW d, NEW fs, Typed(d), Beside(c, d, fs), "crossed" \notin fs PROVE Grows(c, d)
BY DEF Grows, Beside, Fields

LEMMA TryAllocateGrows ==
    ASSUME NEW c, Typed(c), NEW d \in TryAllocate(c) PROVE Grows(c, d)
<1>1. CASE EligibleRegions(c) = {}
  BY <1>1 DEF TryAllocate, Grows
<1>2. CASE EligibleRegions(c) # {}
  <2>1. PICK r \in EligibleRegions(c) :
          d = FlushPending(ToRegion([c EXCEPT !.home = r, !.listed = @ \cup {r}], r, "ShardHome"))
    BY <1>2 DEF TryAllocate
  <2> DEFINE homed == [c EXCEPT !.home = r, !.listed = @ \cup {r}]
             told == ToRegion(homed, r, "ShardHome")
  <2>2. Typed(homed) /\ Beside(c, homed, {"home", "listed"}) /\ r \in Region
    BY PickEffect
  <2> HIDE DEF homed
  <2>3. Grows(c, homed)
    BY <2>2, BesideGrows
  <2>4. Grows(homed, told)
    BY <2>2, TellGrows DEF CoordinatorKinds
  <2> HIDE DEF told
  <2>5. Grows(told, FlushPending(told))
    BY <2>4, FlushGrows DEF Grows
  <2> QED
    BY <2>1, <2>3, <2>4, <2>5, GrowsTwice DEF told, homed
<1> QED
  BY <1>1, <1>2

\* The end of a hand-off, confirmed or timed out.
LEMMA ReleaseEffect ==
    ASSUME NEW c, Typed(c)
    PROVE  LET d == [ReleaseFromPreviousOwner(c) EXCEPT !.rebalancing = None]
           IN  /\ Typed(d) /\ Beside(c, d, {"home", "listed", "rebalancing"})
               /\ d.home = None /\ d.rebalancing = None
<1> DEFINE d == [ReleaseFromPreviousOwner(c) EXCEPT !.rebalancing = None]
<1>1. c \in ACoordinator
  BY DEF Typed
<1>2. d = [c EXCEPT !.home = None, !.listed = c.listed \ {c.rebalancing}, !.rebalancing = None]
  BY <1>1 DEF ReleaseFromPreviousOwner, ACoordinator
<1> HIDE DEF d
<1>3. d \in ACoordinator /\ d.home = None /\ d.rebalancing = None
  BY <1>1, <1>2, NoneIsHome DEF ACoordinator
<1>4. Beside(c, d, {"home", "listed", "rebalancing"})
  BY <1>1, <1>2 DEF ACoordinator, Beside, Fields
<1>5. Typed(d)
  BY <1>3, <1>4 DEF Typed, Beside, Fields
<1> QED
  BY <1>3, <1>4, <1>5 DEF d

\* A region registered, with or without a claim that is adopted.
LEMMA JoinEffect ==
    ASSUME NEW c, Typed(c), NEW r \in Region, NEW home \in {r, c.home}, home = r => r \notin Proxy \/ c.home = r
    PROVE  LET d == [c EXCEPT !.registered = @ \cup {r}, !.home = home,
                              !.listed = IF home = r THEN @ \cup {r} ELSE @ \ {r}]
           IN  /\ Typed(d) /\ Beside(c, d, {"registered", "home", "listed"})
               /\ d.home = home /\ d.registered = c.registered \cup {r}
<1> DEFINE list == IF home = r THEN c.listed \cup {r} ELSE c.listed \ {r}
           d == [c EXCEPT !.registered = @ \cup {r}, !.home = home,
                          !.listed = IF home = r THEN @ \cup {r} ELSE @ \ {r}]
<1>1. c \in ACoordinator /\ c.home \in Homes /\ c.listed \subseteq Region /\ c.registered \subseteq Region
  BY DEF Typed, ACoordinator
<1>2. home \in Homes /\ list \subseteq Region /\ c.registered \cup {r} \subseteq Region
  BY <1>1 DEF Homes, Maybe
<1>3. d = [c EXCEPT !.registered = c.registered \cup {r}, !.home = home, !.listed = list]
  OBVIOUS
<1> HIDE DEF d, list
<1>4. d \in ACoordinator /\ d.home = home /\ d.registered = c.registered \cup {r}
  BY <1>1, <1>2, <1>3 DEF ACoordinator
<1>5. Beside(c, d, {"registered", "home", "listed"})
  BY <1>1, <1>3 DEF ACoordinator, Beside, Fields
<1>6. Typed(d)
  BY <1>4, <1>5 DEF Typed, Beside, Fields
<1> QED
  BY <1>4, <1>5, <1>6 DEF d

LEMMA OnRegisterGrows ==
    ASSUME NEW c, Typed(c), NEW r \in Region, NEW claims \in BOOLEAN, claims => r \notin Proxy,
           NEW d \in OnRegister(c, r, claims)
    PROVE  Grows(c, d)
<1> DEFINE adopted == claims /\ (c.home \in {None, r} \/ c.home \notin c.registered)
           home    == IF adopted THEN r ELSE c.home
           joined  == [c EXCEPT !.registered = @ \cup {r}, !.home = home,
                                !.listed = IF home = r THEN @ \cup {r} ELSE @ \ {r}]
           acked   == ToRegion(joined, r, "RegisterAcknowledgment")
<1>1. d = IF adopted THEN FlushPending(acked)
          ELSE IF claims /\ c.rebalancing = None THEN ToRegion(acked, r, "HandOff")
          ELSE acked
  BY DEF OnRegister
<1>2. home \in {r, c.home} /\ (home = r => r \notin Proxy \/ c.home = r)
  OBVIOUS
<1> HIDE DEF home
<1>3. Typed(joined) /\ Beside(c, joined, {"registered", "home", "listed"})
  BY <1>2, JoinEffect
<1> HIDE DEF joined
<1>4. Grows(c, joined)
  BY <1>3, BesideGrows
<1>5. Grows(joined, acked)
  BY <1>3, TellGrows DEF CoordinatorKinds
<1> HIDE DEF acked, adopted
<1>6. Typed(acked)
  BY <1>5 DEF Grows
<1>7. Grows(acked, FlushPending(acked)) /\ Grows(acked, ToRegion(acked, r, "HandOff")) /\ Grows(acked, acked)
  BY <1>6, FlushGrows, TellGrows DEF CoordinatorKinds, Grows
<1>8. Grows(acked, d)
  BY <1>1, <1>7
<1> QED
  BY <1>4, <1>5, <1>8, GrowsTwice

LEMMA ParkEffect ==
    ASSUME NEW c, Typed(c), NEW r \in Region
    PROVE  LET d == [c EXCEPT !.pending = @ \cup {r}]
           IN  Typed(d) /\ Beside(c, d, {"pending"}) /\ d.pending = c.pending \cup {r}
<1> DEFINE d == [c EXCEPT !.pending = @ \cup {r}]
<1>1. c \in ACoordinator
  BY DEF Typed
<1>2. d \in ACoordinator /\ d.pending = c.pending \cup {r}
  BY <1>1 DEF ACoordinator
<1>3. Beside(c, d, {"pending"})
  BY <1>1 DEF ACoordinator, Beside, Fields
<1> HIDE DEF d
<1>4. Typed(d)
  BY <1>2, <1>3 DEF Typed, Beside, Fields
<1> QED
  BY <1>2, <1>3, <1>4 DEF d

\* The answer to a query, and whether it crossed a hand-off.
LEMMA AnswerEffect ==
    ASSUME NEW c, Typed(c), NEW r \in Region
    PROVE  LET told == ToRegion(c, r, "ShardHome")
               d == [told EXCEPT !.crossed = @ \/ c.rebalancing = r]
           IN  /\ Typed(d) /\ Beside(told, d, {"crossed"})
               /\ c.crossed \/ c.rebalancing = r => d.crossed
<1> DEFINE told == ToRegion(c, r, "ShardHome")
           d == [told EXCEPT !.crossed = @ \/ c.rebalancing = r]
<1>1. Typed(told) /\ told.crossed = c.crossed
  <2>1. Typed(told) /\ Beside(c, told, {"frames"})
    BY TellEffect DEF CoordinatorKinds
  <2> QED
    BY <2>1 DEF Beside, Fields
<1> HIDE DEF told
<1>2. told \in ACoordinator /\ told.crossed \in BOOLEAN
  BY <1>1 DEF Typed, ACoordinator
<1>3. d.crossed = (told.crossed \/ c.rebalancing = r)
  BY <1>2 DEF ACoordinator
<1>4. d \in ACoordinator
  BY <1>2 DEF ACoordinator
<1>5. Beside(told, d, {"crossed"})
  BY <1>2 DEF ACoordinator, Beside, Fields
<1> HIDE DEF d
<1>6. Typed(d)
  BY <1>1, <1>4, <1>5 DEF Typed, Beside, Fields
<1> QED
  BY <1>1, <1>3, <1>5, <1>6 DEF d, told

LEMMA OnGetShardHomeGrows ==
    ASSUME NEW c, Typed(c), NEW r \in Region, NEW d \in OnGetShardHome(c, r) PROVE Grows(c, d)
<1>1. CASE c.home \in c.registered
  <2>1. d = [ToRegion(c, r, "ShardHome") EXCEPT !.crossed = @ \/ c.rebalancing = r]
    BY <1>1 DEF OnGetShardHome
  <2> QED
    BY <2>1, AnswerEffect DEF Grows
<1>2. CASE c.home \notin c.registered
  <2> DEFINE parked == [c EXCEPT !.pending = @ \cup {r}]
  <2>1. d \in IF c.rebalancing = None THEN TryAllocate(parked) ELSE {parked}
    BY <1>2 DEF OnGetShardHome
  <2>2. Typed(parked) /\ Beside(c, parked, {"pending"})
    BY ParkEffect
  <2> HIDE DEF parked
  <2>3. Grows(c, parked)
    BY <2>2, BesideGrows
  <2>4. d \in TryAllocate(parked) => Grows(parked, d)
    BY <2>2, TryAllocateGrows
  <2> QED
    BY <2>1, <2>3, <2>4, GrowsTwice
<1> QED
  BY <1>1, <1>2

LEMMA ReleaseGrows ==
    ASSUME NEW c, Typed(c),
           NEW d \in TryAllocate([ReleaseFromPreviousOwner(c) EXCEPT !.rebalancing = None])
    PROVE  Grows(c, d)
<1> DEFINE released == [ReleaseFromPreviousOwner(c) EXCEPT !.rebalancing = None]
<1>1. Typed(released) /\ Beside(c, released, {"home", "listed", "rebalancing"})
  BY ReleaseEffect
<1> HIDE DEF released
<1>2. Grows(c, released)
  BY <1>1, BesideGrows
<1>3. Grows(released, d)
  BY <1>1, TryAllocateGrows DEF released
<1> QED
  BY <1>2, <1>3, GrowsTwice

\* A region leaves the record.
LEMMA LeaveEffect ==
    ASSUME NEW c, Typed(c), NEW r \in Region
    PROVE  LET gone == [c EXCEPT !.registered = @ \ {r}, !.beaten = @ \ {r}, !.listed = @ \ {r}]
               homeless == [gone EXCEPT !.home = None, !.rebalancing = None]
           IN  /\ Typed(gone) /\ Beside(c, gone, {"registered", "beaten", "listed"})
               /\ gone.registered = c.registered \ {r}
               /\ Typed(homeless) /\ Beside(gone, homeless, {"home", "rebalancing"})
               /\ homeless.home = None /\ homeless.rebalancing = None
<1> DEFINE gone == [c EXCEPT !.registered = @ \ {r}, !.beaten = @ \ {r}, !.listed = @ \ {r}]
           homeless == [gone EXCEPT !.home = None, !.rebalancing = None]
<1>1. c \in ACoordinator /\ c.beaten \subseteq c.registered
  BY DEF Typed
<1>2. gone \in ACoordinator /\ gone.registered = c.registered \ {r} /\ gone.beaten = c.beaten \ {r}
  BY <1>1 DEF ACoordinator
<1>3. Beside(c, gone, {"registered", "beaten", "listed"})
  BY <1>1 DEF ACoordinator, Beside, Fields
<1>4. Typed(gone)
  BY <1>1, <1>2 DEF Typed
<1> HIDE DEF gone
<1>5. homeless \in ACoordinator /\ homeless.home = None /\ homeless.rebalancing = None
  BY <1>2, NoneIsHome DEF ACoordinator
<1>6. Beside(gone, homeless, {"home", "rebalancing"})
  BY <1>2 DEF ACoordinator, Beside, Fields
<1> HIDE DEF homeless
<1>7. Typed(homeless)
  BY <1>4, <1>5, <1>6 DEF Typed, Beside, Fields
<1> QED
  BY <1>2, <1>3, <1>4, <1>5, <1>6, <1>7 DEF gone, homeless

LEMMA OnRegionTerminatedGrows ==
    ASSUME NEW c, Typed(c), NEW r \in Region, NEW d \in OnRegionTerminated(c, r) PROVE Grows(c, d)
<1> DEFINE gone == [c EXCEPT !.registered = @ \ {r}, !.beaten = @ \ {r}, !.listed = @ \ {r}]
           homeless == [gone EXCEPT !.home = None, !.rebalancing = None]
<1>1. d \in {c, gone} \/ d \in TryAllocate(homeless)
  BY DEF OnRegionTerminated
<1>2. /\ Typed(gone) /\ Beside(c, gone, {"registered", "beaten", "listed"})
      /\ Typed(homeless) /\ Beside(gone, homeless, {"home", "rebalancing"})
  BY LeaveEffect
<1> HIDE DEF gone, homeless
<1>3. Grows(c, gone) /\ Grows(gone, homeless) /\ Grows(c, c)
  BY <1>2, BesideGrows DEF Grows
<1>4. d \in TryAllocate(homeless) => Grows(homeless, d)
  BY <1>2, TryAllocateGrows
<1> QED
  BY <1>1, <1>3, <1>4, GrowsTwice

LEMMA OnRegionHeartbeatGrows ==
    ASSUME NEW c, Typed(c), NEW r \in Region, NEW d \in OnRegionHeartbeat(c, r) PROVE Grows(c, d)
<1>1. CASE r \in c.registered
  <2>1. d = [c EXCEPT !.beaten = @ \cup {r}] /\ c \in ACoordinator /\ c.beaten \subseteq c.registered
    BY <1>1 DEF OnRegionHeartbeat, Typed
  <2>2. /\ d \in ACoordinator /\ d.beaten = c.beaten \cup {r} /\ d.registered = c.registered
        /\ d.crossed = c.crossed
    BY <2>1 DEF ACoordinator
  <2> QED
    BY <1>1, <2>1, <2>2 DEF Grows, Typed
<1>2. CASE r \notin c.registered
  <2>1. d = ToRegion(c, r, "RegistrationRequest")
    BY <1>2 DEF OnRegionHeartbeat
  <2> QED
    BY <2>1, TellGrows DEF CoordinatorKinds
<1> QED
  BY <1>1, <1>2

LEMMA DispatchGrows ==
    ASSUME NEW c, Typed(c), NEW r \in Region, NEW x \in RegionFrame, x.claims => r \notin Proxy,
           NEW d \in DispatchShardingMessage(c, r, x)
    PROVE  Grows(c, d)
<1>1. x.kind \in RegionKinds /\ x.claims \in BOOLEAN
  BY DEF RegionFrame
<1>2. CASE x.kind = "Register"
  BY <1>1, <1>2, OnRegisterGrows DEF DispatchShardingMessage
<1>3. CASE x.kind = "GetShardHome"
  BY <1>3, OnGetShardHomeGrows DEF DispatchShardingMessage
<1>4. CASE x.kind = "HandOffComplete"
  <2>1. d = c \/ d \in TryAllocate([ReleaseFromPreviousOwner(c) EXCEPT !.rebalancing = None])
    BY <1>4 DEF DispatchShardingMessage, OnHandOffComplete
  <2> QED
    BY <2>1, ReleaseGrows DEF Grows
<1>5. CASE x.kind = "RegionTerminated"
  BY <1>5, OnRegionTerminatedGrows DEF DispatchShardingMessage
<1>6. CASE x.kind = "RegionHeartbeat"
  BY <1>6, OnRegionHeartbeatGrows DEF DispatchShardingMessage
<1> QED
  BY <1>1, <1>2, <1>3, <1>4, <1>5, <1>6 DEF RegionKinds

\* A move begins.
LEMMA BeginEffect ==
    ASSUME NEW c, Typed(c), c.home \in Region
    PROVE  LET d == [c EXCEPT !.rebalancing = c.home]
           IN  Typed(d) /\ Beside(c, d, {"rebalancing"}) /\ d.rebalancing = c.home
<1> DEFINE d == [c EXCEPT !.rebalancing = c.home]
<1>1. c \in ACoordinator
  BY DEF Typed
<1>2. d \in ACoordinator /\ d.rebalancing = c.home
  BY <1>1 DEF ACoordinator
<1>3. Beside(c, d, {"rebalancing"})
  BY <1>1 DEF ACoordinator, Beside, Fields
<1> HIDE DEF d
<1>4. Typed(d)
  BY <1>2, <1>3 DEF Typed, Beside, Fields
<1> QED
  BY <1>2, <1>3, <1>4 DEF d

LEMMA BeginHandOffGrows ==
    ASSUME NEW c, Typed(c), c.home \in Region PROVE Grows(c, BeginHandOff(c))
<1> DEFINE begun == [c EXCEPT !.rebalancing = c.home]
<1>1. Typed(begun) /\ Beside(c, begun, {"rebalancing"})
  BY BeginEffect
<1> HIDE DEF begun
<1>2. Grows(c, begun) /\ Grows(begun, ToRegion(begun, c.home, "HandOff"))
  BY <1>1, BesideGrows, TellGrows DEF CoordinatorKinds
<1> QED
  BY <1>2, GrowsTwice DEF BeginHandOff, begun

\* The link to region r, shortened or cut.
LEMMA LinkEffect ==
    ASSUME NEW c, Typed(c), NEW r \in Region, NEW s \in Seq(CoordinatorFrame)
    PROVE  LET d == [c EXCEPT !.frames[r] = s]
           IN  /\ Typed(d) /\ Beside(c, d, {"frames"}) /\ d.frames[r] = s
               /\ \A q \in Region \ {r} : d.frames[q] = c.frames[q]
<1> DEFINE fs == [c.frames EXCEPT ![r] = s]
           d == [c EXCEPT !.frames[r] = s]
<1>1. c \in ACoordinator /\ c.frames \in [Region -> Seq(CoordinatorFrame)]
  BY DEF Typed, ACoordinator
<1>2. d = [c EXCEPT !.frames = fs]
  OBVIOUS
<1>3. /\ fs \in [Region -> Seq(CoordinatorFrame)] /\ fs[r] = s
      /\ \A q \in Region \ {r} : fs[q] = c.frames[q]
  BY <1>1
<1> HIDE DEF fs, d
<1>4. d \in ACoordinator /\ d.frames = fs
  BY <1>1, <1>2, <1>3 DEF ACoordinator
<1>5. Beside(c, d, {"frames"})
  BY <1>1, <1>2 DEF ACoordinator, Beside, Fields
<1>6. Typed(d)
  BY <1>4, <1>5 DEF Typed, Beside, Fields
<1> QED
  BY <1>3, <1>4, <1>5, <1>6 DEF d

-----------------------------------------------------------------------------
(* The steps of a region *)

\* A region that does not run holds nothing, and no timer of it is armed.
Dormant(g) ==
    ~g.running => g.actor = "none" /\ ~g.local /\ ~g.declined /\ ~g.registering /\ ~g.busy

\* What the variables hold, in every scenario.
Types ==
    /\ scenario \in Scenarios /\ left \in [Budgets -> Nat]
    /\ Typed(coordinator)
    /\ regions \in [Region -> ARegion]
    /\ \A r \in Region : Fine(r, regions[r]) /\ Dormant(regions[r])
    /\ notices \in [Region -> SUBSET (Region \cup {"up"})]
    /\ \A r \in Region : ~regions[r].running => notices[r] = {}

\* A step that takes the running region r to k.
Moves(r, k) ==
    /\ regions' = [regions EXCEPT ![r] = k] /\ regions[r].running /\ Fine(r, k) /\ k.running
    /\ Good(coordinator, regions[r], r) => Good(coordinator', k, r)
    /\ Good(coordinator, regions[r], r) /\ Settled(regions[r]) /\ dropped = 0 => Settled(k) /\ dropped' = 0

LEMMA KeptMoves ==
    ASSUME Types, NEW r \in Region, NEW k, regions[r].running, Kept(coordinator, r, regions[r], k),
           coordinator' = coordinator, regions' = [regions EXCEPT ![r] = k],
           Settled(regions[r]) /\ dropped = 0 => dropped' = 0
    PROVE  Moves(r, k)
BY DEF Types, Moves, Kept

LEMMA BecomesMoves ==
    ASSUME Types, NEW r \in Region, NEW o, regions[r].running, Becomes(r, o),
           Handled(coordinator, coordinator', r, regions[r], o)
    PROVE  \E k : Moves(r, k)
<1> DEFINE g == regions[r]
           k == RouteMessages(o.region, o.flush)
<1>1. /\ regions' = [regions EXCEPT ![r] = k]
      /\ dropped' = dropped + DroppedBy(o.region, o.flush)
  BY DEF Becomes
<1>2. Fine(r, g)
  BY DEF Types
<1>3. /\ Fine(r, k) /\ k.running = g.running
      /\ Good(coordinator, g, r) => Good(coordinator', k, r)
      /\ Good(coordinator, g, r) /\ Settled(g) => Settled(k) /\ DroppedBy(o.region, o.flush) = 0
  <2>1. Fine(r, k) /\ k.running = g.running
    BY <1>2, HandlerEnds
  <2>2. Good(coordinator, g, r) => Good(coordinator', k, r)
    BY <1>2, HandlerEnds
  <2>3. Good(coordinator, g, r) /\ Settled(g) => Settled(k) /\ DroppedBy(o.region, o.flush) = 0
    BY <1>2, HandlerEnds
  <2> HIDE DEF k, g
  <2> QED
    BY <2>1, <2>2, <2>3
<1> HIDE DEF k
<1>4. Moves(r, k)
  BY <1>1, <1>3 DEF Moves
<1> QED
  BY <1>4

LEMMA ReceiveMoves ==
    ASSUME Types, NEW r \in Region, RegionReceives(r), regions[r].running PROVE \E k : Moves(r, k)
<1> DEFINE s == coordinator.frames[r]
<1>1. s # <<>> /\ coordinator' = [coordinator EXCEPT !.frames[r] = Tail(s)]
  BY DEF RegionReceives
<1>2. Becomes(r, HandleShardingMessage(regions[r], r, Head(s)))
  BY DEF RegionReceives
<1>3. Typed(coordinator) /\ s \in Seq(CoordinatorFrame)
  BY DEF Types, Typed, ACoordinator
<1>4. Tail(s) \in Seq(CoordinatorFrame)
  BY <1>1, <1>3, TailIndex
<1>5. Beside(coordinator, coordinator', {"frames"}) /\ coordinator'.frames[r] = Tail(s)
  BY <1>1, <1>3, <1>4, LinkEffect
<1>6. Taken(coordinator, coordinator', r)
  BY <1>1, <1>3, <1>5 DEF Taken, Beside, Fields
<1> QED
  BY <1>2, <1>6, MessageHandled, BecomesMoves

LEMMA SendMoves ==
    ASSUME Types, NEW r \in Region, Send(r) PROVE \E k : Moves(r, k)
<1> DEFINE g == regions[r]
           o == [region |-> g, flush |-> 1]
<1>1. g.running /\ Becomes(r, o) /\ coordinator' = coordinator
  BY DEF Send
<1>2. Handled(coordinator, coordinator', r, g, o)
  BY <1>1 DEF Handled
<1> HIDE DEF o
<1> QED
  BY <1>1, <1>2, BecomesMoves

LEMMA MailMoves ==
    ASSUME Types, NEW r \in Region, MailArrives(r), regions[r].running PROVE \E k : Moves(r, k)
<1> DEFINE g == regions[r]
           k == RouteMessages(g, 1)
<1>1. /\ regions' = [regions EXCEPT ![r] = k] /\ dropped' = dropped + DroppedBy(g, 1)
      /\ coordinator' = coordinator
  BY DEF MailArrives
<1>2. /\ Kept(coordinator, r, g, k)
      /\ Fine(r, g) /\ Good(coordinator, g, r) /\ Settled(g) => DroppedBy(g, 1) = 0
  BY RouteKept
<1>3. Fine(r, g)
  BY DEF Types
<1> HIDE DEF k
<1>4. /\ Fine(r, k) /\ k.running = g.running
      /\ Good(coordinator, g, r) => Good(coordinator, k, r)
      /\ Good(coordinator, g, r) /\ Settled(g) => Settled(k) /\ DroppedBy(g, 1) = 0
  BY <1>2, <1>3 DEF Kept
<1>5. Moves(r, k)
  BY <1>1, <1>4 DEF Moves
<1> QED
  BY <1>5

LEMMA ShardTurnMoves ==
    ASSUME Types, NEW r \in Region, ShardTurn(r) PROVE \E k : Moves(r, k)
<1> DEFINE g == regions[r]
           taken == [[g EXCEPT !.queue = Tail(@)] EXCEPT !.busy = TRUE]
           declined == [[g EXCEPT !.queue = Tail(@)] EXCEPT !.declined = TRUE]
           lost == Cardinality({i \in 2..Len(g.queue) : g.queue[i] = "message"})
<1>1. /\ g.actor = "live" /\ g.queue # <<>> /\ coordinator' = coordinator
      /\ \/ /\ Head(g.queue) = "message" /\ regions' = [regions EXCEPT ![r] = taken] /\ dropped' = dropped
         \/ /\ Head(g.queue) = "passivate" /\ regions' = [regions EXCEPT ![r] = declined] /\ dropped' = dropped
         \/ /\ Head(g.queue) = "passivate" /\ regions' = [regions EXCEPT ![r] = StopShard(g)]
            /\ dropped' = dropped + lost
  BY DEF ShardTurn
<1>2. g.running /\ Fine(r, g)
  BY <1>1 DEF Types, Dormant
<1>3. /\ Head(g.queue) = "message" => Kept(coordinator, r, g, taken)
      /\ Head(g.queue) = "passivate"
           => /\ Kept(coordinator, r, g, declined) /\ Kept(coordinator, r, g, StopShard(g))
              /\ Fine(r, g) /\ Settled(g) => lost = 0
  BY <1>1, ShardTurnKept
<1> HIDE DEF taken, declined, lost
<1> QED
  BY <1>1, <1>2, <1>3, KeptMoves

LEMMA EntitiesStopMoves ==
    ASSUME Types, NEW r \in Region, EntitiesStop(r) PROVE \E k : Moves(r, k)
<1> DEFINE k == [regions[r] EXCEPT !.busy = FALSE]
<1>1. regions[r].busy /\ regions' = [regions EXCEPT ![r] = k] /\ coordinator' = coordinator /\ dropped' = dropped
  BY DEF EntitiesStop
<1>2. regions[r].running
  BY <1>1 DEF Types, Dormant
<1>3. Kept(coordinator, r, regions[r], k)
  BY EntitiesStopKept
<1> HIDE DEF k
<1> QED
  BY <1>1, <1>2, <1>3, KeptMoves

LEMMA ShardStopsMoves ==
    ASSUME Types, NEW r \in Region, ShardStops(r) PROVE \E k : Moves(r, k)
<1> DEFINE k == [regions[r] EXCEPT !.actor = "stopped", !.busy = FALSE]
<1>1. /\ regions[r].actor = "stopping" /\ coordinator' = coordinator /\ dropped' = dropped
      /\ regions' = [regions EXCEPT ![r].actor = "stopped", ![r].busy = FALSE]
  BY DEF ShardStops
<1>2. regions[r].running
  BY <1>1 DEF Types, Dormant
<1>3. regions' = [regions EXCEPT ![r] = k]
  BY <1>1 DEF Types
<1>4. Kept(coordinator, r, regions[r], k)
  BY <1>1, ShardStopsKept
<1> HIDE DEF k
<1> QED
  BY <1>1, <1>2, <1>3, <1>4, KeptMoves

LEMMA TerminatedMoves ==
    ASSUME Types, NEW r \in Region, ShardTerminated(r) PROVE \E k : Moves(r, k)
<1>1. /\ regions[r].actor = "stopped" /\ coordinator' = coordinator
      /\ Becomes(r, HandleShardTerminated(regions[r]))
  BY DEF ShardTerminated
<1>2. regions[r].running
  BY <1>1 DEF Types, Dormant
<1>3. Handled(coordinator, coordinator', r, regions[r], HandleShardTerminated(regions[r]))
  BY <1>1, ShardTerminatedHandled
<1> QED
  BY <1>1, <1>2, <1>3, BecomesMoves

LEMMA DeclinedMoves ==
    ASSUME Types, NEW r \in Region, PassivationDeclined(r) PROVE \E k : Moves(r, k)
<1>1. /\ regions[r].declined /\ coordinator' = coordinator
      /\ Becomes(r, OnShardPassivationDeclined(regions[r]))
  BY DEF PassivationDeclined
<1>2. regions[r].running
  BY <1>1 DEF Types, Dormant
<1>3. Handled(coordinator, coordinator', r, regions[r], OnShardPassivationDeclined(regions[r]))
  BY <1>1, PassivationDeclinedHandled
<1> QED
  BY <1>1, <1>2, <1>3, BecomesMoves

LEMMA RespawnMoves ==
    ASSUME Types, NEW r \in Region, OnShardRespawnTick(r) PROVE \E k : Moves(r, k)
<1> DEFINE o == Flushes(EnsureShard([regions[r] EXCEPT !.state = "owned"]))
<1>1. /\ regions[r].state = "backing-off" /\ regions[r].local /\ coordinator' = coordinator
      /\ Becomes(r, o)
  BY DEF OnShardRespawnTick
<1>2. regions[r].running
  BY <1>1 DEF Types, Dormant
<1>3. Handled(coordinator, coordinator', r, regions[r], o)
  BY <1>1, RespawnHandled
<1> HIDE DEF o
<1> QED
  BY <1>1, <1>2, <1>3, BecomesMoves

LEMMA PassivateMoves ==
    ASSUME Types, NEW r \in Region, PassivateShard(r) PROVE \E k : Moves(r, k)
<1> DEFINE g == regions[r]
           k == [g EXCEPT !.passivating = TRUE, !.state = "passivating",
                          !.queue = IF g.actor = "live" THEN Append(@, "passivate") ELSE @]
<1>1. /\ g.actor # "none" /\ ~g.handingOff /\ ~g.passivating /\ coordinator' = coordinator
      /\ dropped' = dropped /\ regions' = [regions EXCEPT ![r] = k]
  BY DEF PassivateShard
<1>2. g.running
  BY <1>1 DEF Types, Dormant
<1>3. Kept(coordinator, r, g, k)
  BY <1>1, PassivateKept
<1> HIDE DEF k
<1> QED
  BY <1>1, <1>2, <1>3, KeptMoves

LEMMA RetryMoves ==
    ASSUME Types, NEW r \in Region, RegisterRetry(r) PROVE \E k : Moves(r, k)
<1> DEFINE o == Keeps(EnsureRegistered(regions[r]))
<1>1. regions[r].registering /\ coordinator' = coordinator /\ Becomes(r, o)
  BY DEF RegisterRetry
<1>2. regions[r].running
  BY <1>1 DEF Types, Dormant
<1>3. Handled(coordinator, coordinator', r, regions[r], o)
  BY <1>1, EnsureRegisteredKept, KeepsHandled
<1> HIDE DEF o
<1> QED
  BY <1>1, <1>2, <1>3, BecomesMoves

LEMMA HeartbeatMoves ==
    ASSUME Types, NEW r \in Region, SendRegionHeartbeat(r) PROVE \E k : Moves(r, k)
<1> DEFINE k == ToCoordinator(regions[r], "RegionHeartbeat")
<1>1. /\ regions[r].running /\ coordinator' = coordinator /\ dropped' = dropped
      /\ regions' = [regions EXCEPT ![r] = k]
  BY DEF SendRegionHeartbeat
<1>2. Kept(coordinator, r, regions[r], k)
  BY QuietFrame
<1> HIDE DEF k
<1> QED
  BY <1>1, <1>2, KeptMoves

\* A membership event; without a removal it is only MemberUp.
LEMMA EventMoves ==
    ASSUME Types, NEW r \in Region, ClusterEvent(r)
    PROVE  /\ \E k : regions' = [regions EXCEPT ![r] = k] /\ regions[r].running /\ Fine(r, k) /\ k.running
           /\ notices[r] \subseteq {"up"} => \E k : Moves(r, k)
<1>1. PICK event \in notices[r] :
          Becomes(r, IF event = "up" THEN Keeps(EnsureRegistered(regions[r]))
                     ELSE OnMemberRemoved(regions[r], event))
  BY DEF ClusterEvent
<1>2. regions[r].running /\ coordinator' = coordinator /\ Fine(r, regions[r])
  BY <1>1 DEF Types, ClusterEvent
<1>3. CASE event = "up"
  <2>1. Handled(coordinator, coordinator', r, regions[r], Keeps(EnsureRegistered(regions[r])))
    BY <1>2, EnsureRegisteredKept, KeepsHandled
  <2>2. \E k : Moves(r, k)
    BY <1>1, <1>2, <1>3, <2>1, BecomesMoves
  <2> QED
    BY <2>2 DEF Moves
<1>4. CASE event # "up"
  <2> DEFINE o == OnMemberRemoved(regions[r], event)
             k == RouteMessages(o.region, o.flush)
  <2>1. Fine(r, o.region) /\ o.region.running = regions[r].running /\ o.flush = 0
    BY <1>2, MemberRemovedFine
  <2>2. regions' = [regions EXCEPT ![r] = k]
    BY <1>1, <1>4 DEF Becomes
  <2>3. k = o.region
    BY <2>1 DEF RouteMessages
  <2> HIDE DEF k, o
  <2> QED
    BY <1>1, <1>2, <1>4, <2>1, <2>2, <2>3
<1> QED
  BY <1>3, <1>4

\* Every step a running region takes by itself, but for the failure of its shard.
LEMMA RegionMoves ==
    ASSUME Types, NEW r \in Region,
           \/ RegionReceives(r) /\ regions[r].running
           \/ MailArrives(r) /\ regions[r].running
           \/ Send(r) \/ ShardTurn(r) \/ EntitiesStop(r) \/ ShardStops(r) \/ ShardTerminated(r)
           \/ PassivationDeclined(r) \/ OnShardRespawnTick(r) \/ PassivateShard(r)
           \/ RegisterRetry(r) \/ SendRegionHeartbeat(r)
    PROVE  \E k : Moves(r, k)
BY ReceiveMoves, MailMoves, SendMoves, ShardTurnMoves, EntitiesStopMoves, ShardStopsMoves,
   TerminatedMoves, DeclinedMoves, RespawnMoves, PassivateMoves, RetryMoves, HeartbeatMoves

-----------------------------------------------------------------------------
(* Types *)

\* No step earns budget.
LEMMA LeftStep ==
    ASSUME Types, [Next]_vars
    PROVE  /\ scenario' = scenario /\ left' \in [Budgets -> Nat]
           /\ \A b \in Budgets : left'[b] <= left[b]
<1>0. left \in [Budgets -> Nat]
  BY DEF Types
<1>1. ASSUME left' = left, scenario' = scenario
      PROVE  /\ scenario' = scenario /\ left' \in [Budgets -> Nat]
             /\ \A b \in Budgets : left'[b] <= left[b]
  BY <1>0, <1>1
<1>2. ASSUME NEW kind \in Budgets, Spend(kind), scenario' = scenario
      PROVE  /\ scenario' = scenario /\ left' \in [Budgets -> Nat]
             /\ \A b \in Budgets : left'[b] <= left[b]
  <2>1. left[kind] > 0 /\ left' = [left EXCEPT ![kind] = @ - 1] /\ left[kind] - 1 \in Nat
    BY <1>0, <1>2 DEF Spend
  <2> QED
    BY <1>0, <1>2, <2>1
<1>3. ASSUME NEW r \in Region,
             \/ CoordinatorReceives(r) \/ RegionReceives(r) \/ MailArrives(r) \/ ShardTurn(r)
             \/ EntitiesStop(r) \/ ShardStops(r) \/ ShardTerminated(r) \/ PassivationDeclined(r)
             \/ OnShardRespawnTick(r) \/ RegisterRetry(r) \/ SendRegionHeartbeat(r) \/ Return(r)
             \/ ClusterEvent(r)
      PROVE  left' = left /\ scenario' = scenario
  BY <1>3 DEF CoordinatorReceives, RegionReceives, MailArrives, ShardTurn, EntitiesStop, ShardStops,
     ShardTerminated, PassivationDeclined, OnShardRespawnTick, RegisterRetry, SendRegionHeartbeat,
     Return, ClusterEvent
<1>4. ASSUME NEW r \in Region,
             \/ FrameLost(r) \/ Send(r) \/ ShardFails(r) \/ PassivateShard(r) \/ Start(r) \/ Stop(r)
             \/ Suspect(r) \/ Remove(r)
      PROVE  (\E kind \in Budgets : Spend(kind)) /\ scenario' = scenario
  <2>1. \A kind \in {"losses", "messages", "failures", "passivations", "starts", "stops",
                     "suspicions", "removals"} : kind \in Budgets
    BY DEF Budgets
  <2> QED
    BY <1>4, <2>1 DEF FrameLost, Send, ShardFails, PassivateShard, Start, Stop, Suspect, Remove
<1>5. CASE OnHandOffTimeout
  <2>1. (left' = left \/ Spend("timeouts")) /\ scenario' = scenario
    BY <1>5 DEF OnHandOffTimeout
  <2>2. "timeouts" \in Budgets
    BY DEF Budgets
  <2> QED
    BY <1>1, <1>2, <2>1, <2>2
<1>6. ASSUME NEW swept \in SUBSET Region, NEW move \in BOOLEAN, RebalanceTick(swept, move)
      PROVE  /\ scenario' = scenario /\ left' \in [Budgets -> Nat]
             /\ \A b \in Budgets : left'[b] <= left[b]
  <2> DEFINE false == {r \in swept : regions[r].running}
             n == Cardinality(false)
             m == IF move THEN 1 ELSE 0
  <2>1. /\ left.evictions >= n /\ (move => left.rebalances > 0) /\ scenario' = scenario
        /\ left' = [left EXCEPT !.evictions = @ - n, !.rebalances = @ - m]
    BY <1>6 DEF RebalanceTick
  <2>2. n \in Nat
    <3>1. IsFiniteSet(false)
      BY ShardingConstants, FS_Subset
    <3> QED
      BY <3>1, FS_CardinalityType
  <2> HIDE DEF n
  <2>3. "evictions" \in Budgets /\ "rebalances" \in Budgets
    BY DEF Budgets
  <2>4. left.evictions \in Nat /\ left.rebalances \in Nat /\ m \in Nat
    BY <1>0, <2>3
  <2>5. left.evictions - n \in Nat /\ left.rebalances - m \in Nat /\ left.evictions - n <= left.evictions
        /\ left.rebalances - m <= left.rebalances
    BY <2>1, <2>2, <2>4
  <2> DEFINE e == left.evictions - n
             w == left.rebalances - m
  <2>6. left' = [left EXCEPT !.evictions = e, !.rebalances = w]
    BY <2>1
  <2>7. e \in Nat /\ w \in Nat /\ e <= left["evictions"] /\ w <= left["rebalances"]
    BY <2>5
  <2> HIDE DEF m, e, w
  <2>8. left' \in [Budgets -> Nat]
    BY <1>0, <2>3, <2>6, <2>7
  <2>9. ASSUME NEW b \in Budgets PROVE left'[b] <= left[b]
    <3>1. left[b] \in Nat
      BY <1>0
    <3>2. left'[b] = IF b = "rebalances" THEN w ELSE IF b = "evictions" THEN e ELSE left[b]
      BY <1>0, <2>3, <2>6
    <3> QED
      BY <2>7, <3>1, <3>2
  <2> QED
    BY <2>1, <2>8, <2>9
<1>7. CASE UNCHANGED vars
  BY <1>1, <1>7 DEF vars
<1> QED
  BY <1>1, <1>2, <1>3, <1>4, <1>5, <1>6, <1>7 DEF Next

LEMMA CoordinatorGrows ==
    ASSUME Types, [Next]_vars PROVE Grows(coordinator, coordinator')
<1>0. Typed(coordinator) /\ Grows(coordinator, coordinator)
  BY DEF Types, Grows
<1>1. ASSUME NEW r \in Region, CoordinatorReceives(r) PROVE Grows(coordinator, coordinator')
  <2> DEFINE s == regions[r].frames
  <2>1. s # <<>> /\ coordinator' \in DispatchShardingMessage(coordinator, r, Head(s))
    BY <1>1 DEF CoordinatorReceives
  <2>2. s \in Seq(RegionFrame) /\ Hosts(r, regions[r])
    BY DEF Types, Fine, ARegion
  <2>3. Head(s) \in RegionFrame /\ Head(s) = s[1] /\ 1 \in 1..Len(s)
    BY <2>1, <2>2, TailIndex
  <2>4. Head(s).claims => r \notin Proxy
    BY <2>2, <2>3 DEF Hosts
  <2> QED
    BY <1>0, <2>1, <2>3, <2>4, DispatchGrows
<1>2. ASSUME NEW r \in Region, NEW s \in Seq(CoordinatorFrame)
      PROVE  LET d == [coordinator EXCEPT !.frames[r] = s] IN Typed(d) /\ Grows(coordinator, d)
  <2> DEFINE d == [coordinator EXCEPT !.frames[r] = s]
  <2>1. Typed(d) /\ Beside(coordinator, d, {"frames"})
    BY <1>0, LinkEffect
  <2> HIDE DEF d
  <2>2. Grows(coordinator, d)
    BY <2>1, BesideGrows
  <2> QED
    BY <2>1, <2>2 DEF d
<1>3. ASSUME NEW r \in Region, RegionReceives(r) \/ FrameLost(r) PROVE Grows(coordinator, coordinator')
  <2> DEFINE s == coordinator.frames[r]
  <2>1. s # <<>> /\ coordinator' = [coordinator EXCEPT !.frames[r] = Tail(s)]
    BY <1>3 DEF RegionReceives, FrameLost
  <2>2. s \in Seq(CoordinatorFrame)
    BY <1>0 DEF Typed, ACoordinator
  <2>3. Tail(s) \in Seq(CoordinatorFrame)
    BY <2>1, <2>2, TailIndex
  <2> QED
    BY <1>2, <2>1, <2>3
<1>4. ASSUME NEW r \in Region, Remove(r) PROVE Grows(coordinator, coordinator')
  <2> DEFINE cut == [coordinator EXCEPT !.frames[r] = <<>>]
  <2>1. coordinator' \in OnRegionTerminated(cut, r)
    BY <1>4 DEF Remove
  <2>2. <<>> \in Seq(CoordinatorFrame)
    OBVIOUS
  <2>3. Typed(cut) /\ Grows(coordinator, cut)
    BY <1>2, <2>2
  <2> HIDE DEF cut
  <2> QED
    BY <2>1, <2>3, OnRegionTerminatedGrows, GrowsTwice
<1>5. CASE OnHandOffTimeout
  BY <1>0, <1>5, ReleaseGrows DEF OnHandOffTimeout
<1>6. ASSUME NEW swept \in SUBSET Region, NEW move \in BOOLEAN, RebalanceTick(swept, move)
      PROVE  Grows(coordinator, coordinator')
  <2>1. PICK c \in IF swept = {} THEN {coordinator}
                   ELSE UNION {SweepStaleRegion(coordinator, r) : r \in swept} :
            /\ move => Movable(c)
            /\ coordinator' = IF move THEN BeginHandOff(c) ELSE c
    BY <1>6 DEF RebalanceTick
  <2>2. Grows(coordinator, c)
    <3>1. CASE swept = {}
      BY <1>0, <2>1, <3>1
    <3>2. CASE swept # {}
      <4>1. PICK r \in swept : c \in SweepStaleRegion(coordinator, r)
        BY <2>1, <3>2
      <4>2. PICK after \in OnRegionTerminated(coordinator, r) : c = ToRegion(after, r, "RegionEvicted")
        BY <4>1 DEF SweepStaleRegion
      <4>3. r \in Region
        OBVIOUS
      <4>4. Grows(coordinator, after)
        BY <1>0, <4>3, OnRegionTerminatedGrows
      <4>5. Grows(after, c)
        BY <4>2, <4>3, <4>4, TellGrows DEF Grows, CoordinatorKinds
      <4> QED
        BY <4>4, <4>5, GrowsTwice
    <3> QED
      BY <3>1, <3>2
  <2>3. ASSUME move PROVE Grows(c, BeginHandOff(c))
    <3>1. c.home \in Region
      BY <2>1, <2>3 DEF Movable, Up
    <3> QED
      BY <2>2, <3>1, BeginHandOffGrows DEF Grows
  <2> QED
    BY <2>1, <2>2, <2>3, GrowsTwice
<1>7. ASSUME NEW r \in Region,
             \/ Send(r) \/ MailArrives(r) \/ ShardTurn(r) \/ EntitiesStop(r) \/ ShardStops(r)
             \/ ShardFails(r) \/ ShardTerminated(r) \/ PassivationDeclined(r)
             \/ OnShardRespawnTick(r) \/ PassivateShard(r) \/ RegisterRetry(r)
             \/ SendRegionHeartbeat(r) \/ Start(r) \/ Stop(r) \/ Suspect(r) \/ Return(r)
             \/ ClusterEvent(r)
      PROVE  coordinator' = coordinator
  BY <1>7 DEF Send, MailArrives, ShardTurn, EntitiesStop, ShardStops, ShardFails, ShardTerminated,
     PassivationDeclined, OnShardRespawnTick, PassivateShard, RegisterRetry, SendRegionHeartbeat,
     Start, Stop, Suspect, Return, ClusterEvent
<1>8. CASE UNCHANGED vars
  BY <1>0, <1>8 DEF vars
<1> QED
  BY <1>0, <1>1, <1>3, <1>4, <1>5, <1>6, <1>7, <1>8 DEF Next

\* A region that starts, and one that stops.
LEMMA StartFine ==
    ASSUME NEW r, NEW g, Fine(r, g)
    PROVE  LET k == EnsureRegistered([Absent EXCEPT !.running = TRUE, !.frames = g.frames])
           IN  Fine(r, k) /\ k.running
<1> DEFINE b == [Absent EXCEPT !.running = TRUE, !.frames = g.frames]
<1>1. <<>> \in Seq({"message", "passivate"})
  OBVIOUS
<1>2. b \in ARegion /\ b.local = FALSE /\ b.actor = "none" /\ b.frames = g.frames /\ b.running = TRUE
  BY <1>1, NoneIsHome DEF Absent, ARegion, Fine
<1> HIDE DEF b
<1>3. Fine(r, b)
  BY <1>2 DEF Fine, Hosts
<1>4. Fine(r, EnsureRegistered(b)) /\ EnsureRegistered(b).running = b.running
  BY <1>3, EnsureRegisteredKept DEF Kept
<1> QED
  BY <1>2, <1>4 DEF b

LEMMA StopFine ==
    ASSUME NEW r, NEW g, Fine(r, g), NEW told \in BOOLEAN
    PROVE  LET stopped == [Absent EXCEPT !.frames = g.frames]
               k == IF told THEN ToCoordinator(stopped, "RegionTerminated") ELSE stopped
           IN  Fine(r, k) /\ ~k.running /\ Dormant(k)
<1> DEFINE b == [Absent EXCEPT !.frames = g.frames]
           h == ToCoordinator(b, "RegionTerminated")
<1>1. <<>> \in Seq({"message", "passivate"})
  OBVIOUS
<1>2. /\ b \in ARegion /\ b.local = FALSE /\ b.actor = "none" /\ b.frames = g.frames
      /\ b.running = FALSE /\ b.declined = FALSE /\ b.registering = FALSE /\ b.busy = FALSE
  BY <1>1, NoneIsHome DEF Absent, ARegion, Fine
<1> HIDE DEF b
<1>3. Fine(r, b) /\ Dormant(b)
  BY <1>2 DEF Fine, Hosts, Dormant
<1>4. Fine(r, h) /\ Same(b, h, {"frames"})
  BY <1>3, ToCoordinatorFine DEF RegionKinds
<1> HIDE DEF h
<1>5. ~h.running /\ Dormant(h)
  BY <1>2, <1>4 DEF Same, RegionFields, Dormant
<1> QED
  BY <1>2, <1>3, <1>4, <1>5 DEF b, h

LEMMA TookFine ==
    ASSUME NEW r, NEW g, Fine(r, g), Dormant(g), g.frames # <<>>
    PROVE  LET k == [g EXCEPT !.frames = Tail(@)]
           IN  Fine(r, k) /\ k.running = g.running /\ Dormant(k)
<1> DEFINE s == g.frames
           t == Tail(s)
           k == [g EXCEPT !.frames = Tail(@)]
<1>1. s \in Seq(RegionFrame)
  BY DEF Fine, ARegion
<1>2. t \in Seq(RegionFrame) /\ \A i \in 1..Len(t) : t[i] = s[i + 1] /\ i + 1 \in 1..Len(s)
  BY <1>1, TailIndex
<1>3. k = [g EXCEPT !.frames = t]
  OBVIOUS
<1> HIDE DEF t, k
<1>4. /\ k \in ARegion /\ k.frames = t /\ k.running = g.running /\ k.local = g.local
      /\ k.actor = g.actor /\ k.declined = g.declined /\ k.registering = g.registering /\ k.busy = g.busy
  BY <1>2, <1>3 DEF Fine, ARegion
<1>5. Fine(r, k) /\ Dormant(k)
  BY <1>2, <1>4 DEF Fine, Hosts, Dormant
<1> QED
  BY <1>4, <1>5 DEF k

LEMMA TypesInit == Init => Types
<1> SUFFICES ASSUME Init PROVE Types
  OBVIOUS
<1>1. <<>> \in Seq({"message", "passivate"}) /\ <<>> \in Seq(RegionFrame) /\ <<>> \in Seq(CoordinatorFrame)
  OBVIOUS
<1>2. scenario \in Scenarios /\ scenario.running \subseteq Region /\ left \in [Budgets -> Nat]
  BY ShardingConstants DEF Init
<1>3. Typed(coordinator)
  BY <1>1, <1>2, NoneIsHome DEF Init, Typed, ACoordinator
<1>4. ASSUME NEW r \in Region
      PROVE  Fine(r, regions[r]) /\ Dormant(regions[r])
  <2> DEFINE b == r \in scenario.running
             g == [Absent EXCEPT !.running = b]
  <2>1. regions[r] = g
    BY <1>4 DEF Init
  <2>2. b \in BOOLEAN
    OBVIOUS
  <2> HIDE DEF b
  <2>3. /\ g \in ARegion /\ g.local = FALSE /\ g.actor = "none" /\ g.frames = <<>>
        /\ g.declined = FALSE /\ g.registering = FALSE /\ g.busy = FALSE
    BY <1>1, <2>2, NoneIsHome DEF Absent, ARegion
  <2> HIDE DEF g
  <2>4. 1..Len(g.frames) = {}
    BY <2>3
  <2> QED
    BY <2>1, <2>3, <2>4 DEF Fine, Hosts, Dormant
<1>5. regions \in [Region -> ARegion]
  <2>1. \A r \in Region : regions[r] \in ARegion
    BY <1>4 DEF Fine
  <2>2. regions = [r \in Region |-> regions[r]]
    BY DEF Init
  <2> QED
    BY <2>1, <2>2
<1>6. notices \in [Region -> SUBSET (Region \cup {"up"})] /\ \A r \in Region : notices[r] = {}
  BY DEF Init
<1> QED
  BY <1>2, <1>3, <1>4, <1>5, <1>6 DEF Types

\* A step of one region, to k.
Turns(r, k) ==
    /\ regions' = [regions EXCEPT ![r] = k] /\ Fine(r, k) /\ Dormant(k)
    /\ \/ k.running = regions[r].running
       \/ Start(r) /\ k.running
       \/ Stop(r) /\ ~k.running

LEMMA RegionsStep ==
    ASSUME Types, [Next]_vars
    PROVE  regions' = regions \/ \E r \in Region : \E k : Turns(r, k)
<1>0. regions \in [Region -> ARegion]
  BY DEF Types
<1>1. ASSUME NEW r \in Region, CoordinatorReceives(r) PROVE \E k : Turns(r, k)
  <2> DEFINE k == [regions[r] EXCEPT !.frames = Tail(@)]
  <2>1. regions' = [regions EXCEPT ![r] = k] /\ regions[r].frames # <<>>
    BY <1>0, <1>1 DEF CoordinatorReceives
  <2>2. Fine(r, regions[r]) /\ Dormant(regions[r])
    BY DEF Types
  <2>3. Fine(r, k) /\ k.running = regions[r].running /\ Dormant(k)
    BY <2>1, <2>2, TookFine
  <2> HIDE DEF k
  <2> QED
    BY <2>1, <2>3 DEF Turns
<1>2. ASSUME NEW r \in Region, NEW k, Moves(r, k) PROVE Turns(r, k)
  <2>1. regions' = [regions EXCEPT ![r] = k] /\ regions[r].running /\ Fine(r, k) /\ k.running
    BY <1>2 DEF Moves
  <2>2. regions[r].running \in BOOLEAN /\ k.running \in BOOLEAN
    BY <1>0, <2>1 DEF Fine, ARegion
  <2> QED
    BY <2>1, <2>2 DEF Turns, Dormant
<1>3. ASSUME NEW r \in Region, RegionReceives(r) \/ MailArrives(r), ~regions[r].running
      PROVE  regions' = regions
  <2>1. CASE MailArrives(r)
    BY <1>3, <2>1 DEF MailArrives
  <2>2. CASE RegionReceives(r)
    <3>1. regions' = [regions EXCEPT ![r] = RouteMessages(regions[r], 0)]
      BY <1>3, <2>2 DEF RegionReceives, Becomes, Keeps
    <3>2. RouteMessages(regions[r], 0) = regions[r]
      BY DEF RouteMessages
    <3> QED
      BY <1>0, <3>1, <3>2
  <2> QED
    BY <1>3, <2>1, <2>2
<1>4. ASSUME NEW r \in Region, ClusterEvent(r) PROVE \E k : Turns(r, k)
  <2>1. PICK k : regions' = [regions EXCEPT ![r] = k] /\ regions[r].running /\ Fine(r, k) /\ k.running
    BY <1>4, EventMoves
  <2>2. regions[r].running \in BOOLEAN /\ k.running \in BOOLEAN
    BY <1>0, <2>1 DEF Fine, ARegion
  <2> QED
    BY <2>1, <2>2 DEF Turns, Dormant
<1>5. ASSUME NEW r \in Region, ShardFails(r) PROVE \E k : Turns(r, k)
  <2> DEFINE k == [regions[r] EXCEPT !.actor = "stopped", !.queue = <<>>, !.busy = FALSE]
  <2>1. regions' = [regions EXCEPT ![r] = k] /\ regions[r].actor = "live"
    BY <1>0, <1>5 DEF ShardFails
  <2>2. Fine(r, regions[r]) /\ regions[r].running
    BY <2>1 DEF Types, Dormant
  <2>3. Fine(r, k) /\ k.running = regions[r].running
    BY <2>1, <2>2, ShardFailsGood
  <2> HIDE DEF k
  <2> QED
    BY <2>1, <2>2, <2>3 DEF Turns, Dormant
<1>6. ASSUME NEW r \in Region, Start(r) PROVE \E k : Turns(r, k)
  <2> DEFINE k == EnsureRegistered([Absent EXCEPT !.running = TRUE, !.frames = regions[r].frames])
  <2>1. regions' = [regions EXCEPT ![r] = k]
    BY <1>6 DEF Start
  <2>2. Fine(r, k) /\ k.running
    BY StartFine DEF Types
  <2> HIDE DEF k
  <2> QED
    BY <1>6, <2>1, <2>2 DEF Turns, Dormant
<1>7. ASSUME NEW r \in Region, Stop(r) PROVE \E k : Turns(r, k)
  <2> DEFINE b == [Absent EXCEPT !.frames = regions[r].frames]
             k(told) == IF told THEN ToCoordinator(b, "RegionTerminated") ELSE b
  <2>1. PICK told \in BOOLEAN : regions' = [regions EXCEPT ![r] = k(told)]
    BY <1>7 DEF Stop
  <2>2. Fine(r, k(told)) /\ ~k(told).running /\ Dormant(k(told))
    BY StopFine DEF Types
  <2> HIDE DEF k
  <2> QED
    BY <1>7, <2>1, <2>2 DEF Turns
<1>8. ASSUME \/ \E r \in Region : FrameLost(r) \/ Suspect(r) \/ Remove(r) \/ Return(r)
             \/ \E swept \in SUBSET Region, move \in BOOLEAN : RebalanceTick(swept, move)
             \/ OnHandOffTimeout
             \/ UNCHANGED vars
      PROVE  regions' = regions
  BY <1>8 DEF FrameLost, Suspect, Remove, Return, RebalanceTick, OnHandOffTimeout, vars
<1> QED
  BY <1>1, <1>2, <1>3, <1>4, <1>5, <1>6, <1>7, <1>8, RegionMoves DEF Next

LEMMA NoticesStep ==
    ASSUME Types, [Next]_vars
    PROVE  /\ notices' \in [Region -> SUBSET (Region \cup {"up"})]
           /\ \A q \in Region :
                 \/ notices'[q] \subseteq notices[q]
                 \/ /\ regions[q].running
                    /\ \/ notices'[q] \subseteq notices[q] \cup {"up"}
                       \/ \E r \in Region : Remove(r)
           /\ \A r \in Region : Stop(r) => notices'[r] = {}
<1>0. notices \in [Region -> SUBSET (Region \cup {"up"})]
  BY DEF Types
<1> DEFINE Goal == /\ notices' \in [Region -> SUBSET (Region \cup {"up"})]
                   /\ \A q \in Region :
                         \/ notices'[q] \subseteq notices[q]
                         \/ /\ regions[q].running
                            /\ \/ notices'[q] \subseteq notices[q] \cup {"up"}
                               \/ \E r \in Region : Remove(r)
<1>1. ASSUME notices' = notices PROVE Goal
  BY <1>0, <1>1
<1>2. ASSUME NEW r \in Region, NEW S \in SUBSET notices[r], notices' = [notices EXCEPT ![r] = S] PROVE Goal
  BY <1>0, <1>2
<1>3. ASSUME NEW r \in Region, ClusterEvent(r) PROVE \E S \in SUBSET notices[r] : notices' = [notices EXCEPT ![r] = S]
  <2>1. PICK event \in notices[r] : notices' = [notices EXCEPT ![r] = notices[r] \ {event}]
    BY <1>0, <1>3 DEF ClusterEvent
  <2> QED
    BY <2>1
<1>4. ASSUME NEW r \in Region, Stop(r) PROVE Goal /\ notices'[r] = {}
  <2>1. notices' = [notices EXCEPT ![r] = {}]
    BY <1>4 DEF Stop
  <2>2. notices'[r] = {} /\ {} \in SUBSET notices[r]
    BY <1>0, <2>1
  <2> QED
    BY <1>2, <2>1, <2>2
<1>5. ASSUME NEW r \in Region, Return(r) PROVE Goal
  <2>1. PICK told \in Hearers :
           notices' = [q \in Region |-> IF q \in told THEN notices[q] \cup {"up"} ELSE notices[q]]
    BY <1>5 DEF Return
  <2> QED
    BY <1>0, <2>1 DEF Hearers, Running
<1>6. ASSUME NEW r \in Region, Remove(r) PROVE Goal
  <2>1. PICK told \in Hearers :
           notices' = [q \in Region |-> IF q \in told \ {r} THEN notices[q] \cup {r} ELSE notices[q]]
    BY <1>6 DEF Remove
  <2> QED
    BY <1>0, <1>6, <2>1 DEF Hearers, Running
<1>7. ASSUME NEW r \in Region,
             \/ CoordinatorReceives(r) \/ RegionReceives(r) \/ FrameLost(r) \/ Send(r) \/ MailArrives(r)
             \/ ShardTurn(r) \/ EntitiesStop(r) \/ ShardStops(r) \/ ShardFails(r) \/ ShardTerminated(r)
             \/ PassivationDeclined(r) \/ OnShardRespawnTick(r) \/ PassivateShard(r)
             \/ RegisterRetry(r) \/ SendRegionHeartbeat(r) \/ Start(r) \/ Suspect(r)
      PROVE  notices' = notices
  BY <1>7 DEF CoordinatorReceives, RegionReceives, FrameLost, Send, MailArrives, ShardTurn, EntitiesStop,
     ShardStops, ShardFails, ShardTerminated, PassivationDeclined, OnShardRespawnTick,
     PassivateShard, RegisterRetry, SendRegionHeartbeat, Start, Suspect
<1>8. ASSUME \/ \E swept \in SUBSET Region, move \in BOOLEAN : RebalanceTick(swept, move)
             \/ OnHandOffTimeout
             \/ UNCHANGED vars
      PROVE  notices' = notices
  BY <1>8 DEF RebalanceTick, OnHandOffTimeout, vars
<1> HIDE DEF Goal
<1>9. Goal
  BY <1>1, <1>2, <1>3, <1>4, <1>5, <1>6, <1>7, <1>8 DEF Next
<1> QED
  BY <1>4, <1>9 DEF Goal

LEMMA TypesStep == ASSUME Types, [Next]_vars PROVE Types'
<1>0. regions \in [Region -> ARegion] /\ \A q \in Region : Fine(q, regions[q]) /\ Dormant(regions[q])
  BY DEF Types
<1>1. scenario' \in Scenarios /\ left' \in [Budgets -> Nat]
  BY LeftStep DEF Types
<1>2. Typed(coordinator')
  BY CoordinatorGrows DEF Grows
<1>3. /\ regions' \in [Region -> ARegion]
      /\ \A q \in Region : Fine(q, regions'[q]) /\ Dormant(regions'[q])
      /\ \A q \in Region : \/ regions'[q].running = regions[q].running
                           \/ Start(q) /\ regions'[q].running
                           \/ Stop(q) /\ ~regions'[q].running
  <2>1. CASE regions' = regions
    BY <1>0, <2>1
  <2>2. ASSUME NEW r \in Region, NEW k, Turns(r, k)
        PROVE  /\ regions' \in [Region -> ARegion]
               /\ \A q \in Region : Fine(q, regions'[q]) /\ Dormant(regions'[q])
               /\ \A q \in Region : \/ regions'[q].running = regions[q].running
                                    \/ Start(q) /\ regions'[q].running
                                    \/ Stop(q) /\ ~regions'[q].running
    <3>1. /\ regions' = [regions EXCEPT ![r] = k] /\ Fine(r, k) /\ Dormant(k) /\ k \in ARegion
          /\ \/ k.running = regions[r].running
             \/ Start(r) /\ k.running
             \/ Stop(r) /\ ~k.running
      BY <2>2 DEF Turns, Fine
    <3>2. \A q \in Region : regions'[q] = IF q = r THEN k ELSE regions[q]
      BY <1>0, <3>1
    <3>3. regions' \in [Region -> ARegion]
      BY <1>0, <3>1
    <3> QED
      BY <1>0, <3>1, <3>2, <3>3
  <2> QED
    BY <2>1, <2>2, RegionsStep
<1>4. notices' \in [Region -> SUBSET (Region \cup {"up"})]
  BY NoticesStep
<1>5. ASSUME NEW q \in Region, ~regions'[q].running PROVE notices'[q] = {}
  <2>1. CASE Stop(q)
    BY <2>1, NoticesStep
  <2>2. CASE ~Stop(q)
    <3>1. ~regions[q].running
      BY <1>3, <1>5, <2>2
    <3>2. notices[q] = {} /\ notices'[q] \subseteq notices[q]
      BY <3>1, NoticesStep DEF Types
    <3> QED
      BY <3>2
  <2> QED
    BY <2>1, <2>2
<1> QED
  BY <1>1, <1>2, <1>3, <1>4, <1>5 DEF Types

\* The coordinator's and the regions' maps stay within the code's types, and a proxy
\* region or one that stopped hosts nothing (ShardRegion.ts), in every scenario.
THEOREM RegionTypes == Spec => []TypeOK
<1>1. Types /\ UNCHANGED vars => Types'
  BY TypesStep
<1>2. Types => TypeOK
  <2> SUFFICES ASSUME Types PROVE TypeOK
    OBVIOUS
  <2>1. coordinator \in ACoordinator /\ coordinator.beaten \subseteq coordinator.registered
    BY DEF Types, Typed
  <2>2. ASSUME NEW r \in Region
        PROVE  /\ regions[r] \in ARegion /\ Hosts(r, regions[r]) /\ Dormant(regions[r])
    BY DEF Types, Fine
  <2>3. ASSUME NEW r \in Region
        PROVE  /\ regions[r].actor \in {"none", "live", "stopping", "stopped"}
               /\ regions[r].state \in {None, "owned", "handing-off", "passivating", "backing-off"}
               /\ regions[r].home \in Maybe \ Proxy
               /\ r \in Proxy \/ ~regions[r].running =>
                     regions[r].actor = "none" /\ ~regions[r].local
    <3> DEFINE g == regions[r]
    <3>1. g \in ARegion /\ Hosts(r, g) /\ Dormant(g)
      BY <2>2
    <3> HIDE DEF g
    <3>2. /\ g.actor \in {"none", "live", "stopping", "stopped"}
          /\ g.state \in {None, "owned", "handing-off", "passivating", "backing-off"}
          /\ g.home \in Maybe \ Proxy
      BY <3>1 DEF ARegion, Homes
    <3>3. r \in Proxy \/ ~g.running => g.actor = "none" /\ ~g.local
      BY <3>1 DEF Hosts, Dormant
    <3> QED
      BY <3>2, <3>3 DEF g
  <2> QED
    BY <2>1, <2>3 DEF TypeOK, ACoordinator, Homes
<1> QED
  BY <1>2, TypesInit, TypesStep, PTL DEF Spec
=============================================================================
