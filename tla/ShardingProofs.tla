----------------------------- MODULE ShardingProofs -----------------------------
(***************************************************************************)
(* Two results on one shard, for every set of regions and every sound      *)
(* scenario (SoundScenario), as long as nothing forces the coordinator's   *)
(* hand:                                                                   *)
(*                                                                         *)
(*  - the shard runs on one region at a time, a stopping one included;     *)
(*  - no message sent while it moves is dropped.                           *)
(*                                                                         *)
(* Both rest on Good and Settled (ShardingTypes).  First what the          *)
(* coordinator's operations keep of them, then the steps of the system.    *)
(***************************************************************************)
EXTENDS ShardingTypes

-----------------------------------------------------------------------------
(* What the coordinator's operations keep between it and a region *)

\* A running region is as `Good' says, and one that may yet start has had no
\* dealings with the coordinator; n regions may yet start.
InStep(c, g, q, n) ==
    /\ g.running => Good(c, g, q)
    /\ ~g.running /\ n > 0 => /\ c.frames[q] = <<>> /\ g.frames = <<>>
                              /\ q \notin c.registered \cup c.pending

\* A query waits only for a shard without a home.
Quiet(c) == c.pending = {} \/ c.home = None

LEMMA SameLink ==
    ASSUME NEW c, NEW d, NEW g, NEW q, NEW n, InStep(c, g, q, n),
           d.home = c.home, d.rebalancing = c.rebalancing, d.frames[q] = c.frames[q],
           q \in d.registered \cup d.pending => q \in c.registered \cup c.pending \/ g.running \/ ~(n > 0)
    PROVE  InStep(d, g, q, n)
<1>1. ASSUME Good(c, g, q) PROVE Good(d, g, q)
  <2>1. Hosting(d, g, q) <=> Hosting(c, g, q)
    BY DEF Hosting
  <2> QED
    BY <1>1, <2>1 DEF Good
<1> QED
  BY <1>1 DEF InStep

\* A frame that says nothing of the shard.
LEMMA NeutralGood ==
    ASSUME NEW c, NEW d, NEW g, NEW q, NEW x \in CoordinatorFrame, Good(c, g, q),
           c.frames[q] \in Seq(CoordinatorFrame),
           x.kind \in {"RegisterAcknowledgment", "RegistrationRequest"},
           d.home = c.home, d.rebalancing = c.rebalancing, d.frames[q] = Append(c.frames[q], x)
    PROVE  Good(d, g, q)
<1> DEFINE s == c.frames[q]
           t == Append(s, x)
<1>1. \A kind : Has(t, kind) <=> Has(s, kind) \/ x.kind = kind
  BY HasAppend
<1>2. /\ Names(t, q) <=> Names(s, q)
      /\ AllName(s, q) => AllName(t, q)
      /\ Steady(s, q) => Steady(t, q)
      /\ HandOffLast(s) => HandOffLast(t)
  BY InboxAppend
<1>3. /\ Has(t, "HandOff") <=> Has(s, "HandOff")
      /\ Has(t, "ShardHome") <=> Has(s, "ShardHome")
      /\ Has(t, "RegionEvicted") <=> Has(s, "RegionEvicted")
  BY <1>1
<1> HIDE DEF t
<1>4. Hosting(d, g, q) <=> Hosting(c, g, q)
  BY <1>2 DEF Hosting, t
<1> QED
  BY <1>2, <1>3, <1>4 DEF Good, t

\* The home, told to a region that is not giving the shard up.
LEMMA PlacementGood ==
    ASSUME NEW c, NEW d, NEW g, NEW q, NEW x \in CoordinatorFrame, Good(c, g, q),
           c.frames[q] \in Seq(CoordinatorFrame), c.rebalancing # q,
           x.kind = "ShardHome", x.home = c.home,
           d.home = c.home, d.rebalancing = c.rebalancing, d.frames[q] = Append(c.frames[q], x)
    PROVE  Good(d, g, q)
<1> DEFINE s == c.frames[q]
           t == Append(s, x)
<1>1. \A kind : Has(t, kind) <=> Has(s, kind) \/ x.kind = kind
  BY HasAppend
<1>2. /\ ~Has(s, "HandOff") /\ ~Has(g.frames, "HandOffComplete") /\ ~g.handingOff
      /\ (g.local => c.home = q) /\ (Names(s, q) => c.home = q)
  BY DEF Good, Hosting
<1>3. /\ Names(t, q) => Names(s, q) \/ c.home = q
      /\ g.local => AllName(t, q)
      /\ Steady(t, q) /\ HandOffLast(t)
  <2>1. Names(t, q) <=> Names(s, q) \/ (x.kind = "ShardHome" /\ x.home = q)
    BY InboxAppend
  <2>2. g.local => AllName(t, q)
    BY <1>2, InboxAppend DEF Good
  <2>3. Steady(t, q)
    BY <1>2, InboxAppend DEF Good
  <2>4. HandOffLast(t)
    BY <1>2, InboxAppend DEF Good
  <2> HIDE DEF t
  <2> QED
    BY <2>1, <2>2, <2>3, <2>4
<1>4. ~Has(t, "HandOff") /\ ~Has(t, "RegionEvicted")
  BY <1>1, <1>2 DEF Good
<1> HIDE DEF t
<1>5. Hosting(d, g, q) => c.home = q
  BY <1>2, <1>3 DEF Hosting, Good, t
<1> QED
  BY <1>2, <1>3, <1>4, <1>5 DEF Good, t

\* A region without the shard, and with no part in a hand-off, wherever the home goes.
LEMMA FreeGood ==
    ASSUME NEW c, NEW d, NEW g, NEW q, Good(c, g, q), ~Hosting(c, g, q),
           ~Has(c.frames[q], "HandOff"), ~Has(g.frames, "HandOffComplete"),
           d.rebalancing # q, d.frames[q] = c.frames[q]
    PROVE  Good(d, g, q)
<1>1. ~Hosting(d, g, q) /\ ~g.handingOff
  BY DEF Hosting, Good
<1> QED
  BY <1>1 DEF Good

LEMMA HomelessFree ==
    ASSUME NEW c, NEW g, NEW q, Good(c, g, q), c.home # q, c.rebalancing # q
    PROVE  ~Hosting(c, g, q) /\ ~Has(c.frames[q], "HandOff") /\ ~Has(g.frames, "HandOffComplete")
BY DEF Good

\* A frame to a region the coordinator has met.
LEMMA TellInStep ==
    ASSUME NEW c, Typed(c), NEW r \in Region, NEW kind \in CoordinatorKinds,
           NEW q \in Region, NEW g, NEW n, InStep(c, g, q, n),
           q = r => (n > 0 => g.running),
           q = r /\ g.running => \/ kind \in {"RegisterAcknowledgment", "RegistrationRequest"}
                                 \/ kind = "ShardHome" /\ c.rebalancing # r
    PROVE  InStep(ToRegion(c, r, kind), g, q, n)
<1> DEFINE d == ToRegion(c, r, kind)
           x == [kind |-> kind, home |-> IF kind = "ShardHome" THEN c.home ELSE None]
<1>1. /\ Typed(d) /\ Beside(c, d, {"frames"}) /\ x \in CoordinatorFrame
      /\ d.frames[r] = Append(c.frames[r], x)
      /\ \A p \in Region \ {r} : d.frames[p] = c.frames[p]
  BY TellEffect
<1>2. x.kind = kind /\ (kind = "ShardHome" => x.home = c.home)
  OBVIOUS
<1> HIDE DEF d, x
<1>3. /\ d.home = c.home /\ d.rebalancing = c.rebalancing
      /\ d.registered = c.registered /\ d.pending = c.pending
  BY <1>1 DEF Beside, Fields
<1>4. CASE q # r
  <2>1. d.frames[q] = c.frames[q]
    BY <1>1, <1>4
  <2> QED
    BY <1>3, <2>1, SameLink DEF d
<1>5. CASE q = r /\ g.running
  <2>1. c.frames[q] \in Seq(CoordinatorFrame) /\ Good(c, g, q) /\ d.frames[q] = Append(c.frames[q], x)
    BY <1>1, <1>5 DEF Typed, ACoordinator, InStep
  <2>2. Good(d, g, q)
    BY <1>1, <1>2, <1>3, <1>5, <2>1, NeutralGood, PlacementGood
  <2> QED
    BY <1>5, <2>2 DEF InStep, d
<1>6. CASE q = r /\ ~g.running
  BY <1>6 DEF InStep
<1> QED
  BY <1>4, <1>5, <1>6

LEMMA FlushInStep ==
    ASSUME NEW c, Typed(c), NEW q \in Region, NEW g, NEW n, InStep(c, g, q, n),
           q \in c.pending => c.rebalancing # q
    PROVE  InStep(FlushPending(c), g, q, n)
<1> DEFINE d == FlushPending(c)
           x == [kind |-> "ShardHome", home |-> c.home]
<1>1. /\ Typed(d) /\ Beside(c, d, {"frames", "pending"}) /\ x \in CoordinatorFrame
      /\ d.pending = IF c.home \in c.registered THEN {} ELSE c.pending
      /\ \A p \in Region : \/ d.frames[p] = c.frames[p]
                           \/ p \in c.pending /\ d.frames[p] = Append(c.frames[p], x)
  BY FlushEffect
<1>2. x.kind = "ShardHome" /\ x.home = c.home
  OBVIOUS
<1> HIDE DEF d, x
<1>3. /\ d.home = c.home /\ d.rebalancing = c.rebalancing
      /\ d.registered = c.registered /\ d.pending \subseteq c.pending
  BY <1>1 DEF Beside, Fields
<1>4. CASE d.frames[q] = c.frames[q]
  BY <1>3, <1>4, SameLink DEF d
<1>5. CASE q \in c.pending /\ d.frames[q] = Append(c.frames[q], x)
  <2>1. g.running => Good(d, g, q)
    <3>1. c.frames[q] \in Seq(CoordinatorFrame)
      BY DEF Typed, ACoordinator
    <3> QED
      BY <1>1, <1>2, <1>3, <1>5, <3>1, PlacementGood DEF InStep
  <2>2. n > 0 => g.running
    BY <1>5 DEF InStep
  <2> QED
    BY <2>1, <2>2 DEF InStep, d
<1> QED
  BY <1>1, <1>4, <1>5

\* tryAllocate places a shard that nobody hosts.
LEMMA TryAllocateInStep ==
    ASSUME NEW c, Typed(c), c.home = None, c.rebalancing = None, NEW d \in TryAllocate(c),
           NEW q \in Region, NEW g, NEW n, InStep(c, g, q, n)
    PROVE  InStep(d, g, q, n)
<1>1. CASE EligibleRegions(c) = {}
  BY <1>1 DEF TryAllocate
<1>2. CASE EligibleRegions(c) # {}
  <2>1. PICK r \in EligibleRegions(c) :
          d = FlushPending(ToRegion([c EXCEPT !.home = r, !.listed = @ \cup {r}], r, "ShardHome"))
    BY <1>2 DEF TryAllocate
  <2> DEFINE homed == [c EXCEPT !.home = r, !.listed = @ \cup {r}]
             told == ToRegion(homed, r, "ShardHome")
  <2>2. Typed(homed) /\ Beside(c, homed, {"home", "listed"}) /\ homed.home = r /\ r \in Region /\ r \in c.registered
    BY PickEffect
  <2> HIDE DEF homed
  <2>3. /\ homed.rebalancing = None /\ homed.frames = c.frames
        /\ homed.registered = c.registered /\ homed.pending = c.pending
    BY <2>2 DEF Beside, Fields
  <2>4. q # None
    BY ShardingConstants
  <2>5. g.running => Good(homed, g, q)
    BY <2>3, <2>4, FreeGood, HomelessFree DEF InStep
  <2>6. InStep(homed, g, q, n)
    BY <2>3, <2>5 DEF InStep
  <2>7. q = r => (n > 0 => g.running)
    BY <2>2 DEF InStep
  <2>8. InStep(told, g, q, n)
    BY <2>2, <2>3, <2>4, <2>6, <2>7, TellInStep DEF CoordinatorKinds
  <2>9. Typed(told) /\ Beside(homed, told, {"frames"})
    BY <2>2, TellEffect DEF CoordinatorKinds
  <2> HIDE DEF told
  <2>10. told.rebalancing = None
    BY <2>3, <2>9 DEF Beside, Fields
  <2> QED
    BY <2>1, <2>4, <2>8, <2>9, <2>10, FlushInStep DEF told, homed
<1> QED
  BY <1>1, <1>2

LEMMA TryAllocateQuiet ==
    ASSUME NEW c, Typed(c), c.home = None, NEW d \in TryAllocate(c) PROVE Quiet(d)
<1>1. CASE EligibleRegions(c) = {}
  BY <1>1 DEF TryAllocate, Quiet
<1>2. CASE EligibleRegions(c) # {}
  <2>1. PICK r \in EligibleRegions(c) :
          d = FlushPending(ToRegion([c EXCEPT !.home = r, !.listed = @ \cup {r}], r, "ShardHome"))
    BY <1>2 DEF TryAllocate
  <2> DEFINE homed == [c EXCEPT !.home = r, !.listed = @ \cup {r}]
             told == ToRegion(homed, r, "ShardHome")
  <2>2. Typed(homed) /\ Beside(c, homed, {"home", "listed"}) /\ homed.home = r /\ r \in Region /\ r \in c.registered
    BY PickEffect
  <2> HIDE DEF homed
  <2>3. Typed(told) /\ Beside(homed, told, {"frames"})
    BY <2>2, TellEffect DEF CoordinatorKinds
  <2> HIDE DEF told
  <2>4. told.home = r /\ r \in told.registered
    BY <2>2, <2>3 DEF Beside, Fields
  <2>5. FlushPending(told).pending = {}
    BY <2>3, <2>4, FlushEffect
  <2> QED
    BY <2>1, <2>5 DEF Quiet, told, homed
<1> QED
  BY <1>1, <1>2

\* onRegister: a running region claims only what the coordinator has it as the home of.
LEMMA OnRegisterInStep ==
    ASSUME NEW c, Typed(c), Placed(c), Quiet(c), NEW r \in Region, NEW claims \in BOOLEAN,
           claims => r \notin Proxy, NEW d \in OnRegister(c, r, claims)
    PROVE  /\ Quiet(d)
           /\ \A q \in Region : \A g, n :
                 /\ InStep(c, g, q, n)
                 /\ q = r => (n > 0 => g.running) /\ (g.running /\ claims => c.home = r)
                 => InStep(d, g, q, n)
<1> DEFINE adopted == claims /\ (c.home \in {None, r} \/ c.home \notin c.registered)
           home    == IF adopted THEN r ELSE c.home
           joined  == [c EXCEPT !.registered = @ \cup {r}, !.home = home,
                                !.listed = IF home = r THEN @ \cup {r} ELSE @ \ {r}]
           acked   == ToRegion(joined, r, "RegisterAcknowledgment")
<1>1. d = IF adopted THEN FlushPending(acked)
          ELSE IF claims /\ c.rebalancing = None THEN ToRegion(acked, r, "HandOff")
          ELSE acked
  BY DEF OnRegister
<1>2. /\ home \in {r, c.home} /\ (home = r => r \notin Proxy \/ c.home = r)
      /\ (adopted => home = r) /\ (~adopted => home = c.home)
      /\ (home # c.home => c.home = None /\ adopted)
      /\ (c.home = r /\ claims => adopted) /\ (adopted => claims)
  BY DEF Placed
<1> HIDE DEF home, adopted
<1>3. /\ Typed(joined) /\ Beside(c, joined, {"registered", "home", "listed"})
      /\ joined.home = home /\ joined.registered = c.registered \cup {r}
  <2>1. home \in {r, c.home} /\ (home = r => r \notin Proxy \/ c.home = r)
    BY <1>2
  <2>2. Typed(joined) /\ Beside(c, joined, {"registered", "home", "listed"})
    BY <2>1, JoinEffect
  <2>3. joined.home = home /\ joined.registered = c.registered \cup {r}
    BY DEF Typed, ACoordinator
  <2> QED
    BY <2>2, <2>3
<1> HIDE DEF joined
<1>4. /\ joined.rebalancing = c.rebalancing /\ joined.frames = c.frames /\ joined.pending = c.pending
  BY <1>3 DEF Beside, Fields
<1>5. Typed(acked) /\ Beside(joined, acked, {"frames"})
  BY <1>3, TellEffect DEF CoordinatorKinds
<1>6. /\ acked.home = home /\ acked.registered = c.registered \cup {r}
      /\ acked.rebalancing = c.rebalancing /\ acked.pending = c.pending
  BY <1>3, <1>4, <1>5 DEF Beside, Fields
<1>7. Quiet(d)
  <2>1. CASE adopted
    <3>1. acked.home \in acked.registered
      BY <1>2, <1>6, <2>1
    <3>2. FlushPending(acked).pending = {}
      BY <1>5, <3>1, FlushEffect
    <3> QED
      BY <1>1, <2>1, <3>2 DEF Quiet
  <2>2. CASE ~adopted
    <3>1. Quiet(acked)
      BY <1>2, <1>6, <2>2 DEF Quiet
    <3>2. Beside(acked, ToRegion(acked, r, "HandOff"), {"frames"})
      BY <1>5, TellEffect DEF CoordinatorKinds
    <3>3. Quiet(ToRegion(acked, r, "HandOff"))
      BY <3>1, <3>2 DEF Quiet, Beside, Fields
    <3> QED
      BY <1>1, <2>2, <3>1, <3>3
  <2> QED
    BY <2>1, <2>2
<1>8. ASSUME NEW q \in Region, NEW g, NEW n, InStep(c, g, q, n),
             q = r => (n > 0 => g.running) /\ (g.running /\ claims => c.home = r)
      PROVE  InStep(d, g, q, n)
  <2>0. q # None
    BY ShardingConstants
  <2>1. InStep(joined, g, q, n)
    <3>1. CASE home = c.home
      BY <1>3, <1>4, <1>8, <3>1, SameLink
    <3>2. CASE home # c.home
      <4>1. c.home = None /\ c.rebalancing = None /\ claims
        BY <1>2, <3>2 DEF Placed
      <4>2. g.running => q # r
        BY <1>8, <4>1, ShardingConstants
      <4>3. g.running => Good(joined, g, q)
        BY <1>4, <1>8, <2>0, <4>1, HomelessFree, FreeGood DEF InStep
      <4> QED
        BY <1>3, <1>4, <1>8, <4>3 DEF InStep
    <3> QED
      BY <3>1, <3>2
  <2>2. InStep(acked, g, q, n)
    BY <1>3, <1>8, <2>1, TellInStep DEF CoordinatorKinds
  <2>3. CASE adopted
    <3>1. q \in acked.pending => acked.rebalancing # q
      BY <1>6, <2>0 DEF Quiet, Placed
    <3> QED
      BY <1>1, <1>5, <2>2, <2>3, <3>1, FlushInStep
  <2>4. CASE ~adopted /\ claims /\ c.rebalancing = None
    <3>1. q = r => ~g.running
      BY <1>2, <1>8, <2>4
    <3>2. InStep(ToRegion(acked, r, "HandOff"), g, q, n)
      BY <1>5, <1>8, <2>2, <3>1, TellInStep DEF CoordinatorKinds
    <3> QED
      BY <1>1, <2>4, <3>2
  <2>5. CASE ~adopted /\ ~(claims /\ c.rebalancing = None)
    BY <1>1, <2>2, <2>5
  <2> QED
    BY <2>3, <2>4, <2>5
<1> QED
  BY <1>7, <1>8

\* onGetShardHome: the answer does not cross a hand-off.
LEMMA OnGetShardHomeInStep ==
    ASSUME NEW c, Typed(c), Placed(c), Quiet(c), NEW r \in Region, NEW d \in OnGetShardHome(c, r),
           ~d.crossed
    PROVE  /\ Quiet(d)
           /\ \A q \in Region : \A g, n :
                 InStep(c, g, q, n) /\ (q = r => (n > 0 => g.running)) => InStep(d, g, q, n)
<1>1. CASE c.home \in c.registered
  <2> DEFINE told == ToRegion(c, r, "ShardHome")
  <2>1. d = [told EXCEPT !.crossed = @ \/ c.rebalancing = r]
    BY <1>1 DEF OnGetShardHome
  <2>2. Beside(told, d, {"crossed"}) /\ c.rebalancing # r
    BY <2>1, AnswerEffect
  <2>3. Beside(c, told, {"frames"})
    BY TellEffect DEF CoordinatorKinds
  <2> HIDE DEF told
  <2>4. /\ d.home = told.home /\ d.rebalancing = told.rebalancing /\ d.frames = told.frames
        /\ d.registered = told.registered /\ d.pending = told.pending
    BY <2>2 DEF Beside, Fields
  <2>5. Quiet(d)
    BY <2>3, <2>4 DEF Beside, Fields, Quiet
  <2>6. ASSUME NEW q \in Region, NEW g, NEW n, InStep(c, g, q, n), q = r => (n > 0 => g.running)
        PROVE  InStep(d, g, q, n)
    <3>1. InStep(told, g, q, n)
      BY <2>2, <2>6, TellInStep DEF told, CoordinatorKinds
    <3> QED
      BY <2>4, <3>1, SameLink
  <2> QED
    BY <2>5, <2>6
<1>2. CASE c.home \notin c.registered
  <2> DEFINE parked == [c EXCEPT !.pending = @ \cup {r}]
  <2>1. c.home = None /\ c.rebalancing = None
    BY <1>2 DEF Placed
  <2>2. d \in TryAllocate(parked)
    BY <1>2, <2>1 DEF OnGetShardHome
  <2>3. Typed(parked) /\ Beside(c, parked, {"pending"}) /\ parked.pending = c.pending \cup {r}
    BY ParkEffect
  <2> HIDE DEF parked
  <2>4. /\ parked.home = None /\ parked.rebalancing = None /\ parked.frames = c.frames
        /\ parked.registered = c.registered
    BY <2>1, <2>3 DEF Beside, Fields
  <2>5. ASSUME NEW q \in Region, NEW g, NEW n, InStep(c, g, q, n), q = r => (n > 0 => g.running)
        PROVE  InStep(d, g, q, n)
    <3>1. InStep(parked, g, q, n)
      BY <2>1, <2>3, <2>4, <2>5, SameLink
    <3> QED
      BY <2>2, <2>3, <2>4, <3>1, TryAllocateInStep
  <2> QED
    BY <2>2, <2>3, <2>4, <2>5, TryAllocateQuiet
<1> QED
  BY <1>1, <1>2

\* The hand-off has ended, and the region it was asked of is without the shard.
LEMMA ReleaseInStep ==
    ASSUME NEW c, Typed(c), Placed(c), c.rebalancing # None,
           NEW d \in TryAllocate([ReleaseFromPreviousOwner(c) EXCEPT !.rebalancing = None])
    PROVE  /\ Quiet(d)
           /\ \A q \in Region : \A g, n :
                 /\ InStep(c, g, q, n)
                 /\ q = c.rebalancing /\ g.running
                      => ~Hosting(c, g, q) /\ ~Has(c.frames[q], "HandOff") /\ ~Has(g.frames, "HandOffComplete")
                 => InStep(d, g, q, n)
<1> DEFINE released == [ReleaseFromPreviousOwner(c) EXCEPT !.rebalancing = None]
<1>1. /\ Typed(released) /\ Beside(c, released, {"home", "listed", "rebalancing"})
      /\ released.home = None /\ released.rebalancing = None
  BY ReleaseEffect
<1> HIDE DEF released
<1>2. /\ released.frames = c.frames /\ released.registered = c.registered
      /\ released.pending = c.pending
  BY <1>1 DEF Beside, Fields
<1>3. c.home = c.rebalancing
  BY DEF Placed
<1>4. ASSUME NEW q \in Region, NEW g, NEW n, InStep(c, g, q, n),
             q = c.rebalancing /\ g.running
                => ~Hosting(c, g, q) /\ ~Has(c.frames[q], "HandOff") /\ ~Has(g.frames, "HandOffComplete")
      PROVE  InStep(d, g, q, n)
  <2>1. q # None
    BY ShardingConstants
  <2>2. g.running => Good(released, g, q)
    BY <1>1, <1>2, <1>3, <1>4, <2>1, HomelessFree, FreeGood DEF InStep
  <2>3. InStep(released, g, q, n)
    BY <1>2, <1>4, <2>2 DEF InStep
  <2> QED
    BY <1>1, <2>3, TryAllocateInStep DEF released
<1>5. Quiet(d)
  BY <1>1, TryAllocateQuiet DEF released
<1> QED
  BY <1>4, <1>5

\* onRegionTerminated, of a region that does not run.
LEMMA OnRegionTerminatedInStep ==
    ASSUME NEW c, Typed(c), Placed(c), Quiet(c), NEW r \in Region, NEW d \in OnRegionTerminated(c, r)
    PROVE  /\ Quiet(d)
           /\ \A q \in Region : \A g, n :
                 InStep(c, g, q, n) /\ (q = r => ~g.running) => InStep(d, g, q, n)
<1> DEFINE gone == [c EXCEPT !.registered = @ \ {r}, !.beaten = @ \ {r}, !.listed = @ \ {r}]
           homeless == [gone EXCEPT !.home = None, !.rebalancing = None]
<1>1. /\ Typed(gone) /\ Beside(c, gone, {"registered", "beaten", "listed"})
      /\ gone.registered = c.registered \ {r}
      /\ Typed(homeless) /\ Beside(gone, homeless, {"home", "rebalancing"})
      /\ homeless.home = None /\ homeless.rebalancing = None
  BY LeaveEffect
<1>2. \/ d = c
      \/ d = gone
      \/ r \in c.listed /\ d \in TryAllocate(homeless)
  BY DEF OnRegionTerminated
<1> HIDE DEF gone, homeless
<1>3. /\ gone.home = c.home /\ gone.rebalancing = c.rebalancing /\ gone.frames = c.frames
      /\ gone.pending = c.pending /\ homeless.frames = c.frames
      /\ homeless.registered = gone.registered /\ homeless.pending = c.pending
  BY <1>1 DEF Beside, Fields
<1>4. CASE d = c
  BY <1>4
<1>5. CASE d = gone
  <2>1. Quiet(d)
    BY <1>3, <1>5 DEF Quiet
  <2>2. ASSUME NEW q \in Region, NEW g, NEW n, InStep(c, g, q, n) PROVE InStep(d, g, q, n)
    BY <1>1, <1>3, <1>5, <2>2, SameLink
  <2> QED
    BY <2>1, <2>2
<1>6. CASE r \in c.listed /\ d \in TryAllocate(homeless)
  <2>1. c.home = r /\ c.rebalancing \in {r, None}
    BY <1>6 DEF Placed
  <2>2. ASSUME NEW q \in Region, NEW g, NEW n, InStep(c, g, q, n), q = r => ~g.running
        PROVE  InStep(d, g, q, n)
    <3>1. q # None
      BY ShardingConstants
    <3>2. g.running => Good(homeless, g, q)
      BY <1>1, <1>3, <2>1, <2>2, <3>1, HomelessFree, FreeGood DEF InStep
    <3>3. InStep(homeless, g, q, n)
      BY <1>1, <1>3, <2>2, <3>2 DEF InStep
    <3> QED
      BY <1>1, <1>6, <3>3, TryAllocateInStep
  <2>3. Quiet(d)
    BY <1>1, <1>6, TryAllocateQuiet
  <2> QED
    BY <2>2, <2>3
<1> QED
  BY <1>2, <1>4, <1>5, <1>6

LEMMA OnRegionHeartbeatInStep ==
    ASSUME NEW c, Typed(c), Quiet(c), NEW r \in Region, NEW d \in OnRegionHeartbeat(c, r)
    PROVE  /\ Quiet(d)
           /\ \A q \in Region : \A g, n :
                 InStep(c, g, q, n) /\ (q = r => (n > 0 => g.running)) => InStep(d, g, q, n)
<1>1. CASE r \in c.registered
  <2>1. d = [c EXCEPT !.beaten = @ \cup {r}] /\ c \in ACoordinator
    BY <1>1 DEF OnRegionHeartbeat, Typed
  <2>2. /\ d.home = c.home /\ d.rebalancing = c.rebalancing /\ d.frames = c.frames
        /\ d.registered = c.registered /\ d.pending = c.pending
    BY <2>1 DEF ACoordinator
  <2>3. ASSUME NEW q \in Region, NEW g, NEW n, InStep(c, g, q, n) PROVE InStep(d, g, q, n)
    BY <2>2, <2>3, SameLink
  <2> QED
    BY <2>2, <2>3 DEF Quiet
<1>2. CASE r \notin c.registered
  <2>1. d = ToRegion(c, r, "RegistrationRequest")
    BY <1>2 DEF OnRegionHeartbeat
  <2>2. Beside(c, d, {"frames"})
    BY <2>1, TellEffect DEF CoordinatorKinds
  <2>3. Quiet(d)
    BY <2>2 DEF Quiet, Beside, Fields
  <2>4. ASSUME NEW q \in Region, NEW g, NEW n, InStep(c, g, q, n), q = r => (n > 0 => g.running)
        PROVE  InStep(d, g, q, n)
    BY <2>1, <2>4, TellInStep DEF CoordinatorKinds
  <2> QED
    BY <2>3, <2>4
<1> QED
  BY <1>1, <1>2

\* A move begins: the home is asked to give the shard up.
LEMMA BeginHandOffInStep ==
    ASSUME NEW c, Typed(c), Quiet(c), Movable(c)
    PROVE  /\ Quiet(BeginHandOff(c))
           /\ \A q \in Region : \A g, n : InStep(c, g, q, n) => InStep(BeginHandOff(c), g, q, n)
<1> DEFINE r == c.home
           begun == [c EXCEPT !.rebalancing = c.home]
           d == ToRegion(begun, r, "HandOff")
           x == [kind |-> "HandOff", home |-> IF "HandOff" = "ShardHome" THEN begun.home ELSE None]
<1>1. c.rebalancing = None /\ r \in c.registered /\ r \in Region /\ r # None
  BY ShardingConstants DEF Movable, Up
<1>2. Typed(begun) /\ Beside(c, begun, {"rebalancing"}) /\ begun.rebalancing = c.home
  BY <1>1, BeginEffect
<1>3. BeginHandOff(c) = d
  BY DEF BeginHandOff
<1> HIDE DEF begun
<1>4. /\ begun.home = c.home /\ begun.frames = c.frames /\ begun.registered = c.registered
      /\ begun.pending = c.pending
  BY <1>2 DEF Beside, Fields
<1>5. /\ Typed(d) /\ Beside(begun, d, {"frames"}) /\ x \in CoordinatorFrame
      /\ d.frames[r] = Append(begun.frames[r], x)
      /\ \A q \in Region \ {r} : d.frames[q] = begun.frames[q]
  <2>1. "HandOff" \in CoordinatorKinds
    BY DEF CoordinatorKinds
  <2> HIDE DEF r
  <2> QED
    BY <1>1, <1>2, <2>1, TellEffect
<1>6. x.kind = "HandOff"
  OBVIOUS
<1> HIDE DEF d, x
<1>7. /\ d.home = r /\ d.rebalancing = r /\ d.registered = c.registered /\ d.pending = c.pending
      /\ d.frames[r] = Append(c.frames[r], x)
      /\ \A q \in Region \ {r} : d.frames[q] = c.frames[q]
  BY <1>2, <1>4, <1>5 DEF Beside, Fields
<1>8. Quiet(d)
  BY <1>7 DEF Quiet
<1>9. ASSUME NEW q \in Region, NEW g, NEW n, InStep(c, g, q, n) PROVE InStep(d, g, q, n)
  <2>1. CASE q # r
    <3>1. q # None /\ d.frames[q] = c.frames[q]
      BY <1>7, <2>1, ShardingConstants
    <3>2. g.running => Good(d, g, q)
      BY <1>1, <1>7, <1>9, <2>1, <3>1, HomelessFree, FreeGood DEF InStep
    <3> QED
      BY <1>7, <1>9, <3>1, <3>2 DEF InStep
  <2>2. CASE q = r /\ g.running
    <3> DEFINE s == c.frames[q]
               t == d.frames[q]
    <3>1. s \in Seq(CoordinatorFrame) /\ t = Append(s, x) /\ Good(c, g, q)
      BY <1>7, <1>9, <2>2 DEF Typed, ACoordinator, InStep
    <3>2. \A kind : Has(t, kind) <=> Has(s, kind) \/ x.kind = kind
      BY <1>5, <3>1, HasAppend
    <3>3. ~Has(s, "HandOff") /\ ~Has(g.frames, "HandOffComplete") /\ ~g.handingOff
      BY <1>1, <2>2, <3>1 DEF Good
    <3>4. /\ Names(t, q) <=> Names(s, q)
          /\ AllName(s, q) => AllName(t, q)
          /\ Steady(s, q) => Steady(t, q)
          /\ HandOffLast(s) => HandOffLast(t)
      <4> HIDE DEF s, t
      <4> QED
        BY <1>5, <1>6, <3>1, <3>3, InboxAppend
    <3>5. Has(t, "HandOff") /\ (Has(t, "RegionEvicted") => Has(s, "RegionEvicted"))
      BY <1>6, <3>2
    <3> HIDE DEF t
    <3>6. Hosting(d, g, q) => Hosting(c, g, q)
      BY <3>4 DEF Hosting, t
    <3>7. Good(d, g, q)
      BY <1>7, <2>2, <3>1, <3>3, <3>4, <3>5, <3>6 DEF Good, t
    <3> QED
      BY <2>2, <3>7 DEF InStep
  <2>3. CASE q = r /\ ~g.running
    BY <1>1, <1>9, <2>3 DEF InStep
  <2> QED
    BY <2>1, <2>2, <2>3
<1> QED
  BY <1>3, <1>8, <1>9

\* The coordinator takes the region's next frame, and what that frame tells it.
LEMMA TookInStep ==
    ASSUME NEW c, Placed(c), NEW r \in Region, NEW g, NEW n, Fine(r, g), InStep(c, g, r, n), g.frames # <<>>
    PROVE  LET h == [g EXCEPT !.frames = Tail(@)]
               x == Head(g.frames)
           IN  /\ Fine(r, h) /\ h.running = g.running /\ InStep(c, h, r, n) /\ (Settled(g) => Settled(h))
               /\ x \in RegionFrame /\ (x.claims => r \notin Proxy) /\ (n > 0 => h.running)
               /\ h.running /\ x.claims /\ x.kind = "Register" => c.home = r
               /\ h.running /\ x.kind = "HandOffComplete"
                    => ~Hosting(c, h, r) /\ ~Has(c.frames[r], "HandOff") /\ ~Has(h.frames, "HandOffComplete")
               /\ x.kind = "RegionTerminated" => ~h.running
<1> DEFINE s == g.frames
           t == Tail(s)
           x == Head(s)
           h == [g EXCEPT !.frames = Tail(@)]
<1>1. s \in Seq(RegionFrame) /\ s # <<>>
  BY DEF Fine, ARegion
<1>2. /\ t \in Seq(RegionFrame) /\ x \in RegionFrame /\ 1 \in 1..Len(s) /\ x = s[1]
      /\ \A i \in 1..Len(t) : t[i] = s[i + 1] /\ i + 1 \in 1..Len(s)
  <2> HIDE DEF s
  <2> QED
    BY <1>1, TailIndex
<1>3. \A kind : Has(s, kind) <=> x.kind = kind \/ Has(t, kind)
  BY <1>1, HasTail
<1>4. x.claims \in BOOLEAN
  BY <1>2 DEF RegionFrame
<1>5. h = [g EXCEPT !.frames = t]
  OBVIOUS
<1> HIDE DEF t, h
<1>6. /\ h \in ARegion /\ h.frames = t
      /\ h.running = g.running /\ h.local = g.local /\ h.actor = g.actor /\ h.handingOff = g.handingOff
      /\ h.releasing = g.releasing /\ h.state = g.state /\ h.queue = g.queue
      /\ h.declined = g.declined /\ h.passivating = g.passivating
  BY <1>2, <1>5 DEF Fine, ARegion
<1>7. Fine(r, h) /\ (x.claims => r \notin Proxy)
  BY <1>2, <1>6 DEF Fine, Hosts
<1>8. Settled(g) => Settled(h)
  BY <1>6 DEF Settled
<1>9. n > 0 => g.running
  BY DEF InStep
<1> HIDE DEF x
<1>10. ASSUME g.running
       PROVE  /\ Good(c, h, r) /\ x.kind # "RegionTerminated"
              /\ x.claims /\ x.kind = "Register" => c.home = r
              /\ x.kind = "HandOffComplete"
                   => ~Hosting(c, h, r) /\ ~Has(c.frames[r], "HandOff") /\ ~Has(h.frames, "HandOffComplete")
  <2>1. Good(c, g, r)
    BY <1>10 DEF InStep
  <2>2. CompleteLast(s) /\ Backed(s, g.local)
    BY <2>1 DEF Good
  <2>3. /\ CompleteLast(t) /\ Backed(t, g.local)
        /\ x.kind = "HandOffComplete" => ~Has(t, "HandOffComplete")
        /\ x.claims = TRUE /\ x.kind # "HandOffComplete" => g.local = TRUE \/ Has(t, "HandOffComplete")
    <3>1. CompleteLast(t) /\ Backed(t, g.local)
      BY <1>1, <2>2, OutboxTail DEF t
    <3>2. x.kind = "HandOffComplete" => ~Has(t, "HandOffComplete")
      BY <1>1, <2>2, OutboxTail DEF t, x
    <3>3. x.claims = TRUE /\ x.kind # "HandOffComplete" => g.local = TRUE \/ Has(t, "HandOffComplete")
      <4>1. x.claims = TRUE => g.local = TRUE \/ Has(s, "HandOffComplete")
        BY <1>2, <2>2 DEF Backed, Has
      <4> QED
        BY <1>3, <4>1
    <3> QED
      BY <3>1, <3>2, <3>3
  <2>4. Hosting(c, h, r) <=> Hosting(c, g, r)
    BY <1>6 DEF Hosting
  <2>5. /\ Has(t, "HandOffComplete") => Has(s, "HandOffComplete")
        /\ ~Has(t, "RegionTerminated") /\ x.kind # "RegionTerminated"
        /\ x.kind = "HandOffComplete" => Has(s, "HandOffComplete")
    BY <1>3, <2>1 DEF Good
  <2>6. Good(c, h, r)
    BY <1>6, <2>1, <2>3, <2>4, <2>5 DEF Good
  <2>7. ASSUME x.claims, x.kind = "Register" PROVE c.home = r
    <3>1. g.local = TRUE \/ Has(s, "HandOffComplete")
      BY <1>4, <2>3, <2>5, <2>7
    <3>2. CASE g.local = TRUE
      BY <2>1, <3>2 DEF Good, Hosting
    <3>3. CASE Has(s, "HandOffComplete")
      <4>1. c.rebalancing = r /\ r # None
        BY <2>1, <3>3, ShardingConstants DEF Good
      <4> QED
        BY <4>1 DEF Placed
    <3> QED
      BY <3>1, <3>2, <3>3
  <2>8. ASSUME x.kind = "HandOffComplete"
        PROVE  ~Hosting(c, h, r) /\ ~Has(c.frames[r], "HandOff") /\ ~Has(h.frames, "HandOffComplete")
    BY <1>6, <2>1, <2>3, <2>4, <2>5, <2>8 DEF Good
  <2> QED
    BY <2>5, <2>6, <2>7, <2>8
<1>11. InStep(c, h, r, n)
  BY <1>6, <1>9, <1>10 DEF InStep
<1> QED
  BY <1>2, <1>6, <1>7, <1>8, <1>9, <1>10, <1>11 DEF h, x

\* dispatchShardingMessage, for the region that sent the frame and for every other.
LEMMA DispatchInStep ==
    ASSUME NEW c, Typed(c), Placed(c), Quiet(c), NEW r \in Region, NEW g, NEW n, Fine(r, g),
           InStep(c, g, r, n), g.frames # <<>>,
           NEW d \in DispatchShardingMessage(c, r, Head(g.frames)), ~d.crossed
    PROVE  /\ Quiet(d)
           /\ InStep(d, [g EXCEPT !.frames = Tail(@)], r, n)
           /\ \A q \in Region \ {r} : \A k : InStep(c, k, q, n) => InStep(d, k, q, n)
<1> DEFINE h == [g EXCEPT !.frames = Tail(@)]
           x == Head(g.frames)
<1>1. /\ InStep(c, h, r, n) /\ x \in RegionFrame /\ (x.claims => r \notin Proxy) /\ (n > 0 => h.running)
      /\ h.running /\ x.claims /\ x.kind = "Register" => c.home = r
      /\ h.running /\ x.kind = "HandOffComplete"
           => ~Hosting(c, h, r) /\ ~Has(c.frames[r], "HandOff") /\ ~Has(h.frames, "HandOffComplete")
      /\ x.kind = "RegionTerminated" => ~h.running
  BY TookInStep
<1>2. x.kind \in RegionKinds /\ x.claims \in BOOLEAN
  BY <1>1 DEF RegionFrame
<1> HIDE DEF h, x
<1> SUFFICES /\ Quiet(d) /\ InStep(d, h, r, n)
             /\ \A q \in Region \ {r} : \A k : InStep(c, k, q, n) => InStep(d, k, q, n)
  BY DEF h
<1>3. d \in DispatchShardingMessage(c, r, x)
  BY DEF x
<1>4. CASE x.kind = "Register"
  <2>1. d \in OnRegister(c, r, x.claims)
    BY <1>3, <1>4 DEF DispatchShardingMessage
  <2>2. /\ Quiet(d)
        /\ \A q \in Region : \A k, m :
              /\ InStep(c, k, q, m)
              /\ q = r => (m > 0 => k.running) /\ (k.running /\ x.claims => c.home = r)
              => InStep(d, k, q, m)
    BY <1>1, <1>2, <2>1, OnRegisterInStep
  <2> QED
    BY <1>1, <1>4, <2>2
<1>5. CASE x.kind = "GetShardHome"
  <2>1. d \in OnGetShardHome(c, r)
    BY <1>3, <1>5 DEF DispatchShardingMessage
  <2> QED
    BY <1>1, <2>1, OnGetShardHomeInStep
<1>6. CASE x.kind = "HandOffComplete"
  <2>1. d \in OnHandOffComplete(c, r)
    BY <1>3, <1>6 DEF DispatchShardingMessage
  <2>2. CASE c.rebalancing # r
    <3>1. d = c
      BY <2>1, <2>2 DEF OnHandOffComplete
    <3> QED
      BY <1>1, <3>1
  <2>3. CASE c.rebalancing = r
    <3>1. d \in TryAllocate([ReleaseFromPreviousOwner(c) EXCEPT !.rebalancing = None])
      BY <2>1, <2>3 DEF OnHandOffComplete
    <3>2. c.rebalancing # None
      BY <2>3, ShardingConstants
    <3>3. /\ Quiet(d)
          /\ \A q \in Region : \A k, m :
                /\ InStep(c, k, q, m)
                /\ q = c.rebalancing /\ k.running
                     => ~Hosting(c, k, q) /\ ~Has(c.frames[q], "HandOff") /\ ~Has(k.frames, "HandOffComplete")
                => InStep(d, k, q, m)
      BY <3>1, <3>2, ReleaseInStep
    <3> QED
      BY <1>1, <1>6, <2>3, <3>3
  <2> QED
    BY <2>2, <2>3
<1>7. CASE x.kind = "RegionTerminated"
  <2>1. d \in OnRegionTerminated(c, r)
    BY <1>3, <1>7 DEF DispatchShardingMessage
  <2> QED
    BY <1>1, <1>7, <2>1, OnRegionTerminatedInStep
<1>8. CASE x.kind = "RegionHeartbeat"
  <2>1. d \in OnRegionHeartbeat(c, r)
    BY <1>3, <1>8 DEF DispatchShardingMessage
  <2> QED
    BY <1>1, <2>1, OnRegionHeartbeatInStep
<1> QED
  BY <1>2, <1>4, <1>5, <1>6, <1>7, <1>8 DEF RegionKinds

-----------------------------------------------------------------------------
(* One home *)

\* With nothing left that could force the coordinator's hand, it and every region
\* are in step.  A region that may still start has left nothing behind.
Homed ==
    /\ left.timeouts = 0 /\ left.evictions = 0 /\ left.removals = 0
    /\ left.starts = 0 \/ left.stops = 0
    /\ \A r \in Region : notices[r] \subseteq {"up"}
    /\ Quiet(coordinator)
    /\ \A r \in Region : InStep(coordinator, regions[r], r, left.starts)

\* What a step leaves of it.
StaysHomed == Quiet(coordinator') /\ \A q \in Region : InStep(coordinator', regions'[q], q, left.starts)

\* A region on which nothing has happened yet.
LEMMA FreshGood ==
    ASSUME NEW c, NEW r, NEW g, c.frames[r] = <<>>, g.frames = <<>>, g.local = FALSE, g.actor = "none",
           g.releasing = FALSE, g.handingOff = FALSE
    PROVE  Good(c, g, r)
<1>1. /\ \A kind : ~Has(c.frames[r], kind) /\ ~Has(g.frames, kind)
      /\ ~Names(c.frames[r], r) /\ AllName(c.frames[r], r) /\ Steady(c.frames[r], r) /\ HandOffLast(c.frames[r])
      /\ CompleteLast(g.frames) /\ Backed(g.frames, g.local)
  BY EmptyLink
<1>2. ~Hosting(c, g, r)
  BY <1>1 DEF Hosting
<1> QED
  BY <1>1, <1>2 DEF Good

LEMMA HomedInit == ASSUME Init, Orderly, SoundScenario(scenario) PROVE Homed
<1>1. /\ left = scenario.budget /\ left \in [Budgets -> Nat]
      /\ \A b \in Budgets : left[b] \in Nat
  BY ShardingConstants DEF Init
<1>2. /\ left.timeouts = 0 /\ left.evictions = 0 /\ left.removals = 0
      /\ left.starts = 0 \/ left.stops = 0
  BY <1>1 DEF Orderly, SoundScenario
<1>3. Quiet(coordinator) /\ \A r \in Region : notices[r] = {}
  BY DEF Init, Quiet
<1>4. ASSUME NEW r \in Region PROVE InStep(coordinator, regions[r], r, left.starts)
  <2> DEFINE b == r \in scenario.running
             g == [Absent EXCEPT !.running = b]
  <2>1. regions[r] = g
    BY <1>4 DEF Init
  <2>2. /\ coordinator.frames[r] = <<>> /\ coordinator.pending = {}
        /\ coordinator.registered = scenario.running
    BY DEF Init
  <2>3. /\ g.running = b /\ g.frames = <<>> /\ g.local = FALSE /\ g.actor = "none"
        /\ g.releasing = FALSE /\ g.handingOff = FALSE
    BY DEF Absent
  <2>4. g.running <=> r \in scenario.running
    BY <2>3
  <2> HIDE DEF g, b
  <2>5. Good(coordinator, g, r)
    BY <2>2, <2>3, FreshGood
  <2> QED
    BY <2>1, <2>2, <2>3, <2>4, <2>5 DEF InStep
<1> QED
  BY <1>2, <1>3, <1>4 DEF Homed

\* A step of a running region that leaves the coordinator alone, or takes its frame.
LEMMA MovesHomed ==
    ASSUME Types, Homed, NEW r \in Region, NEW k, Moves(r, k),
           Beside(coordinator, coordinator', {"frames"}),
           \A q \in Region \ {r} : coordinator'.frames[q] = coordinator.frames[q]
    PROVE  StaysHomed
<1>1. /\ coordinator'.home = coordinator.home /\ coordinator'.rebalancing = coordinator.rebalancing
      /\ coordinator'.registered = coordinator.registered /\ coordinator'.pending = coordinator.pending
  BY DEF Beside, Fields
<1>2. Quiet(coordinator')
  BY <1>1 DEF Homed, Quiet
<1>3. \A q \in Region : regions'[q] = IF q = r THEN k ELSE regions[q]
  BY DEF Moves, Types
<1>4. ASSUME NEW q \in Region, q # r PROVE InStep(coordinator', regions'[q], q, left.starts)
  <2>1. regions'[q] = regions[q] /\ InStep(coordinator, regions[q], q, left.starts)
    BY <1>3, <1>4 DEF Homed
  <2>2. coordinator'.frames[q] = coordinator.frames[q]
    BY <1>4
  <2>3. InStep(coordinator', regions[q], q, left.starts)
    BY <1>1, <2>1, <2>2, SameLink
  <2> QED
    BY <2>1, <2>3
<1>5. InStep(coordinator', regions'[r], r, left.starts)
  <2>1. InStep(coordinator, regions[r], r, left.starts) /\ regions[r].running /\ k.running
    BY DEF Homed, Moves
  <2>2. Good(coordinator', k, r)
    BY <2>1 DEF InStep, Moves
  <2> QED
    BY <1>3, <2>1, <2>2 DEF InStep
<1> QED
  BY <1>2, <1>4, <1>5 DEF StaysHomed

LEMMA RegionHomed ==
    ASSUME Types, Homed, NEW r \in Region,
           \/ RegionReceives(r) /\ regions[r].running
           \/ MailArrives(r) /\ regions[r].running
           \/ Send(r) \/ ShardTurn(r) \/ EntitiesStop(r) \/ ShardStops(r) \/ ShardTerminated(r)
           \/ PassivationDeclined(r) \/ OnShardRespawnTick(r) \/ PassivateShard(r)
           \/ RegisterRetry(r) \/ SendRegionHeartbeat(r) \/ ClusterEvent(r)
    PROVE  StaysHomed
<1>1. PICK k : Moves(r, k)
  <2>1. CASE ClusterEvent(r)
    BY <2>1, EventMoves DEF Homed
  <2>2. CASE ~ClusterEvent(r)
    BY <2>2, RegionMoves
  <2> QED
    BY <2>1, <2>2
<1>2. /\ Beside(coordinator, coordinator', {"frames"})
      /\ \A q \in Region \ {r} : coordinator'.frames[q] = coordinator.frames[q]
  <2>1. CASE RegionReceives(r)
    <3> DEFINE s == coordinator.frames[r]
    <3>1. s # <<>> /\ coordinator' = [coordinator EXCEPT !.frames[r] = Tail(s)]
      BY <2>1 DEF RegionReceives
    <3>2. Typed(coordinator) /\ s \in Seq(CoordinatorFrame)
      BY DEF Types, Typed, ACoordinator
    <3>3. Tail(s) \in Seq(CoordinatorFrame)
      BY <3>1, <3>2, TailIndex
    <3> QED
      BY <3>1, <3>2, <3>3, LinkEffect
  <2>2. CASE ~RegionReceives(r)
    <3>1. coordinator' = coordinator
      BY <2>2 DEF MailArrives, Send, ShardTurn, EntitiesStop, ShardStops, ShardTerminated,
         PassivationDeclined, OnShardRespawnTick, PassivateShard, RegisterRetry,
         SendRegionHeartbeat, ClusterEvent
    <3> QED
      BY <3>1 DEF Beside
  <2> QED
    BY <2>1, <2>2
<1> QED
  BY <1>1, <1>2, MovesHomed

\* A frame that is lost, or that reaches no region.
LEMMA LostHomed ==
    ASSUME Types, Homed, SoundScenario(scenario), NEW r \in Region,
           \/ FrameLost(r)
           \/ RegionReceives(r) /\ ~regions[r].running
    PROVE  StaysHomed
<1> DEFINE s == coordinator.frames[r]
           n == left.starts
<1>1. s # <<>> /\ coordinator' = [coordinator EXCEPT !.frames[r] = Tail(s)]
  BY DEF FrameLost, RegionReceives
<1>2. regions' = regions
  <2>1. CASE FrameLost(r)
    BY <2>1 DEF FrameLost
  <2>2. CASE RegionReceives(r) /\ ~regions[r].running
    <3>1. regions' = [regions EXCEPT ![r] = RouteMessages(regions[r], 0)]
      BY <2>2 DEF RegionReceives, Becomes, Keeps
    <3>2. RouteMessages(regions[r], 0) = regions[r]
      BY DEF RouteMessages
    <3> QED
      BY <3>1, <3>2 DEF Types
  <2> QED
    BY <2>1, <2>2
<1>3. Typed(coordinator) /\ s \in Seq(CoordinatorFrame)
  BY DEF Types, Typed, ACoordinator
<1>4. Tail(s) \in Seq(CoordinatorFrame)
  BY <1>1, <1>3, TailIndex
<1>5. /\ Beside(coordinator, coordinator', {"frames"}) /\ coordinator'.frames[r] = Tail(s)
      /\ \A q \in Region \ {r} : coordinator'.frames[q] = coordinator.frames[q]
  BY <1>1, <1>3, <1>4, LinkEffect
<1>6. /\ coordinator'.home = coordinator.home /\ coordinator'.rebalancing = coordinator.rebalancing
      /\ coordinator'.registered = coordinator.registered /\ coordinator'.pending = coordinator.pending
  BY <1>5 DEF Beside, Fields
<1>7. Quiet(coordinator')
  BY <1>6 DEF Homed, Quiet
<1>8. ASSUME NEW q \in Region, q # r PROVE InStep(coordinator', regions[q], q, n)
  <2>1. InStep(coordinator, regions[q], q, n) /\ coordinator'.frames[q] = coordinator.frames[q]
    BY <1>5, <1>8 DEF Homed
  <2> QED
    BY <1>6, <2>1, SameLink
<1>9. InStep(coordinator', regions[r], r, n)
  <2>1. InStep(coordinator, regions[r], r, n)
    BY DEF Homed
  <2>2. ASSUME regions[r].running PROVE Good(coordinator', regions[r], r)
    <3>1. Head(s).kind \in scenario.losable
      BY <2>2 DEF FrameLost
    <3>2. Head(s).kind # "HandOff"
      BY <3>1 DEF SoundScenario
    <3>3. Taken(coordinator, coordinator', r)
      BY <1>1, <1>3, <1>5, <1>6 DEF Taken
    <3>4. Good(coordinator, regions[r], r)
      BY <2>1, <2>2 DEF InStep
    <3> QED
      BY <3>2, <3>3, <3>4, TakenGood
  <2>3. ASSUME ~regions[r].running, n > 0 PROVE FALSE
    BY <1>1, <2>1, <2>3 DEF InStep
  <2> QED
    BY <2>2, <2>3 DEF InStep
<1> QED
  BY <1>2, <1>7, <1>8, <1>9 DEF StaysHomed

LEMMA CoordinatorHomed ==
    ASSUME Types, Homed, Placed(coordinator), NEW r \in Region, CoordinatorReceives(r), ~coordinator'.crossed
    PROVE  StaysHomed
<1> DEFINE g == regions[r]
           k == [g EXCEPT !.frames = Tail(@)]
           n == left.starts
<1>1. /\ g.frames # <<>> /\ coordinator' \in DispatchShardingMessage(coordinator, r, Head(g.frames))
      /\ regions' = [regions EXCEPT ![r] = k]
  BY DEF CoordinatorReceives, Types
<1>2. /\ Typed(coordinator) /\ Quiet(coordinator) /\ Fine(r, g)
      /\ \A q \in Region : InStep(coordinator, regions[q], q, n)
  BY DEF Types, Homed
<1>3. Quiet(coordinator')
  BY <1>1, <1>2, DispatchInStep
<1>4. InStep(coordinator', k, r, n)
  BY <1>1, <1>2, DispatchInStep
<1>5. ASSUME NEW q \in Region, q # r PROVE InStep(coordinator', regions[q], q, n)
  <2>1. q \in Region \ {r} /\ InStep(coordinator, regions[q], q, n) /\ InStep(coordinator, g, r, n)
    BY <1>2, <1>5
  <2> QED
    BY <1>1, <1>2, <2>1, DispatchInStep
<1> HIDE DEF k
<1>6. \A q \in Region : regions'[q] = IF q = r THEN k ELSE regions[q]
  BY <1>1 DEF Types
<1> QED
  BY <1>3, <1>4, <1>5, <1>6 DEF StaysHomed

\* The tick evicts no running region, and begins at most one hand-off.
LEMMA TickHomed ==
    ASSUME Types, Homed, Placed(coordinator), NEW swept \in SUBSET Region, NEW move \in BOOLEAN,
           RebalanceTick(swept, move)
    PROVE  StaysHomed
<1> DEFINE n == left.starts
           Agreed(c) == Typed(c) /\ Quiet(c) /\ \A q \in Region : InStep(c, regions[q], q, n)
<1>1. PICK c \in IF swept = {} THEN {coordinator}
                 ELSE UNION {SweepStaleRegion(coordinator, r) : r \in swept} :
          /\ move => Movable(c)
          /\ coordinator' = IF move THEN BeginHandOff(c) ELSE c
  BY DEF RebalanceTick
<1>2. regions' = regions
  BY DEF RebalanceTick
<1>3. Agreed(coordinator)
  BY DEF Types, Homed
<1>4. \A r \in swept : ~regions[r].running
  <2> DEFINE false == {r \in swept : regions[r].running}
  <2>1. left.evictions = 0 /\ left.evictions >= Cardinality(false)
    BY DEF Homed, RebalanceTick
  <2>2. IsFiniteSet(false)
    BY ShardingConstants, FS_Subset
  <2>3. Cardinality(false) = 0
    BY <2>1, <2>2, FS_CardinalityType
  <2>4. false = {}
    BY <2>2, <2>3, FS_EmptySet
  <2> QED
    BY <2>4
<1>5. Agreed(c)
  <2>1. CASE swept = {}
    BY <1>1, <1>3, <2>1
  <2>2. CASE swept # {}
    <3>1. PICK r \in swept : c \in SweepStaleRegion(coordinator, r)
      BY <1>1, <2>2
    <3>2. PICK after \in OnRegionTerminated(coordinator, r) : c = ToRegion(after, r, "RegionEvicted")
      BY <3>1 DEF SweepStaleRegion
    <3>3. r \in Region /\ ~regions[r].running /\ r \in coordinator.registered
      BY <1>4, <2>2 DEF RebalanceTick, Sweepable
    <3>4. Typed(after)
      BY <1>3, <3>3, OnRegionTerminatedGrows DEF Grows
    <3>5. Quiet(after)
      BY <1>3, <3>3, OnRegionTerminatedInStep
    <3>6. ASSUME NEW q \in Region PROVE InStep(after, regions[q], q, n)
      <4>1. InStep(coordinator, regions[q], q, n) /\ (q = r => ~regions[q].running)
        BY <1>3, <3>3
      <4> QED
        BY <1>3, <3>3, <4>1, OnRegionTerminatedInStep
    <3>7. ~(n > 0)
      BY <1>3, <3>3 DEF InStep
    <3>8. "RegionEvicted" \in CoordinatorKinds
      BY DEF CoordinatorKinds
    <3>9. Typed(c)
      BY <3>2, <3>3, <3>4, <3>8, TellGrows DEF Grows
    <3>10. Quiet(c)
      <4>1. Beside(after, c, {"frames"})
        BY <3>2, <3>3, <3>4, <3>8, TellEffect
      <4>2. c.home = after.home /\ c.pending = after.pending
        BY <4>1 DEF Beside, Fields
      <4> QED
        BY <3>5, <4>2 DEF Quiet
    <3>11. ASSUME NEW q \in Region PROVE InStep(c, regions[q], q, n)
      <4>1. InStep(after, regions[q], q, n) /\ (q = r => ~regions[q].running)
        BY <3>3, <3>6
      <4> QED
        BY <3>2, <3>3, <3>4, <3>7, <3>8, <4>1, TellInStep
    <3> QED
      BY <3>9, <3>10, <3>11
  <2> QED
    BY <2>1, <2>2
<1>6. ASSUME move PROVE Quiet(BeginHandOff(c)) /\ \A q \in Region : InStep(BeginHandOff(c), regions[q], q, n)
  BY <1>1, <1>5, <1>6, BeginHandOffInStep
<1> QED
  BY <1>1, <1>2, <1>5, <1>6 DEF StaysHomed

\* The hand-off timer finds no answer on its way: the region has given the shard up.
LEMMA TimeoutHomed ==
    ASSUME Types, Homed, Placed(coordinator), OnHandOffTimeout PROVE StaysHomed
<1> DEFINE p == coordinator.rebalancing
           n == left.starts
           released == [ReleaseFromPreviousOwner(coordinator) EXCEPT !.rebalancing = None]
<1>1. /\ p # None /\ coordinator' \in TryAllocate(released) /\ regions' = regions
      /\ ~AnswerComing(p)
  <2>1. AnswerComing(p) => Spend("timeouts")
    BY DEF OnHandOffTimeout
  <2>2. ~Spend("timeouts")
    BY DEF Spend, Homed
  <2> QED
    BY <2>1, <2>2 DEF OnHandOffTimeout
<1>2. Typed(coordinator)
  BY DEF Types
<1>3. ASSUME NEW q \in Region, q = p, regions[q].running
      PROVE  ~Hosting(coordinator, regions[q], q) /\ ~Has(coordinator.frames[q], "HandOff")
                /\ ~Has(regions[q].frames, "HandOffComplete")
  <2>1. Good(coordinator, regions[q], q)
    BY <1>3 DEF Homed, InStep
  <2>2. ~Has(coordinator.frames[q], "HandOff") /\ ~Has(regions[q].frames, "HandOffComplete")
    BY <1>1, <1>3 DEF AnswerComing, Has
  <2>3. ~regions[q].handingOff
    BY <1>1, <1>3, <2>1 DEF AnswerComing, Good
  <2>4. ~Hosting(coordinator, regions[q], q)
    BY <1>3, <2>1, <2>2, <2>3 DEF Good
  <2> QED
    BY <2>2, <2>4
<1>4. Quiet(coordinator')
  BY <1>1, <1>2, ReleaseInStep
<1>5. ASSUME NEW q \in Region PROVE InStep(coordinator', regions[q], q, n)
  <2>1. InStep(coordinator, regions[q], q, n)
    BY DEF Homed
  <2> QED
    BY <1>1, <1>2, <1>3, <2>1, ReleaseInStep
<1> QED
  BY <1>1, <1>4, <1>5 DEF StaysHomed

\* One region changes by itself.
LEMMA AloneHomed ==
    ASSUME Types, Homed, NEW r \in Region, NEW k, coordinator' = coordinator,
           regions' = [regions EXCEPT ![r] = k], InStep(coordinator, k, r, left.starts)
    PROVE  StaysHomed
<1>1. \A q \in Region : regions'[q] = IF q = r THEN k ELSE regions[q]
  BY DEF Types
<1> QED
  BY <1>1 DEF Homed, StaysHomed

LEMMA StartGood ==
    ASSUME Types, Homed, NEW r \in Region, Start(r)
    PROVE  LET k == EnsureRegistered([Absent EXCEPT !.running = TRUE, !.frames = regions[r].frames])
           IN  Good(coordinator, k, r) /\ Settled(k)
<1> DEFINE g == regions[r]
           b == [Absent EXCEPT !.running = TRUE, !.frames = g.frames]
           k == EnsureRegistered(b)
<1>1. ~g.running /\ left.starts > 0
  BY DEF Start, Spend
<1>2. coordinator.frames[r] = <<>> /\ g.frames = <<>>
  BY <1>1 DEF Homed, InStep
<1>3. <<>> \in Seq({"message", "passivate"}) /\ <<>> \in Seq(RegionFrame)
  OBVIOUS
<1>4. /\ b \in ARegion /\ b.local = FALSE /\ b.actor = "none" /\ b.frames = <<>> /\ b.running = TRUE
      /\ b.releasing = FALSE /\ b.handingOff = FALSE /\ b.passivating = FALSE /\ b.declined = FALSE
      /\ b.queue = <<>>
  BY <1>2, <1>3, NoneIsHome DEF Absent, ARegion
<1> HIDE DEF b
<1>5. 1..Len(b.frames) = {} /\ 1..Len(b.queue) = {}
  BY <1>4
<1>6. Fine(r, b) /\ Settled(b)
  BY <1>4, <1>5 DEF Fine, Hosts, Settled
<1>7. Good(coordinator, b, r)
  BY <1>2, <1>4, FreshGood
<1>8. Good(coordinator, k, r) /\ Settled(k)
  BY <1>6, <1>7, EnsureRegisteredKept DEF Kept
<1> QED
  BY <1>8 DEF b

LEMMA StartHomed == ASSUME Types, Homed, NEW r \in Region, Start(r) PROVE StaysHomed
<1> DEFINE k == EnsureRegistered([Absent EXCEPT !.running = TRUE, !.frames = regions[r].frames])
<1>1. regions' = [regions EXCEPT ![r] = k] /\ coordinator' = coordinator
  BY DEF Start
<1>2. k.running
  BY StartFine DEF Types
<1>3. Good(coordinator, k, r)
  BY StartGood
<1> HIDE DEF k
<1>4. InStep(coordinator, k, r, left.starts)
  BY <1>2, <1>3 DEF InStep
<1> QED
  BY <1>1, <1>4, AloneHomed

LEMMA StopHomed == ASSUME Types, Homed, NEW r \in Region, Stop(r) PROVE StaysHomed
<1> DEFINE b == [Absent EXCEPT !.frames = regions[r].frames]
           k(told) == IF told THEN ToCoordinator(b, "RegionTerminated") ELSE b
<1>1. PICK told \in BOOLEAN : regions' = [regions EXCEPT ![r] = k(told)]
  BY DEF Stop
<1>2. ~k(told).running
  BY StopFine DEF Types
<1> HIDE DEF k
<1>3. left.starts = 0
  BY DEF Stop, Spend, Homed
<1>4. InStep(coordinator, k(told), r, left.starts)
  BY <1>2, <1>3 DEF InStep
<1>5. coordinator' = coordinator
  BY DEF Stop
<1> QED
  BY <1>1, <1>4, <1>5, AloneHomed

LEMMA FailHomed == ASSUME Types, Homed, NEW r \in Region, ShardFails(r) PROVE StaysHomed
<1> DEFINE g == regions[r]
           k == [g EXCEPT !.actor = "stopped", !.queue = <<>>, !.busy = FALSE]
<1>1. regions' = [regions EXCEPT ![r] = k] /\ coordinator' = coordinator /\ g.actor = "live"
  BY DEF ShardFails, Types
<1>2. Fine(r, g) /\ g.running
  BY <1>1 DEF Types, Dormant
<1>3. Fine(r, k) /\ k.running = g.running /\ (Good(coordinator, g, r) => Good(coordinator, k, r))
  BY <1>1, <1>2, ShardFailsGood
<1> HIDE DEF k
<1>4. InStep(coordinator, g, r, left.starts)
  BY DEF Homed
<1>5. InStep(coordinator, k, r, left.starts)
  BY <1>2, <1>3, <1>4 DEF InStep
<1> QED
  BY <1>1, <1>5, AloneHomed

LEMMA HomedStep ==
    ASSUME Types, Placed(coordinator), Homed, SoundScenario(scenario), [Next]_vars, ~coordinator'.crossed
    PROVE  Homed'
<1>1. StaysHomed
  <2>1. ASSUME coordinator' = coordinator, regions' = regions PROVE StaysHomed
    BY <2>1 DEF Homed, StaysHomed
  <2>2. ASSUME NEW r \in Region, Suspect(r) \/ Return(r) \/ (MailArrives(r) /\ ~regions[r].running)
        PROVE  coordinator' = coordinator /\ regions' = regions
    BY <2>2 DEF Suspect, Return, MailArrives
  <2>3. ASSUME UNCHANGED vars PROVE coordinator' = coordinator /\ regions' = regions
    BY <2>3 DEF vars
  <2>4. ASSUME NEW r \in Region, Remove(r) PROVE FALSE
    BY <2>4 DEF Remove, Spend, Homed
  <2> QED
    BY <2>1, <2>2, <2>3, <2>4, RegionHomed, LostHomed, CoordinatorHomed, TickHomed, TimeoutHomed,
       StartHomed, StopHomed, FailHomed DEF Next
<1>2. left \in [Budgets -> Nat] /\ left' \in [Budgets -> Nat] /\ \A b \in Budgets : left'[b] <= left[b]
  BY LeftStep DEF Types
<1>3. \A b \in {"timeouts", "evictions", "removals", "starts", "stops"} : b \in Budgets
  BY DEF Budgets
<1>4. /\ left'.timeouts = 0 /\ left'.evictions = 0 /\ left'.removals = 0
      /\ left'.starts = 0 \/ left'.stops = 0
      /\ left'.starts > 0 => left.starts > 0
  <2>1. \A b \in Budgets : left[b] = 0 => left'[b] = 0
    BY <1>2
  <2>2. left'.starts \in Nat /\ left.starts \in Nat
    BY <1>2, <1>3
  <2> QED
    BY <1>3, <2>1, <2>2 DEF Homed
<1>5. ASSUME NEW q \in Region PROVE notices'[q] \subseteq {"up"}
  <2>1. notices[q] \subseteq {"up"}
    BY DEF Homed
  <2>2. \A r \in Region : ~Remove(r)
    BY DEF Remove, Spend, Homed
  <2>3. notices'[q] \subseteq notices[q] \cup {"up"}
    BY <2>2, NoticesStep
  <2> QED
    BY <2>1, <2>3
<1>6. ASSUME NEW q \in Region PROVE InStep(coordinator', regions'[q], q, left'.starts)
  BY <1>1, <1>4 DEF StaysHomed, InStep
<1> QED
  BY <1>1, <1>4, <1>5, <1>6 DEF Homed, StaysHomed

-----------------------------------------------------------------------------
(* Delayed, not dropped *)

\* Nothing was dropped, and no shard actor is on its way out unnoticed.
Delayed ==
    /\ left.failures = 0 /\ dropped = 0
    /\ \A r \in Region : regions[r].running => Settled(regions[r])

LEMMA DelayedInit == ASSUME Init, scenario.budget.failures = 0 PROVE Delayed
<1>1. left.failures = 0 /\ dropped = 0
  BY DEF Init
<1>2. ASSUME NEW r \in Region PROVE Settled(regions[r])
  <2> DEFINE g == [Absent EXCEPT !.running = r \in scenario.running]
  <2>1. regions[r] = g
    BY <1>2 DEF Init
  <2>2. /\ g.actor = "none" /\ g.handingOff = FALSE /\ g.passivating = FALSE /\ g.declined = FALSE
        /\ g.queue = <<>>
    BY DEF Absent
  <2> HIDE DEF g
  <2>3. 1..Len(g.queue) = {}
    BY <2>2
  <2> QED
    BY <2>1, <2>2, <2>3 DEF Settled
<1> QED
  BY <1>1, <1>2 DEF Delayed

LEMMA DelayedStep ==
    ASSUME Types, Placed(coordinator), Homed, Delayed, [Next]_vars PROVE Delayed'
<1>0. regions \in [Region -> ARegion]
  BY DEF Types
<1>1. left'.failures = 0
  <2>1. "failures" \in Budgets
    BY DEF Budgets
  <2>2. left["failures"] \in Nat /\ left'["failures"] \in Nat /\ left'["failures"] <= left["failures"]
    BY <2>1, LeftStep DEF Types
  <2> QED
    BY <2>2 DEF Delayed
<1> DEFINE Still == dropped' = 0 /\ \A q \in Region : regions'[q].running => Settled(regions'[q])
<1>2. ASSUME NEW r \in Region, NEW k, regions' = [regions EXCEPT ![r] = k], dropped' = 0, k.running => Settled(k)
      PROVE  Still
  <2>1. \A q \in Region : regions'[q] = IF q = r THEN k ELSE regions[q]
    BY <1>0, <1>2
  <2> QED
    BY <1>2, <2>1 DEF Delayed
<1>3. ASSUME regions' = regions, dropped' = dropped PROVE Still
  BY <1>3 DEF Delayed
<1> HIDE DEF Still
<1>4. ASSUME NEW r \in Region, NEW k, Moves(r, k) PROVE Still
  <2>1. regions[r].running /\ regions' = [regions EXCEPT ![r] = k]
    BY <1>4 DEF Moves
  <2>2. Good(coordinator, regions[r], r) /\ Settled(regions[r]) /\ dropped = 0
    BY <2>1 DEF Homed, InStep, Delayed
  <2>3. Settled(k) /\ dropped' = 0
    BY <1>4, <2>2 DEF Moves
  <2> QED
    BY <1>2, <2>1, <2>3
<1>5. ASSUME NEW r \in Region, CoordinatorReceives(r) PROVE Still
  <2> DEFINE g == regions[r]
             k == [g EXCEPT !.frames = Tail(@)]
  <2>1. g.frames # <<>> /\ regions' = [regions EXCEPT ![r] = k] /\ dropped' = dropped
    BY <1>0, <1>5 DEF CoordinatorReceives
  <2>2. Fine(r, g) /\ InStep(coordinator, g, r, left.starts)
    BY DEF Types, Homed
  <2>3. k.running = g.running /\ (Settled(g) => Settled(k))
    BY <2>1, <2>2, TookInStep
  <2> HIDE DEF k
  <2>4. k.running => Settled(k)
    BY <2>3 DEF Delayed
  <2>5. dropped' = 0
    BY <2>1 DEF Delayed
  <2> QED
    BY <1>2, <2>1, <2>4, <2>5
<1>6. ASSUME NEW r \in Region, Start(r) PROVE Still
  <2> DEFINE k == EnsureRegistered([Absent EXCEPT !.running = TRUE, !.frames = regions[r].frames])
  <2>1. regions' = [regions EXCEPT ![r] = k] /\ dropped' = 0
    BY <1>6 DEF Start, Delayed
  <2>2. Settled(k)
    BY <1>6, StartGood
  <2> HIDE DEF k
  <2> QED
    BY <1>2, <2>1, <2>2
<1>7. ASSUME NEW r \in Region, Stop(r) PROVE Still
  <2> DEFINE b == [Absent EXCEPT !.frames = regions[r].frames]
             k(told) == IF told THEN ToCoordinator(b, "RegionTerminated") ELSE b
  <2>1. PICK told \in BOOLEAN : regions' = [regions EXCEPT ![r] = k(told)]
    BY <1>7 DEF Stop
  <2>2. ~k(told).running
    BY StopFine DEF Types
  <2>3. dropped' = 0
    BY <1>7 DEF Stop, Delayed
  <2> HIDE DEF k
  <2> QED
    BY <1>2, <2>1, <2>2, <2>3
<1>8. ASSUME NEW r \in Region, ShardFails(r) PROVE FALSE
  BY <1>8 DEF ShardFails, Spend, Delayed
<1>9. ASSUME NEW r \in Region, (RegionReceives(r) \/ MailArrives(r)) /\ ~regions[r].running PROVE Still
  <2>1. CASE MailArrives(r)
    BY <1>3, <1>9, <2>1 DEF MailArrives
  <2>2. CASE RegionReceives(r)
    <3> DEFINE k == RouteMessages(regions[r], 0)
    <3>1. regions' = [regions EXCEPT ![r] = k] /\ dropped' = dropped + DroppedBy(regions[r], 0)
      BY <1>9, <2>2 DEF RegionReceives, Becomes, Keeps
    <3>2. k = regions[r] /\ DroppedBy(regions[r], 0) = 0
      BY DEF RouteMessages, DroppedBy
    <3>3. dropped' = 0
      BY <3>1, <3>2 DEF Delayed
    <3> QED
      BY <1>2, <1>9, <3>1, <3>2, <3>3
  <2> QED
    BY <1>9, <2>1, <2>2
<1>10. ASSUME NEW r \in Region, ClusterEvent(r) PROVE Still
  BY <1>4, <1>10, EventMoves DEF Homed
<1>11. ASSUME \/ \E r \in Region : FrameLost(r) \/ Suspect(r) \/ Remove(r) \/ Return(r)
              \/ \E swept \in SUBSET Region, move \in BOOLEAN : RebalanceTick(swept, move)
              \/ OnHandOffTimeout
              \/ UNCHANGED vars
       PROVE  regions' = regions /\ dropped' = dropped
  BY <1>11 DEF FrameLost, Suspect, Remove, Return, RebalanceTick, OnHandOffTimeout, vars
<1>12. Still
  BY <1>3, <1>4, <1>5, <1>6, <1>7, <1>8, <1>9, <1>10, <1>11, RegionMoves DEF Next
<1> QED
  BY <1>1, <1>12 DEF Still, Delayed

-----------------------------------------------------------------------------
(* The theorems *)

HomesInv == Orderly /\ ~coordinator.crossed => Homed
DelayInv == Orderly /\ ~coordinator.crossed /\ scenario.budget.failures = 0 => Delayed
Inv == Types /\ Placed(coordinator) /\ HomesInv /\ DelayInv

\* In step, only the coordinator's home runs the shard.
LEMMA HomedOneCopy == ASSUME Types, Homed PROVE Cardinality(Copies) <= 1
<1> DEFINE h == coordinator.home
<1>1. ASSUME NEW r \in Copies PROVE r = h
  <2>1. r \in Region /\ regions[r].actor # "none"
    BY <1>1 DEF Copies
  <2>2. regions[r].running
    BY <2>1 DEF Types, Dormant
  <2>3. Good(coordinator, regions[r], r)
    BY <2>1, <2>2 DEF Homed, InStep
  <2> QED
    BY <2>1, <2>3 DEF Good, Hosting
<1>2. IsFiniteSet({h}) /\ Cardinality({h}) = 1
  BY FS_Singleton
<1>3. Copies \subseteq {h}
  BY <1>1
<1> HIDE DEF h
<1>4. Cardinality(Copies) <= Cardinality({h})
  BY <1>2, <1>3, FS_Subset
<1> QED
  BY <1>2, <1>4

LEMMA InvInductive ==
    ASSUME \A s \in Scenarios : SoundScenario(s)
    PROVE  (Init => Inv) /\ (Inv /\ [Next]_vars => Inv')
<1>1. Init => Inv
  <2> SUFFICES ASSUME Init PROVE Inv
    OBVIOUS
  <2>1. SoundScenario(scenario)
    BY DEF Init
  <2>2. HomesInv
    BY <2>1, HomedInit DEF HomesInv
  <2>3. DelayInv
    BY DelayedInit DEF DelayInv
  <2> QED
    BY <2>2, <2>3, TypesInit, PlacedInit DEF Inv
<1>2. Inv /\ [Next]_vars => Inv'
  <2> SUFFICES ASSUME Inv, [Next]_vars PROVE Inv'
    OBVIOUS
  <2>1. Types /\ Placed(coordinator) /\ HomesInv /\ DelayInv
    BY DEF Inv
  <2>2. Types' /\ Placed(coordinator)'
    BY <2>1, TypesStep, PlacedStep
  <2>3. scenario' = scenario /\ SoundScenario(scenario)
    BY <2>1, LeftStep DEF Types
  <2>4. ~coordinator'.crossed => ~coordinator.crossed
    BY <2>1, CoordinatorGrows DEF Grows
  <2>5. HomesInv'
    BY <2>1, <2>3, <2>4, HomedStep DEF HomesInv, Orderly
  <2>6. DelayInv'
    BY <2>1, <2>3, <2>4, DelayedStep DEF HomesInv, DelayInv, Orderly
  <2> QED
    BY <2>2, <2>5, <2>6 DEF Inv
<1> QED
  BY <1>1, <1>2

\* Through rebalances, passivations, failures, stops and starts of regions, at most
\* one region runs the shard, a stopping one included, as long as no region that is
\* giving the shard up was answered that it is the home (beginHandOff, onHandOff,
\* completeHandOff, onHandOffComplete): for any number of regions, messages and
\* moves, where HandOffs arrive and no region starts after another stopped.
THEOREM ShardHasOneHome ==
    ASSUME \A s \in Scenarios : SoundScenario(s)
    PROVE  Spec => []OneHome
<1>1. Inv => OneHome
  BY HomedOneCopy DEF Inv, HomesInv, OneHome
<1> QED
  BY <1>1, InvInductive, PTL DEF Spec

\* What is sent while the shard moves or passivates is buffered and routed again,
\* never told to a shard actor on its way out (route, onShardHome, handleShardTerminated).
THEOREM MovesDropNothing ==
    ASSUME \A s \in Scenarios : SoundScenario(s)
    PROVE  Spec => []DelayedNotDropped
<1>1. Inv => DelayedNotDropped
  BY DEF Inv, DelayInv, DelayedNotDropped, Delayed
<1> QED
  BY <1>1, InvInductive, PTL DEF Spec
=============================================================================
