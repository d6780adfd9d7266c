------------------------------ MODULE MCSharding ------------------------------
(* Instances of Sharding for TLC.                                               *)
EXTENDS Sharding, TLC

Budget == [messages |-> 0, rebalances |-> 0, timeouts |-> 0, evictions |-> 0, losses |-> 0,
           stops |-> 0, starts |-> 0, suspicions |-> 0, removals |-> 0, passivations |-> 0,
           failures |-> 0]

CONSTANTS a, b, p

Led(leader, running, detection, losable, budget) ==
    [leader |-> leader, running |-> running, detection |-> detection, losable |-> losable,
     budget |-> budget @@ Budget]
Scenario(running, detection, losable, budget) == Led(a, running, detection, losable, budget)

MCScenarios ==
    {\* the shard passivates while a message, or a second registration, arrives
     Scenario({a}, FALSE, {}, [messages |-> 2, passivations |-> 1, suspicions |-> 1]),
     Scenario({a, b}, FALSE, {}, [messages |-> 1, passivations |-> 1, suspicions |-> 1]),
     \* the shard moves, passivates and fails while messages arrive
     Scenario({a, b}, FALSE, {}, [messages |-> 1, rebalances |-> 2, passivations |-> 1]),
     Scenario({a, b}, FALSE, {}, [messages |-> 2, rebalances |-> 1, passivations |-> 1]),
     Scenario({a, b}, FALSE, {}, [messages |-> 2, rebalances |-> 1, failures |-> 1]),
     \* one region stops, or one more starts
     Scenario({a, b}, FALSE, {}, [messages |-> 2, rebalances |-> 1, stops |-> 1]),
     Scenario({a}, FALSE, {}, [messages |-> 2, rebalances |-> 1, starts |-> 1]),
     \* the answer to a registration is lost
     Scenario({a}, FALSE, {"RegisterAcknowledgment"}, [messages |-> 1, starts |-> 1, losses |-> 1]),
     \* messages through a gateway's proxy region
     Scenario({a, p}, FALSE, {}, [messages |-> 2, rebalances |-> 1, passivations |-> 1]),
     \* a hand-off given up early
     Scenario({a, b}, FALSE, {}, [messages |-> 2, rebalances |-> 1, timeouts |-> 1]),
     Scenario({a, b}, FALSE, {}, [messages |-> 1, rebalances |-> 2, timeouts |-> 1]),
     \* a running region evicted, the notice lost
     Scenario({a, b}, TRUE, {"RegionEvicted"}, [messages |-> 1, evictions |-> 1, losses |-> 1]),
     \* a region gone without a word
     Scenario({a, b}, TRUE, {"RegionTerminated"}, [messages |-> 1, stops |-> 1]),
     \* a running node suspected, downed, and perhaps back
     Scenario({a, b}, FALSE, {}, [messages |-> 1, suspicions |-> 1, removals |-> 1]),
     \* the only node that can host is suspected
     Led(p, {a, p}, FALSE, {}, [messages |-> 2, suspicions |-> 1]),
     \* a full buffer
     Scenario({a}, FALSE, {}, [messages |-> 3])}

\* The scenarios are within reach of the proofs.
ASSUME SoundScenarios == \A s \in MCScenarios : SoundScenario(s)

\* One move of the shard, and two messages for it.
MCOneMove == {Scenario({a, b}, FALSE, {}, [messages |-> 2, rebalances |-> 1])}
=============================================================================
