------------------------------ MODULE Membership ------------------------------
(* Cluster membership (src/src/cluster/Cluster.ts): every node keeps a map from *)
(* address to member record and spreads it by gossip; a record wins by its      *)
(* version.  Nodes join through a seed, leave, crash, restart, and are          *)
(* suspected by a failure detector.                                             *)
(*                                                                              *)
(* Versions are seeded from the wall clock, in milliseconds, which outruns the  *)
(* steps by one that status changes take: a run starts in an epoch of its own,  *)
(* above every version issued before.                                           *)
(* The frames of one sender to one receiver are numbered, and a frame that is   *)
(* overtaken is refused: each link holds its newest frame only.                 *)
EXTENDS Naturals, FiniteSets, FiniteSetsExt

CONSTANTS
    NumNodes,       \* nodes are 1..NumNodes in address order; 1 is everyone's seed
    None,           \* no record in the map, no frame on the link
    Epoch,          \* bound: fewer versions than this follow the first of a run
    MaxVersion,     \* bound: the highest version
    Scenarios       \* the deployments considered: options [hosts, minimum, weakly, autoDown],
                    \* the nodes up already, and the bounds: how many starts, losses, suspicions of a node
                    \* that runs, departures and crashes a behaviour has

\* A version rises five times at most in the life of a node: joining, weakly up,
\* up, unreachable, and twice into the tombstone.  Beyond that it takes a start, a
\* suspicion of a node that runs, or a leave frame, and an epoch has room for all.
ASSUME EpochAssumption ==
    /\ NumNodes \in Nat /\ Epoch \in Nat /\ MaxVersion \in Nat /\ 2 * Epoch <= MaxVersion
    /\ \A s \in Scenarios :
          /\ s.options.weakly \in BOOLEAN
          /\ s.budget \in [starts : Nat, losses : Nat, suspicions : Nat, leaves : Nat, crashes : Nat]
          /\ 6 + 2 * (s.budget.starts + s.budget.suspicions + NumNodes * s.budget.leaves) <= Epoch

Node == 1..NumNodes
Seed == 1

VARIABLES
    options,        \* the scenario's settings
    budget,         \* what remains of its bounds
    node,           \* Cluster's fields: running, held self-election, weakly-up timer
    view,           \* Cluster.members
    link,           \* gossip frames under way
    leaves          \* leave frames under way: <<from, to>>

vars == <<options, budget, node, view, link, leaves>>

Status == {"joining", "weakly-up", "up", "unreachable", "leaving", "down", "removed"}
Record == [status : Status, version : 1..MaxVersion]
Empty == [m \in Node |-> None]
Stopped == [running |-> FALSE, held |-> FALSE, weaklyTimer |-> FALSE]

\* The nodes of the scenario that have formed a cluster already agree on it.
Init ==
    \E s \in Scenarios :
       LET settled == [m \in Node |-> IF m \in s.up THEN [status |-> "up", version |-> Epoch] ELSE None]
       IN  /\ options = s.options
           /\ budget = s.budget
           /\ node = [n \in Node |-> [Stopped EXCEPT !.running = n \in s.up]]
           /\ view = [n \in Node |-> IF n \in s.up THEN settled ELSE Empty]
           /\ link = [p \in Node \X Node |-> None]
           /\ leaves = {}

Running == {n \in Node : node[n].running}

Spend(what) == budget[what] > 0 /\ budget' = [budget EXCEPT ![what] = @ - 1]

-----------------------------------------------------------------------------
(* A map of members.                                                           *)

In(v, statuses) == {m \in Node : v[m] # None /\ v[m].status \in statuses}

Reachable(v) == In(v, {"up", "weakly-up", "joining", "leaving"})

Leader(v) == IF In(v, {"up"}) = {} THEN 0 ELSE Min(In(v, {"up"}))

UpThresholdSatisfied(v) == Cardinality(In(v, {"joining", "weakly-up", "up"})) >= options.minimum

WithStatus(r, status) == [status |-> status, version |-> r.version + 1]

SetStatus(v, m, status) == [v EXCEPT ![m] = WithStatus(@, status)]

\* A member that goes through "down" or "leaving" into a tombstone.
Tombstoned(v, m) == [v EXCEPT ![m] = [status |-> "removed", version |-> @.version + 2]]

\* promoteJoiningMembers.
Promoted(n, v) ==
    IF Leader(v) = n /\ UpThresholdSatisfied(v)
    THEN [m \in Node |-> IF m \in In(v, {"joining", "weakly-up"}) THEN WithStatus(v[m], "up") ELSE v[m]]
    ELSE v

\* leaderActionsTick: a held self-election, then promotions.
ElectsItself(n, v, held) ==
    held /\ UpThresholdSatisfied(v) /\ v[n] # None /\ v[n].status \in {"joining", "weakly-up"}

LeaderActions(n, v, held) ==
    Promoted(n, IF ElectsItself(n, v, held) THEN SetStatus(v, n, "up") ELSE v)

StillHeld(v, held) == held /\ ~UpThresholdSatisfied(v)

-----------------------------------------------------------------------------
(* Merging a frame.                                                            *)

\* Mutant: an active member speaks for the node itself too (#562).
MaySpeakForAnyone(n, v, from, m, r) == m = from \/ from \in In(v, {"up", "weakly-up", "leaving"})

\* maySpeakFor: nobody but the node itself changes its record, except that it is
\* promoted; a third party is spoken for by an active member only.
MaySpeakFor(n, v, from, m, r) ==
    IF m = n
    THEN r.status = "up" /\ v[n] # None /\ v[n].status \in {"joining", "weakly-up"}
    ELSE m = from \/ from \in In(v, {"up", "weakly-up", "leaving"})

\* Mutant: a promotion that raced the member's own timer is dropped (#935).
PromotedAtEqualVersionNever(old, r) == FALSE

PromotedAtEqualVersion(old, r) ==
    r.version = old.version /\ old.status = "weakly-up" /\ r.status = "up"

Supersedes(old, r) == old = None \/ r.version > old.version \/ PromotedAtEqualVersion(old, r)

\* mergeMember for every record of a frame.  The sender's standing is read once,
\* before the first record is merged.
Merged(n, v, from, frame) ==
    [m \in Node |->
        IF frame[m] # None /\ MaySpeakFor(n, v, from, m, frame[m]) /\ Supersedes(v[m], frame[m])
        THEN frame[m] ELSE v[m]]

\* onGossip: a sender the frame did not introduce is entered as joining.
AfterGossip(n, v, from, frame) ==
    LET merged == Merged(n, v, from, frame)
    IN  IF merged[from] = None
        THEN [merged EXCEPT ![from] = [status |-> "joining", version |-> 1]]
        ELSE merged

-----------------------------------------------------------------------------
(* The life of a node.                                                         *)

\* Mutant: versions count from zero.
FreshVersionZero == 0

\* Date.now(): above every version in a map or on a link.
FreshVersion ==
    LET maps == ({view[n] : n \in Node} \cup {link[p] : p \in Node \X Node}) \ {None}
        records == (UNION {{v[m] : m \in Node} : v \in maps}) \ {None}
    IN  Epoch * (1 + Max({0} \cup {r.version : r \in records}) \div Epoch)

\* _start: the seed, having no seeds itself, elects itself or holds the election
\* back; any other node sends its own record to the seed.
Start(n) ==
    /\ n \in options.hosts \ Running
    /\ Spend("starts")
    /\ FreshVersion + Epoch <= MaxVersion + 1
    /\ LET alone == [Empty EXCEPT ![n] = [status |-> "joining", version |-> FreshVersion]]
           elected == n = Seed /\ UpThresholdSatisfied(alone)
       IN  /\ view' = [view EXCEPT ![n] = IF elected THEN SetStatus(alone, n, "up") ELSE alone]
           /\ node' = [node EXCEPT ![n] = [running |-> TRUE, held |-> n = Seed /\ ~elected,
                                           weaklyTimer |-> options.weakly]]
           /\ link' = IF n = Seed THEN link ELSE [link EXCEPT ![<<n, Seed>>] = alone]
    /\ UNCHANGED <<options, leaves>>

\* The seed timer: until the node is up, it sends its own record again.
ContactSeeds(n) ==
    /\ n \in Running \ {Seed}
    /\ view[n][n].status \in {"joining", "weakly-up"}
    /\ link' = [link EXCEPT ![<<n, Seed>>] = [Empty EXCEPT ![n] = view[n][n]]]
    /\ UNCHANGED <<options, budget, node, view, leaves>>

WeaklyUpTimerFires(n) ==
    /\ n \in Running /\ node[n].weaklyTimer
    /\ node' = [node EXCEPT ![n].weaklyTimer = FALSE]
    /\ view' = IF view[n][n].status = "joining"
               THEN [view EXCEPT ![n] = SetStatus(@, n, "weakly-up")] ELSE view
    /\ UNCHANGED <<options, budget, link, leaves>>

\* depart: the reachable peers are told, and the node is gone.
Leave(n) ==
    /\ n \in Running \ {Seed}
    /\ Spend("leaves")
    /\ leaves' = leaves \cup {<<n, m>> : m \in Reachable(view[n]) \ {n}}
    /\ node' = [node EXCEPT ![n] = Stopped]
    /\ view' = [view EXCEPT ![n] = Empty]
    /\ UNCHANGED <<options, link>>

Crash(n) ==
    /\ n \in Running \ {Seed}
    /\ Spend("crashes")
    /\ node' = [node EXCEPT ![n] = Stopped]
    /\ view' = [view EXCEPT ![n] = Empty]
    /\ UNCHANGED <<options, link, leaves>>

-----------------------------------------------------------------------------
(* Frames.                                                                     *)

\* gossipTick, for the target the node happens to pick.
GossipTick(i, j) ==
    /\ i \in Running /\ i # j
    /\ LET acted == LeaderActions(i, view[i], node[i].held)
       IN  /\ j \in Reachable(acted)
           /\ view' = [view EXCEPT ![i] = acted]
           /\ node' = [node EXCEPT ![i].held = StillHeld(view[i], @)]
           /\ link' = [link EXCEPT ![<<i, j>>] = acted]
    /\ UNCHANGED <<options, budget, leaves>>

GossipArrives(i, j) ==
    /\ link[<<i, j>>] # None
    /\ j \in Running
    /\ LET merged == AfterGossip(j, view[j], i, link[<<i, j>>])
       IN  /\ view' = [view EXCEPT ![j] = LeaderActions(j, merged, node[j].held)]
           /\ node' = [node EXCEPT ![j].held = StillHeld(merged, @)]
    /\ link' = [link EXCEPT ![<<i, j>>] = None]
    /\ UNCHANGED <<options, budget, leaves>>

\* A frame to a node that does not run is lost; another may be.
GossipLost(i, j) ==
    /\ link[<<i, j>>] # None
    /\ IF j \in Running THEN Spend("losses") ELSE UNCHANGED budget
    /\ link' = [link EXCEPT ![<<i, j>>] = None]
    /\ UNCHANGED <<options, node, view, leaves>>

\* heartbeatTick and onHeartbeat: the one frame that brings an unreachable
\* sender back.
Heartbeat(i, j) ==
    /\ {i, j} \subseteq Running /\ i # j
    /\ j \in Reachable(view[i])
    /\ i \in In(view[j], {"unreachable"})
    /\ view' = [view EXCEPT ![j] = SetStatus(@, i, "up")]
    /\ UNCHANGED <<options, budget, node, link, leaves>>

\* onLeave.
LeaveArrives(i, j) ==
    /\ <<i, j>> \in leaves
    /\ leaves' = leaves \ {<<i, j>>}
    /\ view' = IF j \in Running /\ view[j][i] # None
               THEN [view EXCEPT ![j] = Tombstoned(@, i)] ELSE view
    /\ UNCHANGED <<options, budget, node, link>>

LeaveLost(i, j) ==
    /\ <<i, j>> \in leaves
    /\ Spend("losses")
    /\ leaves' = leaves \ {<<i, j>>}
    /\ UNCHANGED <<options, node, view, link>>

-----------------------------------------------------------------------------
(* failureDetectionTick.  A node that does not run is always found silent; one  *)
(* that runs may be, for a while.                                              *)

Silent(m) == IF m \in Running THEN Spend("suspicions") ELSE UNCHANGED budget

\* A member that is up becomes unreachable; one on its way in or out does so
\* when the word of the detector alone may not remove it (holdForResolver).
Suspect(n, m) ==
    /\ n \in Running /\ n # m
    /\ m \in In(view[n], IF options.autoDown THEN {"up"}
                         ELSE {"joining", "weakly-up", "up", "leaving"})
    /\ Silent(m)
    /\ view' = [view EXCEPT ![n] = SetStatus(@, m, "unreachable")]
    /\ UNCHANGED <<options, node, link, leaves>>

\* auto-down: the record is deleted and leaves nothing behind.
AutoDown(n, m) ==
    /\ options.autoDown
    /\ n \in Running /\ n # m
    /\ m \in In(view[n], Status \ {"down", "removed"})
    /\ Silent(m)
    /\ view' = [view EXCEPT ![n][m] = None]
    /\ UNCHANGED <<options, node, link, leaves>>

\* applyDowningDecision, of a strategy that decides on members that are dead.
DownUnreachable(n, m) ==
    /\ ~options.autoDown
    /\ n \in Running /\ m \notin Running
    /\ m \in In(view[n], {"unreachable"})
    /\ view' = [view EXCEPT ![n] = Tombstoned(@, m)]
    /\ UNCHANGED <<options, budget, node, link, leaves>>

Next ==
    \/ \E n \in Node :
          Start(n) \/ ContactSeeds(n) \/ WeaklyUpTimerFires(n) \/ Leave(n) \/ Crash(n)
    \/ \E i, j \in Node :
          \/ GossipTick(i, j) \/ GossipArrives(i, j) \/ GossipLost(i, j) \/ Heartbeat(i, j)
          \/ LeaveArrives(i, j) \/ LeaveLost(i, j)
          \/ Suspect(i, j) \/ AutoDown(i, j) \/ DownUnreachable(i, j)

\* Timers keep firing and the transport keeps delivering: every target is picked
\* again and again, and a node that died is found silent.
Fairness ==
    /\ \A n \in Node \ {Seed} : WF_vars(ContactSeeds(n))
    /\ \A i, j \in Node : i # j => WF_vars(GossipTick(i, j)) /\ WF_vars(GossipArrives(i, j))
    /\ WF_vars(\E i, j \in Node : Heartbeat(i, j))
    /\ WF_vars(\E i, j \in Node : LeaveArrives(i, j))
    /\ WF_vars(\E i, j \in Node : j \notin Running /\ (Suspect(i, j) \/ AutoDown(i, j)))
    /\ WF_vars(\E i, j \in Node : DownUnreachable(i, j))

FairSpec == Init /\ [][Next]_vars /\ Fairness

-----------------------------------------------------------------------------

TypeOK ==
    /\ node \in [Node -> [running : BOOLEAN, held : BOOLEAN, weaklyTimer : BOOLEAN]]
    /\ view \in [Node -> [Node -> Record \cup {None}]]
    /\ link \in [Node \X Node -> [Node -> Record \cup {None}] \cup {None}]
    /\ leaves \subseteq Node \X Node

\* Nobody's word unseats a node from its own map: while a node runs, its own
\* record is there, and nothing but its leaving takes it back from up
\* (maySpeakFor, onLeave).
OwnRecordStands ==
    [][\A n \in Running : node'[n].running =>
         /\ view'[n][n] # None
         /\ view[n][n].status = "up" => view'[n][n] = view[n][n]]_vars

\* A leave frame that outlives its sender's restart tombstones the new run above
\* any version it will ever gossip (onLeave asks for no incarnation): it stays out
\* until it restarts, or for a day (the time to live of a tombstone).
Pinned(m) ==
    \E n \in Running : m \in In(view[n], {"removed"}) /\ view[n][m].version > view[m][m].version

\* Two nodes of which neither sends the other anything, after a suspicion: only a
\* heartbeat brings back a member held unreachable, and nothing brings together
\* two members that have deleted each other (failureDetectionTick, "Closing that
\* is #930").
OutOfTouch(n, m) ==
    /\ m \notin Reachable(view[n]) /\ n \notin Reachable(view[m])
    /\ \/ m \in In(view[n], {"unreachable"}) \/ n \in In(view[m], {"unreachable"})
       \/ options.autoDown /\ m \in In(view[m], {"up"}) /\ n \in In(view[n], {"up"})

\* The running nodes that n is to agree with in the end.
Peers(n) == {m \in Running : ~Pinned(m) /\ ~OutOfTouch(n, m)}

\* Two survivors that auto-down a dead member at different instants bring it back
\* to each other, again and again (failureDetectionTick, "comes back as
\* `unreachable` and is removed again").
Resurrects == options.autoDown /\ Cardinality(Running) > 1

\* Once faults stop, every running node comes to be up in every running node's
\* map, and no node that is gone is counted in any (gossip, heartbeats, seed
\* contact, promotion and downing together), but for the three cases above.
Converges ==
    <>[](Seed \in Running /\ (\A n \in Running : Cardinality(Peers(n)) >= options.minimum) =>
           \A n \in Running :
              /\ ~Pinned(n) => Peers(n) \subseteq In(view[n], {"up"})
              /\ ~Resurrects => In(view[n], Status \ {"down", "removed"}) \subseteq Running)
=============================================================================
