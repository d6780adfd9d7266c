--------------------------- MODULE MembershipProofs ---------------------------
(* Nobody's word unseats a running node from its own map, for every number of   *)
(* nodes, every seed of versions and every budget of faults; and no version     *)
(* outgrows the bound the epochs set.                                           *)
EXTENDS Membership, FiniteSetTheorems, WellFoundedInduction, TLAPS

\* The absence of a record is not a record.
NoneIsNoRecord == \A status, version : None # [status |-> status, version |-> version]

\* A member map: an entry for every node.
IsMap(v) == v = [m \in Node |-> v[m]]

\* Cluster's fields.
IsNode(c) == c = [field \in {"running", "held", "weaklyTimer"} |-> c[field]]

\* Map w, next after map v of node n, has the node's own record, and the same one
\* if that was up.
KeepsOwn(n, v, w) ==
    /\ IsMap(w)
    /\ w[n] # None
    /\ v[n].status = "up" => w[n] = v[n]

(***************************************************************************)
(* A running node is in its own map.  No gossip frame and no leave frame   *)
(* is under way from a node to itself: one could overwrite the record.     *)
(***************************************************************************)
OwnInv ==
    /\ view = [n \in Node |-> view[n]]
    /\ \A n \in Node : IsMap(view[n])
    /\ node = [n \in Node |-> node[n]]
    /\ \A n \in Node : IsNode(node[n])
    /\ link = [p \in Node \X Node |-> link[p]]
    /\ \A n \in Node : node[n].running => view[n][n] # None
    /\ \A n \in Node : link[<<n, n>>] = None /\ <<n, n>> \notin leaves

-----------------------------------------------------------------------------
(* Cluster's fields *)

LEMMA RecordIsNode ==
    ASSUME NEW a, NEW b, NEW c
    PROVE  IsNode([running |-> a, held |-> b, weaklyTimer |-> c])
BY DEF IsNode

LEMMA FieldChanged ==
    ASSUME NEW c, IsNode(c), NEW x
    PROVE  /\ IsNode([c EXCEPT !.held = x]) /\ [c EXCEPT !.held = x].running = c.running
           /\ IsNode([c EXCEPT !.weaklyTimer = x]) /\ [c EXCEPT !.weaklyTimer = x].running = c.running
BY DEF IsNode

\* A node that gets other fields c, and runs as before.
LEMMA NodeChanged ==
    ASSUME OwnInv, NEW n \in Node, NEW c, node' = [node EXCEPT ![n] = c],
           IsNode(c), c.running = node[n].running
    PROVE  /\ node' = [m \in Node |-> node'[m]]
           /\ \A m \in Node : IsNode(node'[m]) /\ (node'[m].running <=> node[m].running)
<1>1. /\ node = [m \in Node |-> node[m]]
      /\ \A m \in Node : IsNode(node[m])
  BY DEF OwnInv
<1> QED BY <1>1

-----------------------------------------------------------------------------
(* What the operators on maps do to a node's own record *)

LEMMA SetStatusKeeps ==
    ASSUME NoneIsNoRecord, NEW n \in Node, NEW m \in Node, NEW v, IsMap(v), v[n] # None,
           NEW status, m = n => v[n].status # "up"
    PROVE  KeepsOwn(n, v, SetStatus(v, m, status))
BY DEF NoneIsNoRecord, IsMap, KeepsOwn, SetStatus, WithStatus

LEMMA PromotedKeeps ==
    ASSUME NoneIsNoRecord, NEW n \in Node, NEW v, IsMap(v), v[n] # None
    PROVE  KeepsOwn(n, v, Promoted(n, v))
BY DEF NoneIsNoRecord, IsMap, KeepsOwn, Promoted, WithStatus, In

LEMMA LeaderActionsKeep ==
    ASSUME NoneIsNoRecord, NEW n \in Node, NEW v, IsMap(v), v[n] # None, NEW held
    PROVE  KeepsOwn(n, v, LeaderActions(n, v, held))
<1> DEFINE w == IF ElectsItself(n, v, held) THEN SetStatus(v, n, "up") ELSE v
<1>1. KeepsOwn(n, v, w)
  <2>1. CASE ElectsItself(n, v, held)
    <3>1. v[n].status # "up"
      BY <2>1 DEF ElectsItself
    <3> QED BY <2>1, <3>1, SetStatusKeeps
  <2>2. CASE ~ElectsItself(n, v, held)
    BY <2>2 DEF KeepsOwn
  <2> QED BY <2>1, <2>2
<1>2. KeepsOwn(n, w, Promoted(n, w))
  <2>1. IsMap(w) /\ w[n] # None
    BY <1>1 DEF KeepsOwn
  <2> HIDE DEF w
  <2> QED BY <2>1, PromotedKeeps
<1>3. LeaderActions(n, v, held) = Promoted(n, w)
  BY DEF LeaderActions
<1> HIDE DEF w
<1> QED BY <1>1, <1>2, <1>3 DEF KeepsOwn

\* A frame from another node changes the record only by promoting it.
LEMMA AfterGossipKeeps ==
    ASSUME NoneIsNoRecord, NEW n \in Node, NEW v, IsMap(v), v[n] # None,
           NEW from \in Node, from # n, NEW frame
    PROVE  KeepsOwn(n, v, AfterGossip(n, v, from, frame))
<1> DEFINE merged == Merged(n, v, from, frame)
<1>1. KeepsOwn(n, v, merged)
  BY DEF KeepsOwn, IsMap, Merged, MaySpeakFor
<1> HIDE DEF merged
<1>2. AfterGossip(n, v, from, frame) =
        IF merged[from] = None THEN [merged EXCEPT ![from] = [status |-> "joining", version |-> 1]]
        ELSE merged
  BY DEF AfterGossip, merged
<1> QED BY <1>1, <1>2 DEF KeepsOwn, IsMap

-----------------------------------------------------------------------------
(* Every step *)

\* What a step leaves of the own record of a node that runs before and after it.
OwnStands ==
    \A n \in Running : node'[n].running =>
         /\ view'[n][n] # None
         /\ view[n][n].status = "up" => view'[n][n] = view[n][n]

\* A step that gives node n the map w, and leaves it and the others running.
LEMMA MapStep ==
    ASSUME OwnInv, NEW n \in Node, NEW w, view' = [view EXCEPT ![n] = w],
           KeepsOwn(n, view[n], w),
           node' = [m \in Node |-> node'[m]],
           \A m \in Node : IsNode(node'[m]) /\ (node'[m].running <=> node[m].running),
           link' = [p \in Node \X Node |-> link'[p]],
           \A m \in Node : link'[<<m, m>>] = None /\ <<m, m>> \notin leaves'
    PROVE  OwnInv' /\ OwnStands
<1>1. \A m \in Node : view'[m] = IF m = n THEN w ELSE view[m]
  BY DEF OwnInv
<1>2. view' = [m \in Node |-> view'[m]]
  BY DEF OwnInv
<1>3. \A m \in Node : IsMap(view'[m])
  BY <1>1 DEF OwnInv, KeepsOwn
<1>4. \A m \in Node : node'[m].running => view'[m][m] # None
  BY <1>1 DEF OwnInv, KeepsOwn
<1>5. OwnInv'
  BY <1>2, <1>3, <1>4 DEF OwnInv, IsMap
<1>6. OwnStands
  BY <1>1, <1>4 DEF OwnInv, OwnStands, Running, KeepsOwn
<1> QED BY <1>5, <1>6

\* The invariant holds in every scenario.
LEMMA OwnInvInit == ASSUME NoneIsNoRecord PROVE Init => OwnInv
<1> SUFFICES ASSUME NEW s \in Scenarios,
                    node = [n \in Node |-> [Stopped EXCEPT !.running = n \in s.up]],
                    view = [n \in Node |->
                              IF n \in s.up
                              THEN [m \in Node |-> IF m \in s.up THEN [status |-> "up",
                              version |-> Epoch]
                                                   ELSE None]
                              ELSE Empty],
                    link = [p \in Node \X Node |-> None],
                    leaves = {}
             PROVE  OwnInv
  BY DEF Init
<1>1. \A n \in Node : node[n] = [running |-> n \in s.up, held |-> FALSE, weaklyTimer |-> FALSE]
  BY Zenon DEF Stopped
<1>2. ASSUME NEW n \in Node PROVE IsNode(node[n]) /\ (node[n].running <=> n \in s.up)
  <2>1. IsNode(node[n])
    BY <1>1, Zenon DEF IsNode
  <2>2. node[n].running <=> n \in s.up
    BY <1>1, Zenon
  <2> QED BY <2>1, <2>2
<1> QED BY <1>2 DEF OwnInv, IsMap, Empty, NoneIsNoRecord

\* The steps in which a node starts or goes.
LEMMA LifeStep ==
    ASSUME NoneIsNoRecord, OwnInv, NEW n \in Node, Start(n) \/ Leave(n) \/ Crash(n)
    PROVE  OwnInv' /\ OwnStands
<1>1. CASE Start(n)
  <2> DEFINE alone == [Empty EXCEPT ![n] = [status |-> "joining", version |-> FreshVersion]]
             elected == n = Seed /\ UpThresholdSatisfied(alone)
             w == IF elected THEN SetStatus(alone, n, "up") ELSE alone
  <2>1. IsMap(w) /\ w[n] # None
    BY DEF IsMap, Empty, SetStatus, WithStatus, NoneIsNoRecord
  <2>2. /\ ~node[n].running
        /\ view' = [view EXCEPT ![n] = w]
        /\ node' = [node EXCEPT ![n] = [running |-> TRUE, held |-> n = Seed /\ ~elected,
                                        weaklyTimer |-> options.weakly]]
        /\ link' = IF n = Seed THEN link ELSE [link EXCEPT ![<<n, Seed>>] = alone]
        /\ leaves' = leaves
    BY <1>1 DEF Start, Running
  <2> HIDE DEF w, alone, elected
  <2>3. OwnInv'
    BY <2>1, <2>2, RecordIsNode, Zenon DEF OwnInv, IsMap, Seed
  <2>4. OwnStands
    BY <2>1, <2>2 DEF OwnInv, OwnStands, Running
  <2> QED BY <2>3, <2>4
<1>2. CASE Leave(n) \/ Crash(n)
  <2>1. /\ view' = [view EXCEPT ![n] = Empty]
        /\ node' = [node EXCEPT ![n] = Stopped]
        /\ link' = link
        /\ \A m \in Node : <<m, m>> \notin leaves'
    BY <1>2, Zenon DEF Leave, Crash, OwnInv
  <2>2. OwnInv'
    BY <2>1, RecordIsNode, Zenon DEF OwnInv, IsMap, Empty, Stopped
  <2>3. OwnStands
    BY <2>1 DEF OwnInv, OwnStands, Running, Stopped
  <2> QED BY <2>2, <2>3
<1> QED BY <1>1, <1>2

\* The steps of a node by itself that leave it running.
LEMMA TimerStep ==
    ASSUME NoneIsNoRecord, OwnInv, NEW n \in Node, ContactSeeds(n) \/ WeaklyUpTimerFires(n)
    PROVE  OwnInv' /\ OwnStands
<1>1. CASE ContactSeeds(n)
  <2>1. /\ n # Seed
        /\ link' = [link EXCEPT ![<<n, Seed>>] = [Empty EXCEPT ![n] = view[n][n]]]
        /\ UNCHANGED <<node, view, leaves>>
    BY <1>1 DEF ContactSeeds
  <2>2. OwnInv'
    BY <2>1, Zenon DEF OwnInv, IsMap
  <2> QED BY <2>1, <2>2, Zenon DEF OwnInv, OwnStands, Running
<1>2. CASE WeaklyUpTimerFires(n)
  <2> DEFINE w == IF view[n][n].status = "joining" THEN SetStatus(view[n], n, "weakly-up")
                  ELSE view[n]
  <2>1. IsMap(view[n]) /\ view[n][n] # None
    BY <1>2 DEF OwnInv, WeaklyUpTimerFires, Running
  <2>2. KeepsOwn(n, view[n], w)
    <3>1. CASE view[n][n].status = "joining"
      <4>1. KeepsOwn(n, view[n], SetStatus(view[n], n, "weakly-up"))
        BY <2>1, <3>1, SetStatusKeeps
      <4> QED BY <3>1, <4>1
    <3>2. CASE view[n][n].status # "joining"
      BY <2>1, <3>2 DEF KeepsOwn
    <3> QED BY <3>1, <3>2
  <2>3. view' = [view EXCEPT ![n] = w]
    BY <1>2, Zenon DEF WeaklyUpTimerFires, OwnInv
  <2>4. /\ node' = [node EXCEPT ![n].weaklyTimer = FALSE]
        /\ UNCHANGED <<link, leaves>>
    BY <1>2 DEF WeaklyUpTimerFires
  <2> HIDE DEF w
  <2>5. /\ node' = [m \in Node |-> node'[m]]
        /\ \A m \in Node : IsNode(node'[m]) /\ (node'[m].running <=> node[m].running)
    <3> DEFINE c == [node[n] EXCEPT !.weaklyTimer = FALSE]
    <3>1. IsNode(c) /\ c.running = node[n].running
      BY FieldChanged, Zenon DEF OwnInv
    <3>2. node' = [node EXCEPT ![n] = c]
      BY <2>4
    <3> HIDE DEF c
    <3> QED BY <3>1, <3>2, NodeChanged, Zenon
  <2>6. /\ link' = [p \in Node \X Node |-> link'[p]]
        /\ \A m \in Node : link'[<<m, m>>] = None /\ <<m, m>> \notin leaves'
    BY <2>4, Zenon DEF OwnInv
  <2> QED BY <2>2, <2>3, <2>5, <2>6, MapStep, Zenon
<1> QED BY <1>1, <1>2

\* Gossip: sent, received or lost.
LEMMA GossipStep ==
    ASSUME NoneIsNoRecord, OwnInv, NEW i \in Node, NEW j \in Node,
           GossipTick(i, j) \/ GossipArrives(i, j) \/ GossipLost(i, j)
    PROVE  OwnInv' /\ OwnStands
<1>1. CASE GossipTick(i, j)
  <2> DEFINE acted == LeaderActions(i, view[i], node[i].held)
  <2>1. IsMap(view[i]) /\ view[i][i] # None
    BY <1>1 DEF OwnInv, GossipTick, Running
  <2>2. KeepsOwn(i, view[i], acted)
    BY <2>1, LeaderActionsKeep
  <2>3. /\ i # j
        /\ view' = [view EXCEPT ![i] = acted]
        /\ node' = [node EXCEPT ![i].held = StillHeld(view[i], @)]
        /\ link' = [link EXCEPT ![<<i, j>>] = acted]
        /\ leaves' = leaves
    BY <1>1 DEF GossipTick
  <2> HIDE DEF acted
  <2>4. /\ node' = [m \in Node |-> node'[m]]
        /\ \A m \in Node : IsNode(node'[m]) /\ (node'[m].running <=> node[m].running)
    <3> DEFINE c == [node[i] EXCEPT !.held = StillHeld(view[i], node[i].held)]
    <3>1. IsNode(c) /\ c.running = node[i].running
      BY FieldChanged, Zenon DEF OwnInv
    <3>2. node' = [node EXCEPT ![i] = c]
      BY <2>3
    <3> HIDE DEF c
    <3> QED BY <3>1, <3>2, NodeChanged, Zenon
  <2>5. /\ link' = [p \in Node \X Node |-> link'[p]]
        /\ \A m \in Node : link'[<<m, m>>] = None /\ <<m, m>> \notin leaves'
    BY <2>3, Zenon DEF OwnInv
  <2> QED BY <2>2, <2>3, <2>4, <2>5, MapStep, Zenon
<1>2. CASE GossipArrives(i, j)
  <2> DEFINE merged == AfterGossip(j, view[j], i, link[<<i, j>>])
             w == LeaderActions(j, merged, node[j].held)
  <2>1. i # j /\ IsMap(view[j]) /\ view[j][j] # None
    BY <1>2, Zenon DEF OwnInv, GossipArrives, Running
  <2>2. KeepsOwn(j, view[j], merged)
    BY <2>1, AfterGossipKeeps
  <2>3. /\ view' = [view EXCEPT ![j] = w]
        /\ node' = [node EXCEPT ![j].held = StillHeld(merged, @)]
        /\ link' = [link EXCEPT ![<<i, j>>] = None]
        /\ leaves' = leaves
    BY <1>2 DEF GossipArrives
  <2> HIDE DEF merged
  <2>4. KeepsOwn(j, merged, w)
    <3>1. IsMap(merged) /\ merged[j] # None
      BY <2>2 DEF KeepsOwn
    <3> QED BY <3>1, LeaderActionsKeep
  <2> HIDE DEF w
  <2>5. KeepsOwn(j, view[j], w)
    BY <2>2, <2>4 DEF KeepsOwn
  <2>6. /\ node' = [m \in Node |-> node'[m]]
        /\ \A m \in Node : IsNode(node'[m]) /\ (node'[m].running <=> node[m].running)
    <3> DEFINE c == [node[j] EXCEPT !.held = StillHeld(merged, node[j].held)]
    <3>1. IsNode(c) /\ c.running = node[j].running
      BY FieldChanged, Zenon DEF OwnInv
    <3>2. node' = [node EXCEPT ![j] = c]
      BY <2>3
    <3> HIDE DEF c
    <3> QED BY <3>1, <3>2, NodeChanged, Zenon
  <2>7. /\ link' = [p \in Node \X Node |-> link'[p]]
        /\ \A m \in Node : link'[<<m, m>>] = None /\ <<m, m>> \notin leaves'
    BY <2>1, <2>3, Zenon DEF OwnInv
  <2> QED BY <2>3, <2>5, <2>6, <2>7, MapStep, Zenon
<1>3. CASE GossipLost(i, j)
  <2>1. link' = [link EXCEPT ![<<i, j>>] = None] /\ UNCHANGED <<node, view, leaves>>
    BY <1>3 DEF GossipLost
  <2> QED BY <2>1, Zenon DEF OwnInv, IsMap, OwnStands, Running
<1> QED BY <1>1, <1>2, <1>3

\* A step that gives a node another record of a peer, or none.
LEMMA PeerStep ==
    ASSUME NoneIsNoRecord, OwnInv, NEW n \in Node, NEW m \in Node, n # m, node[n].running,
           NEW r, view' = [view EXCEPT ![n] = [view[n] EXCEPT ![m] = r]],
           UNCHANGED <<node, link>>, leaves' \subseteq leaves
    PROVE  OwnInv' /\ OwnStands
<1> DEFINE w == [view[n] EXCEPT ![m] = r]
<1>1. KeepsOwn(n, view[n], w)
  BY Zenon DEF OwnInv, KeepsOwn, IsMap
<1> HIDE DEF w
<1>2. view' = [view EXCEPT ![n] = w]
  BY DEF w
<1> QED BY <1>1, <1>2, MapStep, Zenon DEF OwnInv

\* Heartbeats, leave frames and the failure detector speak of peers only.
LEMMA DetectorStep ==
    ASSUME NoneIsNoRecord, OwnInv, NEW i \in Node, NEW j \in Node,
           \/ Heartbeat(i, j) \/ LeaveArrives(i, j) \/ LeaveLost(i, j)
           \/ Suspect(i, j) \/ AutoDown(i, j) \/ DownUnreachable(i, j)
    PROVE  OwnInv' /\ OwnStands
<1>0. ASSUME UNCHANGED <<node, view, link>>, leaves' \subseteq leaves PROVE OwnInv' /\ OwnStands
  BY <1>0, Zenon DEF OwnInv, IsMap, OwnStands, Running
<1>1. CASE Heartbeat(i, j)
  <2>1. /\ i # j /\ node[j].running
        /\ view' = [view EXCEPT ![j] = [view[j] EXCEPT ![i] = WithStatus(view[j][i], "up")]]
        /\ UNCHANGED <<node, link, leaves>>
    BY <1>1 DEF Heartbeat, Running, SetStatus, OwnInv, IsMap
  <2> QED BY <2>1, PeerStep, Zenon
<1>2. CASE LeaveArrives(i, j)
  <2>1. i # j /\ leaves' \subseteq leaves /\ UNCHANGED <<node, link>>
    BY <1>2, Zenon DEF LeaveArrives, OwnInv
  <2>2. CASE j \in Running /\ view[j][i] # None
    <3>1. view' = [view EXCEPT ![j] = [view[j] EXCEPT
                     ![i] = [status |-> "removed", version |-> view[j][i].version + 2]]]
      BY <1>2, <2>2 DEF LeaveArrives, Tombstoned, OwnInv, IsMap
    <3> QED BY <2>1, <2>2, <3>1, PeerStep, Zenon DEF Running
  <2>3. CASE ~(j \in Running /\ view[j][i] # None)
    BY <1>0, <1>2, <2>1, <2>3 DEF LeaveArrives
  <2> QED BY <2>2, <2>3
<1>3. CASE LeaveLost(i, j)
  BY <1>0, <1>3 DEF LeaveLost
<1>4. CASE Suspect(i, j)
  <2>1. /\ i # j /\ node[i].running
        /\ view' = [view EXCEPT ![i] = [view[i] EXCEPT ![j] = WithStatus(view[i][j], "unreachable")]]
        /\ UNCHANGED <<node, link, leaves>>
    BY <1>4 DEF Suspect, Running, SetStatus, OwnInv, IsMap
  <2> QED BY <2>1, PeerStep, Zenon
<1>5. CASE AutoDown(i, j)
  <2>1. /\ i # j /\ node[i].running
        /\ view' = [view EXCEPT ![i] = [view[i] EXCEPT ![j] = None]]
        /\ UNCHANGED <<node, link, leaves>>
    BY <1>5 DEF AutoDown, Running
  <2> QED BY <2>1, PeerStep, Zenon
<1>6. CASE DownUnreachable(i, j)
  <2>1. /\ i # j /\ node[i].running
        /\ view' = [view EXCEPT ![i] = [view[i] EXCEPT
                      ![j] = [status |-> "removed", version |-> view[i][j].version + 2]]]
        /\ UNCHANGED <<node, link, leaves>>
    BY <1>6 DEF DownUnreachable, Running, Tombstoned, OwnInv, IsMap
  <2> QED BY <2>1, PeerStep, Zenon
<1> QED BY <1>1, <1>2, <1>3, <1>4, <1>5, <1>6

\* Every step preserves the invariant and the own record of every running node.
LEMMA OwnStep ==
    ASSUME NoneIsNoRecord, OwnInv, [Next]_vars PROVE OwnInv' /\ OwnStands
<1>1. CASE UNCHANGED vars
  BY <1>1, Zenon DEF vars, OwnInv, IsMap, OwnStands, Running
<1>2. CASE Next
  BY <1>2, LifeStep, TimerStep, GossipStep, DetectorStep DEF Next
<1> QED BY <1>1, <1>2

\* For every number of nodes: while a node runs its own record is in its map,
\* and no gossip frame, leave frame, heartbeat or suspicion takes it back from up
\* (maySpeakFor, onLeave).
THEOREM OwnRecordNeverUnseated ==
    ASSUME NoneIsNoRecord PROVE FairSpec => OwnRecordStands
<1>1. Init => OwnInv
  BY OwnInvInit
<1>2. OwnInv /\ [Next]_vars => OwnInv'
  BY OwnStep
<1>3. OwnInv /\ [Next]_vars =>
        [\A n \in Running : node'[n].running =>
           /\ view'[n][n] # None
           /\ view[n][n].status = "up" => view'[n][n] = view[n][n]]_vars
  BY OwnStep DEF OwnStands
<1> QED BY <1>1, <1>2, <1>3, PTL DEF FairSpec, OwnRecordStands

-----------------------------------------------------------------------------
(* No version outgrows its bound *)

\* How far the record of a node may still rise without a fault.
Rank(status, running) ==
    CASE status = "joining" -> 5
      [] status = "weakly-up" -> 4
      [] status \in {"up", "leaving"} -> 3
      [] status = "unreachable" -> IF running THEN 4 ELSE 2
      [] OTHER -> 0

\* How far the faults to come may raise it.
Reserve == 2 * (Cardinality(leaves) + budget.starts + budget.suspicions + NumNodes * budget.leaves)

Room(r, running, reserve) ==
    r = None \/ /\ r \in [status : Status, version : Nat \ {0}]
                /\ r.version + Rank(r.status, running) + reserve <= MaxVersion

Fits(v, c, reserve) == IsMap(v) /\ \A m \in Node : Room(v[m], c[m].running, reserve)

Budgets == [starts : Nat, losses : Nat, suspicions : Nat, leaves : Nat, crashes : Nat]
Fields == [running : BOOLEAN, held : BOOLEAN, weaklyTimer : BOOLEAN]

(***************************************************************************)
(* Every record, in a map or on its way, has room for the rises its status *)
(* allows and for those the faults to come may cause.                      *)
(***************************************************************************)
VersionInv ==
    /\ options.weakly \in BOOLEAN /\ budget \in Budgets
    /\ node \in [Node -> Fields]
    /\ leaves \subseteq Node \X Node
    /\ Reserve + 6 <= Epoch
    /\ view = [n \in Node |-> view[n]]
    /\ \A n \in Node : Fits(view[n], node, Reserve)
    /\ link = [p \in Node \X Node |-> link[p]]
    /\ \A p \in Node \X Node : link[p] = None \/ Fits(link[p], node, Reserve)

LEMMA RankBounds ==
    ASSUME NEW status, NEW running \in BOOLEAN
    PROVE  /\ Rank(status, running) \in 0..5
           /\ Rank(status, running) <= Rank(status, FALSE) + 2
           /\ Rank(status, FALSE) <= Rank(status, running)
<1>1. Rank(status, running) \in 0..5
  BY DEF Rank
<1>2. CASE status = "unreachable"
  BY <1>2 DEF Rank
<1>3. CASE status # "unreachable"
  <2> DEFINE a == Rank(status, running)
             b == Rank(status, FALSE)
  <2>1. a = b
    BY <1>3 DEF Rank
  <2>2. a \in 0..5
    BY <1>1
  <2> HIDE DEF a, b
  <2>3. a <= b + 2 /\ b <= a
    BY <2>1, <2>2
  <2> QED BY <1>1, <2>3, Zenon DEF a, b
<1> QED BY <1>1, <1>2, <1>3, Zenon

\* Leave frames, counted.
LEMMA LeavesFinite ==
    ASSUME NEW S, S \subseteq Node \X Node
    PROVE  IsFiniteSet(S) /\ Cardinality(S) \in Nat
<1>1. IsFiniteSet(Node)
  <2>1. 1 \in Int /\ NumNodes \in Int
    BY EpochAssumption
  <2> QED BY <2>1, FS_Interval DEF Node
<1>2. IsFiniteSet(Node \X Node)
  BY <1>1, FS_Product
<1> QED BY <1>2, FS_Subset, FS_CardinalityType

LEMMA LeavesFrom ==
    ASSUME NEW S, S \subseteq Node \X Node, NEW n \in Node, NEW M, M \subseteq Node
    PROVE  Cardinality(S \cup {<<n, m>> : m \in M}) <= Cardinality(S) + NumNodes
<1> DEFINE T == {<<n, m>> : m \in M}
           all == {n} \X Node
<1>1. NumNodes \in Nat /\ IsFiniteSet(Node) /\ Cardinality(Node) = NumNodes
  <2>1. 1 \in Int /\ NumNodes \in Nat
    BY EpochAssumption
  <2>2. IsFiniteSet(1..NumNodes) /\ Cardinality(1..NumNodes) = IF 1 > NumNodes THEN 0 ELSE NumNodes - 1 + 1
    BY <2>1, FS_Interval
  <2> QED BY <2>1, <2>2 DEF Node
<1>2. IsFiniteSet({n}) /\ Cardinality({n}) = 1
  BY FS_Singleton, Zenon
<1>3. IsFiniteSet(all) /\ Cardinality(all) = NumNodes
  <2>1. IsFiniteSet(all) /\ Cardinality(all) = Cardinality({n}) * Cardinality(Node)
    BY <1>1, <1>2, FS_Product
  <2> QED BY <1>1, <1>2, <2>1
<1>4. T \in SUBSET all /\ T \subseteq Node \X Node
  OBVIOUS
<1> HIDE DEF T, all
<1>5. IsFiniteSet(T) /\ Cardinality(T) <= NumNodes /\ Cardinality(T) \in Nat
  BY <1>3, <1>4, FS_Subset, FS_CardinalityType
<1>6. IsFiniteSet(S) /\ Cardinality(S) \in Nat
  BY LeavesFinite
<1>7. Cardinality(S \cap T) \in Nat
  <2>1. S \cap T \subseteq Node \X Node
    OBVIOUS
  <2> QED BY <2>1, LeavesFinite
<1>8. Cardinality(S \cup T) = Cardinality(S) + Cardinality(T) - Cardinality(S \cap T)
  BY <1>5, <1>6, FS_Union
<1>9. Cardinality(S \cup T) <= Cardinality(S) + NumNodes
  BY <1>1, <1>5, <1>6, <1>7, <1>8
<1> QED BY <1>9 DEF T

\* A record that had room keeps it when the reserve shrinks, also when its node
\* starts if that takes two from the reserve.
LEMMA RoomKept ==
    ASSUME NEW r, NEW a \in BOOLEAN, NEW b \in BOOLEAN, NEW x \in Nat, NEW y \in Nat,
           Room(r, a, x), y <= x, (b => a) \/ y + 2 <= x
    PROVE  Room(r, b, y)
<1> SUFFICES ASSUME r # None PROVE Room(r, b, y)
  BY DEF Room
<1>1. /\ r \in [status : Status, version : Nat \ {0}]
      /\ r.version + Rank(r.status, a) + x <= MaxVersion
  BY DEF Room
<1> DEFINE ra == Rank(r.status, a)
           rb == Rank(r.status, b)
           rf == Rank(r.status, FALSE)
<1>2. /\ ra \in Nat /\ rb \in Nat /\ rf \in Nat /\ rb <= rf + 2 /\ rf <= ra
  <2>1. ra \in 0..5 /\ rf <= ra
    BY RankBounds, Zenon
  <2>2. rb \in 0..5 /\ rb <= rf + 2
    BY RankBounds, Zenon
  <2>3. rf \in 0..5
    <3>1. FALSE \in BOOLEAN
      OBVIOUS
    <3> QED BY <3>1, RankBounds, Zenon
  <2> HIDE DEF ra, rb, rf
  <2> QED BY <2>1, <2>2, <2>3
<1>3. (b => a) => rb <= ra
  <2>1. CASE b = FALSE
    <3>1. rb = rf
      BY <2>1, Zenon
    <3> HIDE DEF ra, rb, rf
    <3> QED BY <1>2, <3>1
  <2>2. CASE a = TRUE /\ b = TRUE
    <3>1. ra = rb
      BY <2>2
    <3> HIDE DEF ra, rb, rf
    <3> QED BY <1>2, <3>1
  <2> QED BY <2>1, <2>2, Zenon
<1> HIDE DEF ra, rb, rf
<1>4. r.version \in Nat /\ MaxVersion \in Nat
  BY <1>1, EpochAssumption
<1>5. r.version + rb + y <= MaxVersion
  BY <1>1, <1>2, <1>3, <1>4 DEF ra
<1> QED BY <1>1, <1>5 DEF Room, rb

\* A map in which the record of one node is replaced.
LEMMA PlaceFits ==
    ASSUME NEW v, NEW c, NEW x, Fits(v, c, x), NEW m \in Node, NEW r, Room(r, c[m].running, x)
    PROVE  Fits([v EXCEPT ![m] = r], c, x)
BY DEF Fits, IsMap

LEMMA FitsKept ==
    ASSUME NEW v, NEW c \in [Node -> Fields], NEW d \in [Node -> Fields], NEW x \in Nat,
    NEW y \in Nat,
           Fits(v, c, x), y <= x, \A m \in Node : (d[m].running => c[m].running) \/ y + 2 <= x
    PROVE  Fits(v, d, y)
<1>1. ASSUME NEW m \in Node PROVE Room(v[m], d[m].running, y)
  <2>1. c[m].running \in BOOLEAN /\ d[m].running \in BOOLEAN
    BY DEF Fields
  <2>2. Room(v[m], c[m].running, x)
    BY DEF Fits
  <2> QED BY <2>1, <2>2, RoomKept
<1> QED BY <1>1 DEF Fits

-----------------------------------------------------------------------------
(* Records that rise *)

\* withStatus and its kin: a record pays for its rise with its rank, or with what
\* leaves the reserve.
LEMMA RoomRises ==
    ASSUME NEW r, r # None, NEW a \in BOOLEAN, NEW x \in Nat, NEW y \in Nat, Room(r, a, x),
           NEW status \in Status, NEW k \in Nat,
           Rank(status, a) + k + y <= Rank(r.status, a) + x
    PROVE  Room([status |-> status, version |-> r.version + k], a, y)
<1> DEFINE ra == Rank(r.status, a)
           rb == Rank(status, a)
           new == [status |-> status, version |-> r.version + k]
<1>1. /\ r \in [status : Status, version : Nat \ {0}]
      /\ r.version + ra + x <= MaxVersion
  BY DEF Room
<1>2. ra \in 0..5 /\ rb \in 0..5
  BY RankBounds, Zenon
<1>3. r.version \in Nat /\ r.version # 0 /\ MaxVersion \in Nat
  BY <1>1, EpochAssumption
<1>4. rb + k + y <= ra + x
  OBVIOUS
<1>5. new \in [status : Status,
version : Nat \ {0}] /\ new.status = status /\ new.version = r.version + k
  BY <1>3
<1> HIDE DEF ra, rb
<1>6. r.version + k + rb + y <= MaxVersion
  BY <1>1, <1>2, <1>3, <1>4
<1>7. new.version + Rank(new.status, a) + y <= MaxVersion
  BY <1>5, <1>6 DEF rb
<1> HIDE DEF new
<1>8. Room(new, a, y)
  BY <1>5, <1>7 DEF Room
<1> QED BY <1>8 DEF new

\* Promotion, the weakly-up timer, and the answer to a heartbeat.
LEMMA StatusRises ==
    ASSUME NEW r, r # None, NEW a \in BOOLEAN, NEW x \in Nat, Room(r, a, x), NEW status,
           \/ status = "up" /\ r.status \in {"joining", "weakly-up"}
           \/ status = "up" /\ r.status = "unreachable" /\ a
           \/ status = "weakly-up" /\ r.status = "joining"
           \/ status = "unreachable" /\ r.status = "up" /\ ~a
    PROVE  Room(WithStatus(r, status), a, x)
<1>1. status \in Status /\ Rank(status, a) + 1 <= Rank(r.status, a)
  BY DEF Rank, Status
<1> DEFINE ra == Rank(r.status, a)
           rb == Rank(status, a)
<1>2. ra \in 0..5 /\ rb \in 0..5
  BY RankBounds, Zenon
<1>3. rb + 1 <= ra
  BY <1>1
<1> HIDE DEF ra, rb
<1>4. rb + 1 + x <= ra + x
  BY <1>2, <1>3
<1>5. 1 \in Nat
  OBVIOUS
<1>6. Room([status |-> status, version |-> r.version + 1], a, x)
  BY <1>1, <1>4, <1>5, RoomRises DEF ra, rb
<1> QED BY <1>6 DEF WithStatus

LEMMA SetStatusFits ==
    ASSUME NEW v, NEW c \in [Node -> Fields], NEW x \in Nat, Fits(v, c, x), NEW m \in Node,
    NEW status,
           v[m] # None, Room(WithStatus(v[m], status), c[m].running, x)
    PROVE  Fits(SetStatus(v, m, status), c, x)
<1> DEFINE r == WithStatus(v[m], status)
<1>1. SetStatus(v, m, status) = [v EXCEPT ![m] = r]
  BY DEF SetStatus
<1>2. Room(r, c[m].running, x)
  OBVIOUS
<1> HIDE DEF r
<1>3. Fits([v EXCEPT ![m] = r], c, x)
  BY <1>2, PlaceFits
<1> QED BY <1>1, <1>3

\* promoteJoiningMembers.
LEMMA PromotedFits ==
    ASSUME NEW n \in Node, NEW v, NEW c \in [Node -> Fields], NEW x \in Nat, Fits(v, c, x)
    PROVE  Fits(Promoted(n, v), c, x)
<1> DEFINE w == Promoted(n, v)
<1>1. CASE w = v
  BY <1>1
<1>2. CASE w = [m \in Node |-> IF m \in In(v, {"joining", "weakly-up"}) THEN WithStatus(v[m],
"up") ELSE v[m]]
  <2>1. ASSUME NEW m \in Node PROVE Room(w[m], c[m].running, x)
    <3>1. c[m].running \in BOOLEAN
      BY DEF Fields
    <3>2. Room(v[m], c[m].running, x)
      BY DEF Fits
    <3>3. CASE m \in In(v, {"joining", "weakly-up"})
      <4>1. v[m] # None /\ v[m].status \in {"joining", "weakly-up"} /\ w[m] = WithStatus(v[m], "up")
        BY <1>2, <3>3 DEF In
      <4> QED BY <3>1, <3>2, <4>1, StatusRises
    <3>4. CASE m \notin In(v, {"joining", "weakly-up"})
      <4>1. w[m] = v[m]
        BY <1>2, <3>4
      <4> QED BY <3>2, <4>1
    <3> QED BY <3>3, <3>4
  <2>2. IsMap(w)
    BY <1>2 DEF IsMap
  <2> QED BY <2>1, <2>2 DEF Fits
<1>3. w = v \/ w = [m \in Node |-> IF m \in In(v, {"joining", "weakly-up"}) THEN WithStatus(v[m],
"up") ELSE v[m]]
  BY DEF Promoted
<1> QED BY <1>1, <1>2, <1>3

\* leaderActionsTick.
LEMMA LeaderActionsFit ==
    ASSUME NEW n \in Node, NEW v, NEW c \in [Node -> Fields], NEW x \in Nat, Fits(v, c, x), NEW held
    PROVE  Fits(LeaderActions(n, v, held), c, x)
<1> DEFINE w == IF ElectsItself(n, v, held) THEN SetStatus(v, n, "up") ELSE v
<1>1. Fits(w, c, x)
  <2>1. CASE ElectsItself(n, v, held)
    <3>1. v[n] # None /\ v[n].status \in {"joining", "weakly-up"}
      BY <2>1 DEF ElectsItself
    <3>2. c[n].running \in BOOLEAN
      BY DEF Fields
    <3>3. Room(v[n], c[n].running, x)
      BY DEF Fits
    <3>4. Room(WithStatus(v[n], "up"), c[n].running, x)
      BY <3>1, <3>2, <3>3, StatusRises
    <3>5. Fits(SetStatus(v, n, "up"), c, x)
      BY <3>1, <3>4, SetStatusFits
    <3> QED BY <2>1, <3>5
  <2>2. CASE ~ElectsItself(n, v, held)
    BY <2>2
  <2> QED BY <2>1, <2>2
<1>2. LeaderActions(n, v, held) = Promoted(n, w)
  BY DEF LeaderActions
<1> HIDE DEF w
<1> QED BY <1>1, <1>2, PromotedFits

\* onGossip: merging raises nothing, and a sender that is entered starts at one.
LEMMA AfterGossipFits ==
    ASSUME NEW n \in Node, NEW v, NEW c \in [Node -> Fields], NEW x \in Nat, Fits(v, c, x),
           NEW from \in Node, NEW frame, Fits(frame, c, x), x + 6 <= MaxVersion
    PROVE  Fits(AfterGossip(n, v, from, frame), c, x)
<1> DEFINE w == Merged(n, v, from, frame)
           fresh == [status |-> "joining", version |-> 1]
<1>1. Fits(w, c, x)
  <2>1. IsMap(w)
    BY DEF Merged, IsMap
  <2>2. \A m \in Node : w[m] = frame[m] \/ w[m] = v[m]
    BY DEF Merged
  <2> HIDE DEF w
  <2> QED BY <2>1, <2>2 DEF Fits
<1>2. Room(fresh, c[from].running, x)
  <2>1. fresh \in [status : Status,
  version : Nat \ {0}] /\ fresh.version = 1 /\ fresh.status = "joining"
    BY DEF Status
  <2>2. Rank("joining", c[from].running) = 5
    BY DEF Rank
  <2>3. MaxVersion \in Nat
    BY EpochAssumption
  <2>4. fresh.version + Rank(fresh.status, c[from].running) + x <= MaxVersion
    BY <2>1, <2>2, <2>3
  <2> QED BY <2>1, <2>4 DEF Room
<1>3. AfterGossip(n, v, from, frame) = IF w[from] = None THEN [w EXCEPT ![from] = fresh] ELSE w
  BY DEF AfterGossip
<1> HIDE DEF w, fresh
<1>4. Fits([w EXCEPT ![from] = fresh], c, x)
  BY <1>1, <1>2, PlaceFits
<1> QED BY <1>1, <1>3, <1>4

-----------------------------------------------------------------------------
(* What a step takes from the reserve *)

Owed(l, b) == Cardinality(l) + b.starts + b.suspicions + NumNodes * b.leaves

LEMMA OwedType ==
    ASSUME NEW l, l \subseteq Node \X Node, NEW b \in Budgets
    PROVE  Owed(l, b) \in Nat
<1>1. Cardinality(l) \in Nat
  BY LeavesFinite
<1>2. b.starts \in Nat /\ b.suspicions \in Nat /\ b.leaves \in Nat /\ NumNodes \in Nat
  BY EpochAssumption DEF Budgets
<1>3. NumNodes * b.leaves \in Nat
  BY <1>2
<1> QED BY <1>1, <1>2, <1>3 DEF Owed

LEMMA ReserveType ==
    ASSUME VersionInv
    PROVE  Reserve \in Nat /\ Reserve = 2 * Owed(leaves, budget) /\ Owed(leaves, budget) \in Nat
<1>1. Reserve = 2 * Owed(leaves, budget)
  BY DEF Reserve, Owed
<1>2. Owed(leaves, budget) \in Nat
  BY OwedType DEF VersionInv
<1> QED BY <1>1, <1>2

LEMMA ReserveFalls ==
    ASSUME VersionInv, budget' \in Budgets, leaves' \subseteq Node \X Node, NEW d \in Nat,
           Owed(leaves', budget') + d <= Owed(leaves, budget)
    PROVE  Reserve' \in Nat /\ Reserve' + 2 * d <= Reserve
<1> DEFINE after == Owed(leaves', budget')
           before == Owed(leaves, budget)
<1>1. Reserve' = 2 * after /\ Reserve = 2 * before
  BY DEF Reserve, Owed
<1>2. after \in Nat /\ before \in Nat
  BY OwedType DEF VersionInv
<1>3. after + d <= before
  OBVIOUS
<1> HIDE DEF after, before
<1> QED BY <1>1, <1>2, <1>3

\* Spend: one is taken from one bound.
LEMMA SpendOne ==
    ASSUME VersionInv, NEW what \in {"starts", "losses", "suspicions", "leaves", "crashes"},
    Spend(what)
    PROVE  /\ budget' \in Budgets
           /\ budget[what] \in Nat \ {0} /\ budget'[what] = budget[what] - 1
           /\ \A other \in {"starts", "losses", "suspicions", "leaves", "crashes"} \ {what} :
                 budget'[other] = budget[other]
BY DEF VersionInv, Budgets, Spend

LEMMA OneLeaveLess ==
    ASSUME VersionInv, NEW p \in leaves, NEW b \in Budgets
    PROVE  Owed(leaves \ {p}, b) + 1 = Owed(leaves, b) /\ leaves \ {p} \subseteq Node \X Node
<1>1. leaves \subseteq Node \X Node
  BY DEF VersionInv
<1>2. IsFiniteSet(leaves) /\ Cardinality(leaves) \in Nat
  BY <1>1, LeavesFinite
<1>3. Cardinality(leaves \ {p}) = Cardinality(leaves) - 1
  BY <1>2, FS_RemoveElement, Zenon
<1>4. b.starts \in Nat /\ b.suspicions \in Nat /\ b.leaves \in Nat /\ NumNodes \in Nat
  BY EpochAssumption DEF Budgets
<1>5. NumNodes * b.leaves \in Nat
  BY <1>4
<1> QED BY <1>1, <1>2, <1>3, <1>4, <1>5 DEF Owed

LEMMA NothingOwed ==
    ASSUME VersionInv, UNCHANGED <<budget, leaves>>
    PROVE  Reserve' = Reserve /\ budget' \in Budgets /\ leaves' \subseteq Node \X Node
BY DEF VersionInv, Reserve

LEMMA StartOwed ==
    ASSUME VersionInv, NEW what \in {"starts", "suspicions"}, Spend(what), UNCHANGED leaves
    PROVE  Reserve' \in Nat /\ Reserve' + 2 <= Reserve /\ budget' \in Budgets
<1>1. budget' \in Budgets /\ leaves' \subseteq Node \X Node
  BY SpendOne DEF VersionInv
<1>2. /\ budget'.leaves = budget.leaves
      /\ \/ budget'.starts = budget.starts - 1 /\ budget'.suspicions = budget.suspicions
         \/ budget'.starts = budget.starts /\ budget'.suspicions = budget.suspicions - 1
  BY SpendOne
<1>3. Cardinality(leaves) \in Nat
  BY LeavesFinite DEF VersionInv
<1>4. budget.starts \in Nat /\ budget.suspicions \in Nat /\ budget.leaves \in Nat /\ NumNodes \in Nat
  BY EpochAssumption DEF VersionInv, Budgets
<1>5. NumNodes * budget.leaves \in Nat
  BY <1>4
<1>6. Owed(leaves', budget') + 1 <= Owed(leaves, budget)
  BY <1>2, <1>3, <1>4, <1>5 DEF Owed
<1>7. 1 \in Nat
  OBVIOUS
<1>8. Reserve' \in Nat /\ Reserve' + 2 * 1 <= Reserve
  BY <1>1, <1>6, <1>7, ReserveFalls
<1> QED BY <1>1, <1>8

LEMMA LossOwed ==
    ASSUME VersionInv, NEW what \in {"losses", "crashes"}, Spend(what), leaves' \subseteq leaves
    PROVE  Reserve' \in Nat /\ Reserve' <= Reserve /\ budget' \in Budgets
<1>1. budget' \in Budgets /\ leaves' \subseteq Node \X Node
  BY SpendOne DEF VersionInv
<1>2. budget'.leaves = budget.leaves /\ budget'.starts = budget.starts /\ budget'.suspicions = budget.suspicions
  BY SpendOne
<1>3. Cardinality(leaves) \in Nat /\ Cardinality(leaves') \in Nat /\ Cardinality(leaves') <= Cardinality(leaves)
  <2>1. IsFiniteSet(leaves) /\ Cardinality(leaves) \in Nat
    BY LeavesFinite DEF VersionInv
  <2> QED BY <1>1, <2>1, LeavesFinite, FS_Subset
<1>4. budget.starts \in Nat /\ budget.suspicions \in Nat /\ budget.leaves \in Nat /\ NumNodes \in Nat
  BY EpochAssumption DEF VersionInv, Budgets
<1>5. NumNodes * budget.leaves \in Nat
  BY <1>4
<1>6. Owed(leaves', budget') + 0 <= Owed(leaves, budget)
  BY <1>2, <1>3, <1>4, <1>5 DEF Owed
<1>7. 0 \in Nat
  OBVIOUS
<1>8. Reserve' \in Nat /\ Reserve' + 2 * 0 <= Reserve
  BY <1>1, <1>6, <1>7, ReserveFalls
<1>9. Reserve \in Nat
  BY ReserveType
<1>10. Reserve' <= Reserve
  <2> DEFINE after == Reserve'
             before == Reserve
  <2>1. after \in Nat /\ before \in Nat /\ after + 2 * 0 <= before
    BY <1>8, <1>9, Zenon
  <2> HIDE DEF after, before
  <2>2. after <= before
    BY <2>1
  <2> QED BY <2>2 DEF after, before
<1> QED BY <1>1, <1>8, <1>10

\* A departure owes at most a leave frame to every node.
LEMMA LeaveOwed ==
    ASSUME VersionInv, Spend("leaves"), NEW n \in Node, NEW M, M \subseteq Node,
           leaves' = leaves \cup {<<n, m>> : m \in M}
    PROVE  /\ Reserve' \in Nat /\ Reserve' <= Reserve
           /\ budget' \in Budgets /\ leaves' \subseteq Node \X Node
<1>1. budget' \in Budgets /\ leaves' \subseteq Node \X Node
  BY SpendOne DEF VersionInv
<1>2. budget'.leaves = budget.leaves - 1 /\ budget'.starts = budget.starts /\ budget'.suspicions = budget.suspicions
  BY SpendOne
<1>3. Cardinality(leaves) \in Nat /\ Cardinality(leaves') \in Nat
  BY <1>1, LeavesFinite DEF VersionInv
<1>4. Cardinality(leaves') <= Cardinality(leaves) + NumNodes
  BY LeavesFrom, Zenon DEF VersionInv
<1>5. budget.starts \in Nat /\ budget.suspicions \in Nat /\ budget.leaves \in Nat /\ NumNodes \in Nat
  BY EpochAssumption DEF VersionInv, Budgets
<1>6. NumNodes * budget.leaves \in Nat /\ NumNodes * (budget.leaves - 1) = NumNodes * budget.leaves - NumNodes
  BY <1>5
<1>7. Owed(leaves', budget') + 0 <= Owed(leaves, budget)
  BY <1>2, <1>3, <1>4, <1>5, <1>6 DEF Owed
<1>8. 0 \in Nat
  OBVIOUS
<1>9. Reserve' \in Nat /\ Reserve' + 2 * 0 <= Reserve
  BY <1>1, <1>7, <1>8, ReserveFalls
<1>10. Reserve \in Nat
  BY ReserveType
<1>11. Reserve' <= Reserve
  <2> DEFINE after == Reserve'
             before == Reserve
  <2>1. after \in Nat /\ before \in Nat /\ after + 2 * 0 <= before
    BY <1>9, <1>10, Zenon
  <2> HIDE DEF after, before
  <2>2. after <= before
    BY <2>1
  <2> QED BY <2>2 DEF after, before
<1> QED BY <1>1, <1>9, <1>11

-----------------------------------------------------------------------------
(* The version a node starts with *)

LEMMA LeastNatural ==
    ASSUME NEW T, T \subseteq Nat, T # {}
    PROVE  \E n \in T : \A m \in T : n <= m
<1> DEFINE R == OpToRel(<, Nat)
<1>1. IsWellFoundedOn(R, Nat)
  BY NatLessThanWellFounded, Zenon
<1>2. \E x \in T : \A y \in T : ~(<<y, x>> \in R)
  <2> HIDE DEF R
  <2> QED BY <1>1, WFMin, Zenon
<1>3. PICK x \in T : \A y \in T : ~(<<y, x>> \in R)
  BY <1>2, Zenon
<1>4. \A y \in T : ~(y < x)
  BY <1>3, Zenon DEF OpToRel
<1>5. \A y \in T : x \in Nat /\ y \in Nat
  OBVIOUS
<1>6. \A y \in T : x <= y
  BY <1>4, <1>5
<1> QED BY <1>6

LEMMA MaxIsNatural ==
    ASSUME NEW S, S # {}, NEW bound \in Nat, S \subseteq 0..bound
    PROVE  Max(S) \in Nat
<1> DEFINE T == {bound - s : s \in S}
<1>1. T \subseteq Nat /\ T # {}
  <2>1. ASSUME NEW s \in S PROVE bound - s \in Nat
    <3>1. s \in 0..bound
      OBVIOUS
    <3> QED BY <3>1
  <2> QED BY <2>1, Zenon
<1>2. PICK t \in T : \A u \in T : t <= u
  <2> HIDE DEF T
  <2> QED BY <1>1, LeastNatural, Zenon
<1>3. PICK s \in S : t = bound - s
  BY <1>2
<1>4. ASSUME NEW y \in S PROVE s >= y
  <2>1. bound - y \in T
    OBVIOUS
  <2>2. t <= bound - y
    BY <1>2, <2>1
  <2>3. s \in Nat /\ y \in Nat
    OBVIOUS
  <2> QED BY <1>3, <2>2, <2>3
<1>5. \E x \in S : \A y \in S : x >= y
  BY <1>4
<1>6. Max(S) \in S
  BY <1>5, Zenon DEF Max
<1>7. 0..bound \subseteq Nat
  OBVIOUS
<1> QED BY <1>6, <1>7, Zenon

\* Every record has a version below the bound.
LEMMA FitsBounded ==
    ASSUME NEW v, NEW c \in [Node -> Fields], NEW x \in Nat, Fits(v, c, x), NEW m \in Node,
    v[m] # None
    PROVE  v[m] \in Record /\ v[m].version \in 0..MaxVersion
<1> DEFINE r == v[m]
           k == Rank(r.status, c[m].running)
<1>1. r \in [status : Status, version : Nat \ {0}] /\ r.version + k + x <= MaxVersion
  BY DEF Fits, Room
<1>2. k \in 0..5
  <2>1. c[m].running \in BOOLEAN
    BY DEF Fields
  <2> QED BY <2>1, RankBounds, Zenon
<1>3. MaxVersion \in Nat
  BY EpochAssumption
<1> HIDE DEF r, k
<1>4. r.version \in 1..MaxVersion
  BY <1>1, <1>2, <1>3
<1>5. r \in Record /\ r.version \in 0..MaxVersion
  BY <1>1, <1>3, <1>4 DEF Record
<1> QED BY <1>5 DEF r

LEMMA FreshVersionType == ASSUME VersionInv PROVE FreshVersion \in Nat \ {0}
<1> DEFINE maps == ({view[n] : n \in Node} \cup {link[p] : p \in Node \X Node}) \ {None}
           ranges == {{v[m] : m \in Node} : v \in maps}
           records == (UNION ranges) \ {None}
           versions == {0} \cup {r.version : r \in records}
<1>1. \A v \in maps : Fits(v, node, Reserve)
  <2> SUFFICES ASSUME NEW v \in maps PROVE Fits(v, node, Reserve)
    OBVIOUS
  <2>1. (\E n \in Node : v = view[n]) \/ (v # None /\ \E p \in Node \X Node : v = link[p])
    OBVIOUS
  <2> HIDE DEF maps
  <2> QED BY <2>1 DEF VersionInv
<1>2. ASSUME NEW r \in records PROVE r.version \in 0..MaxVersion
  <2>1. PICK v \in maps, m \in Node : r = v[m] /\ r # None
    <3>1. r \in UNION ranges /\ r # None
      <4>1. r \in (UNION ranges) \ {None}
        BY <1>2
      <4> HIDE DEF ranges, records
      <4> QED BY <4>1
    <3>2. PICK U \in ranges : r \in U
      <4> HIDE DEF ranges
      <4> QED BY <3>1
    <3> HIDE DEF maps, records
    <3> QED BY <3>1, <3>2
  <2>2. Fits(v, node, Reserve)
    BY <1>1
  <2>3. Reserve \in Nat /\ node \in [Node -> Fields]
    BY ReserveType DEF VersionInv
  <2> HIDE DEF maps, records
  <2> QED BY <2>1, <2>2, <2>3, FitsBounded
<1>3. MaxVersion \in Nat /\ Epoch \in Nat
  BY EpochAssumption
<1>4. Epoch >= 6
  BY <1>3, ReserveType DEF VersionInv
<1>5. versions \subseteq 0..MaxVersion /\ versions # {}
  <2> HIDE DEF records
  <2> QED BY <1>2, <1>3
<1>6. FreshVersion = Epoch * (1 + Max(versions) \div Epoch)
  BY DEF FreshVersion
<1> DEFINE top == Max(versions)
<1>7. top \in Nat
  <2> HIDE DEF versions
  <2> QED BY <1>3, <1>5, MaxIsNatural, Zenon
<1> DEFINE q == top \div Epoch
<1>8. q \in Nat
  <2> HIDE DEF top
  <2> QED BY <1>3, <1>4, <1>7
<1>9. FreshVersion = Epoch * (1 + q)
  BY <1>6
<1> HIDE DEF q
<1>10. Epoch * (1 + q) = Epoch + Epoch * q /\ Epoch * q \in Nat
  BY <1>3, <1>8
<1> QED BY <1>3, <1>4, <1>9, <1>10

-----------------------------------------------------------------------------
(* A step that takes what it raises from the reserve *)

\* What is left alone keeps its room; what changes must have it.
LEMMA VersionsStep ==
    ASSUME VersionInv, options' = options, budget' \in Budgets, node' \in [Node -> Fields],
           leaves' \subseteq Node \X Node, Reserve' \in Nat, Reserve' <= Reserve,
           \A m \in Node : (node'[m].running => node[m].running) \/ Reserve' + 2 <= Reserve,
           view' = [n \in Node |-> view'[n]],
           \A n \in Node : view'[n] = view[n] \/ Fits(view'[n], node', Reserve'),
           link' = [p \in Node \X Node |-> link'[p]],
           \A p \in Node \X Node :
              link'[p] = None \/ link'[p] = link[p] \/ Fits(link'[p], node', Reserve')
    PROVE  VersionInv'
<1>1. Reserve \in Nat /\ node \in [Node -> Fields] /\ Epoch \in Nat
  BY ReserveType, EpochAssumption DEF VersionInv
<1>2. ASSUME NEW v, Fits(v, node, Reserve) PROVE Fits(v, node', Reserve')
  BY <1>1, <1>2, FitsKept
<1>3. \A n \in Node : Fits(view'[n], node', Reserve')
  BY <1>2 DEF VersionInv
<1>4. \A p \in Node \X Node : link'[p] = None \/ Fits(link'[p], node', Reserve')
  BY <1>2 DEF VersionInv
<1>5. Reserve' + 6 <= Epoch
  <2> DEFINE after == Reserve'
             before == Reserve
  <2>1. before \in Nat /\ after \in Nat /\ after <= before /\ before + 6 <= Epoch
    BY <1>1 DEF VersionInv
  <2> HIDE DEF after, before
  <2>2. after + 6 <= Epoch
    BY <1>1, <2>1
  <2> QED BY <2>2 DEF after
<1>6. options'.weakly \in BOOLEAN
  BY DEF VersionInv
<1> QED BY <1>3, <1>4, <1>5, <1>6 DEF VersionInv

LEMMA VersionsInit == Init => VersionInv
<1> SUFFICES ASSUME Init PROVE VersionInv
  OBVIOUS
<1> DEFINE Settled(s) == [m \in Node |-> IF m \in s.up THEN [status |-> "up",
version |-> Epoch] ELSE None]
<1>1. PICK s \in Scenarios :
           /\ options = s.options
           /\ budget = s.budget
           /\ node = [n \in Node |-> [Stopped EXCEPT !.running = n \in s.up]]
           /\ view = [n \in Node |-> IF n \in s.up THEN Settled(s) ELSE Empty]
           /\ link = [p \in Node \X Node |-> None]
           /\ leaves = {}
  BY DEF Init
<1> HIDE DEF Settled
<1>2. options.weakly \in BOOLEAN /\ budget \in Budgets
      /\ 6 + 2 * (budget.starts + budget.suspicions + NumNodes * budget.leaves) <= Epoch
  BY <1>1, EpochAssumption DEF Budgets
<1>3. node \in [Node -> Fields]
  <2>1. \A n \in Node : node[n] = [running |-> n \in s.up, held |-> FALSE, weaklyTimer |-> FALSE]
    BY <1>1, Zenon DEF Stopped
  <2>2. ASSUME NEW n \in Node PROVE node[n] \in Fields
    <3>1. CASE n \in s.up
      <4>1. node[n] = [running |-> TRUE, held |-> FALSE, weaklyTimer |-> FALSE]
        BY <2>1, <3>1, Zenon
      <4> QED BY <4>1 DEF Fields
    <3>2. CASE n \notin s.up
      <4>1. node[n] = [running |-> FALSE, held |-> FALSE, weaklyTimer |-> FALSE]
        <5>1. (n \in s.up) = FALSE
          BY <3>2
        <5>2. node[n] = [running |-> n \in s.up, held |-> FALSE, weaklyTimer |-> FALSE]
          BY <2>1
        <5> QED BY <5>1, <5>2, Zenon
      <4> QED BY <4>1 DEF Fields
    <3> QED BY <3>1, <3>2
  <2>3. node = [n \in Node |-> node[n]]
    BY <1>1
  <2> QED BY <2>2, <2>3
<1>4. Reserve = 2 * (0 + budget.starts + budget.suspicions + NumNodes * budget.leaves)
  BY <1>1, FS_EmptySet DEF Reserve
<1>5. /\ budget.starts \in Nat /\ budget.suspicions \in Nat /\ budget.leaves \in Nat
      /\ NumNodes \in Nat /\ Epoch \in Nat /\ MaxVersion \in Nat /\ 2 * Epoch <= MaxVersion
  BY <1>2, EpochAssumption DEF Budgets
<1>6. NumNodes * budget.leaves \in Nat
  BY <1>5
<1>7. Reserve \in Nat /\ Reserve + 6 <= Epoch
  BY <1>2, <1>4, <1>5, <1>6
<1>8. Fits(Empty, node, Reserve)
  BY DEF Empty, Fits, IsMap, Room
<1>9. Fits(Settled(s), node, Reserve)
  <2> DEFINE up == [status |-> "up", version |-> Epoch]
  <2>1. \A m \in Node : Room(up, node[m].running, Reserve)
    <3>1. up \in [status : Status, version : Nat \ {0}] /\ up.status = "up" /\ up.version = Epoch
      BY <1>5, <1>7 DEF Status
    <3>2. \A m \in Node : Rank("up", node[m].running) = 3
      BY DEF Rank
    <3> HIDE DEF up
    <3>3. Epoch + 3 + Reserve <= MaxVersion
      BY <1>5, <1>7
    <3> QED BY <3>1, <3>2, <3>3 DEF Room
  <2>2. Settled(s) = [m \in Node |-> IF m \in s.up THEN up ELSE None]
    BY DEF Settled
  <2>3. IsMap(Settled(s)) /\ \A m \in Node : Settled(s)[m] = up \/ Settled(s)[m] = None
    BY <2>2 DEF IsMap
  <2> HIDE DEF up
  <2> QED BY <2>1, <2>3 DEF Fits, Room
<1>10. \A n \in Node : view[n] = Settled(s) \/ view[n] = Empty
  BY <1>1
<1>11. \A n \in Node : Fits(view[n], node, Reserve)
  BY <1>8, <1>9, <1>10
<1>12. view = [n \in Node |-> view[n]]
  BY <1>1
<1>13. link = [p \in Node \X Node |-> link[p]] /\ \A p \in Node \X Node : link[p] = None
  BY <1>1
<1>14. leaves \subseteq Node \X Node
  BY <1>1
<1> QED BY <1>2, <1>3, <1>7, <1>11, <1>12, <1>13, <1>14 DEF VersionInv

-----------------------------------------------------------------------------
(* The life of a node *)

\* Cluster's fields, of which one node's change.
LEMMA FieldsKept ==
    ASSUME node \in [Node -> Fields], NEW n \in Node, NEW c \in Fields,
           node' = [node EXCEPT ![n] = c], c.running => node[n].running
    PROVE  /\ node' \in [Node -> Fields]
           /\ \A m \in Node : node'[m].running => node[m].running
BY DEF Fields

LEMMA FieldType ==
    ASSUME NEW c \in Fields, NEW x \in BOOLEAN
    PROVE  /\ [c EXCEPT !.held = x] \in Fields /\ [c EXCEPT !.held = x].running = c.running
           /\ [c EXCEPT !.weaklyTimer = x] \in Fields /\ [c EXCEPT !.weaklyTimer = x].running = c.running
BY DEF Fields

LEMMA StartFits ==
    ASSUME NoneIsNoRecord, VersionInv, NEW n \in Node, Start(n)
    PROVE  VersionInv'
<1> DEFINE fresh == [status |-> "joining", version |-> FreshVersion]
           alone == [Empty EXCEPT ![n] = fresh]
           elected == n = Seed /\ UpThresholdSatisfied(alone)
           new == IF elected THEN SetStatus(alone, n, "up") ELSE alone
           c == [running |-> TRUE, held |-> n = Seed /\ ~elected, weaklyTimer |-> options.weakly]
<1>1. Reserve' \in Nat /\ Reserve' + 2 <= Reserve /\ budget' \in Budgets
  <2>1. Spend("starts") /\ UNCHANGED leaves
    BY DEF Start
  <2> QED BY <2>1, StartOwed
<1>2. Reserve \in Nat /\ MaxVersion \in Nat /\ Epoch \in Nat /\ Reserve + 6 <= Epoch
  BY ReserveType, EpochAssumption DEF VersionInv
<1>3. FreshVersion \in Nat \ {0} /\ FreshVersion + Epoch <= MaxVersion + 1
  BY FreshVersionType DEF Start
<1>4. /\ view' = [view EXCEPT ![n] = new] /\ node' = [node EXCEPT ![n] = c]
      /\ link' = IF n = Seed THEN link ELSE [link EXCEPT ![<<n, Seed>>] = alone]
      /\ options' = options /\ leaves' = leaves
  BY DEF Start
<1>5. c \in Fields /\ c.running = TRUE
  <2>1. (n = Seed /\ ~elected) \in BOOLEAN
    OBVIOUS
  <2>2. options.weakly \in BOOLEAN
    BY DEF VersionInv
  <2> HIDE DEF elected
  <2> QED BY <2>1, <2>2 DEF Fields
<1> HIDE DEF c, elected
<1>6. node' \in [Node -> Fields] /\ node'[n].running = TRUE
  BY <1>4, <1>5 DEF VersionInv
<1>7. Fits(Empty, node', Reserve')
  BY DEF Empty, Fits, IsMap, Room
<1>8. Room(fresh, TRUE, Reserve') /\ fresh.status = "joining" /\ fresh # None
  <2>1. fresh \in [status : Status, version : Nat \ {0}] /\ fresh.status = "joining"
        /\ fresh.version = FreshVersion
        /\ fresh # None
    BY <1>3 DEF Status, NoneIsNoRecord
  <2>2. Rank("joining", TRUE) = 5
    BY DEF Rank
  <2> DEFINE after == Reserve'
             before == Reserve
             first == FreshVersion
  <2>3. after \in Nat /\ after + 2 <= before /\ before \in Nat /\ before + 6 <= Epoch
        /\ first \in Nat /\ first + Epoch <= MaxVersion + 1 /\ MaxVersion \in Nat /\ Epoch \in Nat
    BY <1>1, <1>2, <1>3, Zenon
  <2> HIDE DEF after, before, first
  <2>4. first + 5 + after <= MaxVersion
    BY <2>3
  <2> HIDE DEF fresh
  <2>5. fresh.version + Rank(fresh.status, TRUE) + Reserve' <= MaxVersion
    BY <2>1, <2>2, <2>4, Zenon DEF after, first
  <2> QED BY <2>1, <2>5, Zenon DEF Room
<1> HIDE DEF fresh
<1>9. Fits(alone, node', Reserve') /\ alone[n] = fresh
  <2>1. Fits([Empty EXCEPT ![n] = fresh], node', Reserve')
    BY <1>6, <1>7, <1>8, PlaceFits, Zenon
  <2> QED BY <2>1 DEF Empty
<1> HIDE DEF alone
<1>10. Fits(SetStatus(alone, n, "up"), node', Reserve')
  <2>1. Room(WithStatus(fresh, "up"), TRUE, Reserve')
    BY <1>1, <1>8, <1>9, StatusRises, Zenon
  <2>2. alone[n] # None /\ Room(WithStatus(alone[n], "up"), node'[n].running, Reserve')
    BY <1>6, <1>8, <1>9, <2>1, Zenon
  <2> QED BY <1>1, <1>6, <1>9, <2>2, SetStatusFits
<1>11. Fits(new, node', Reserve')
  BY <1>9, <1>10
<1> HIDE DEF new
<1>12. view' = [m \in Node |-> view'[m]] /\ \A m \in Node : view'[m] = view[m] \/ Fits(view'[m],
node', Reserve')
  BY <1>4, <1>11 DEF VersionInv
<1>13. /\ link' = [p \in Node \X Node |-> link'[p]]
       /\ \A p \in Node \X Node : link'[p] = link[p] \/ Fits(link'[p], node', Reserve')
  BY <1>4, <1>9 DEF VersionInv
<1>14. Reserve' <= Reserve
  <2> DEFINE after == Reserve'
             before == Reserve
  <2>1. after \in Nat /\ after + 2 <= before /\ before \in Nat
    BY <1>1, <1>2, Zenon
  <2> HIDE DEF after, before
  <2>2. after <= before
    BY <2>1
  <2> QED BY <2>2 DEF after, before
<1>15. leaves' \subseteq Node \X Node
  BY <1>4 DEF VersionInv
<1> QED BY <1>1, <1>4, <1>6, <1>12, <1>13, <1>14, <1>15, VersionsStep, Zenon

\* ContactSeeds, the weakly-up timer, and the two ways to go.
LEMMA LifeFits ==
    ASSUME OwnInv, VersionInv, NEW n \in Node,
           ContactSeeds(n) \/ WeaklyUpTimerFires(n) \/ Leave(n) \/ Crash(n)
    PROVE  VersionInv'
<1>0. Reserve \in Nat /\ node \in [Node -> Fields] /\ node[n] \in Fields
  BY ReserveType DEF VersionInv
<1>1. ASSUME ContactSeeds(n) PROVE VersionInv'
  <2> DEFINE w == [Empty EXCEPT ![n] = view[n][n]]
             r == view[n][n]
  <2>1. UNCHANGED <<options, budget, node, view, leaves>> /\ link' = [link EXCEPT ![<<n,
  Seed>>] = w]
    BY <1>1 DEF ContactSeeds
  <2>2. Reserve' = Reserve /\ budget' \in Budgets /\ leaves' \subseteq Node \X Node
    BY <2>1, NothingOwed
  <2>3. Fits(w, node, Reserve)
    <3>1. Fits(Empty, node, Reserve)
      BY DEF Empty, Fits, IsMap, Room
    <3>2. Room(r, node[n].running, Reserve)
      BY DEF VersionInv, Fits
    <3> HIDE DEF r
    <3>3. Fits([Empty EXCEPT ![n] = r], node, Reserve)
      BY <3>1, <3>2, PlaceFits
    <3> QED BY <3>3 DEF r
  <2> HIDE DEF w
  <2>4. /\ link' = [p \in Node \X Node |-> link'[p]]
        /\ \A p \in Node \X Node : link'[p] = link[p] \/ Fits(link'[p], node', Reserve')
    BY <2>1, <2>2, <2>3, Zenon DEF VersionInv
  <2>5. view' = [m \in Node |-> view'[m]] /\ \A m \in Node : view'[m] = view[m]
    BY <2>1 DEF VersionInv
  <2>6. Reserve' \in Nat /\ Reserve' <= Reserve
    BY <1>0, <2>2
  <2>7. node' \in [Node -> Fields] /\ \A m \in Node : node'[m].running => node[m].running
    BY <1>0, <2>1
  <2> QED BY <2>1, <2>2, <2>4, <2>5, <2>6, <2>7, VersionsStep
<1>2. ASSUME WeaklyUpTimerFires(n) PROVE VersionInv'
  <2>1. /\ UNCHANGED <<options, budget, link, leaves>> /\ node[n].running
        /\ node' = [node EXCEPT ![n] = [@ EXCEPT !.weaklyTimer = FALSE]]
        /\ view' = IF view[n][n].status = "joining"
                   THEN [view EXCEPT ![n] = SetStatus(@, n, "weakly-up")] ELSE view
    BY <1>2 DEF WeaklyUpTimerFires, Running
  <2>2. Reserve' = Reserve /\ budget' \in Budgets /\ leaves' \subseteq Node \X Node
    BY <2>1, NothingOwed
  <2>3. node' \in [Node -> Fields] /\ \A m \in Node : node'[m].running = node[m].running
    <3> DEFINE c == [node[n] EXCEPT !.weaklyTimer = FALSE]
    <3>1. c \in Fields /\ c.running = node[n].running
      BY <1>0, FieldType, Zenon
    <3>2. node' = [node EXCEPT ![n] = c]
      BY <2>1
    <3> HIDE DEF c
    <3> QED BY <1>0, <3>1, <3>2
  <2>4. view[n][n].status = "joining" => Fits(SetStatus(view[n], n, "weakly-up"), node', Reserve')
    <3> SUFFICES ASSUME view[n][n].status = "joining"
                 PROVE  Fits(SetStatus(view[n], n, "weakly-up"), node', Reserve')
      OBVIOUS
    <3>1. view[n][n] # None
      BY <2>1 DEF OwnInv
    <3>2. Fits(view[n], node', Reserve')
      <4>1. Fits(view[n], node, Reserve)
        BY DEF VersionInv
      <4>2. Reserve' \in Nat /\ Reserve' <= Reserve
        BY <1>0, <2>2
      <4> QED BY <1>0, <2>3, <4>1, <4>2, FitsKept
    <3>3. Reserve' \in Nat
      BY <1>0, <2>2
    <3>4. Room(view[n][n], node'[n].running, Reserve') /\ node'[n].running \in BOOLEAN
      BY <3>2, <2>3 DEF Fits, Fields
    <3>5. Room(WithStatus(view[n][n], "weakly-up"), node'[n].running, Reserve')
      BY <3>1, <3>3, <3>4, StatusRises
    <3> QED BY <2>3, <3>1, <3>2, <3>3, <3>5, SetStatusFits
  <2>5. view' = [m \in Node |-> view'[m]] /\ \A m \in Node : view'[m] = view[m] \/ Fits(view'[m],
  node', Reserve')
    BY <2>1, <2>4 DEF VersionInv
  <2>6. link' = [p \in Node \X Node |-> link'[p]] /\ \A p \in Node \X Node : link'[p] = link[p]
    BY <2>1 DEF VersionInv
  <2>7. Reserve' \in Nat /\ Reserve' <= Reserve
    BY <1>0, <2>2
  <2> QED BY <2>1, <2>2, <2>3, <2>5, <2>6, <2>7, VersionsStep, Zenon
<1>3. ASSUME Leave(n) \/ Crash(n) PROVE VersionInv'
  <2>1. /\ node' = [node EXCEPT ![n] = Stopped] /\ view' = [view EXCEPT ![n] = Empty]
        /\ UNCHANGED <<options, link>>
    BY <1>3 DEF Leave, Crash
  <2>2. /\ Reserve' \in Nat /\ Reserve' <= Reserve
        /\ budget' \in Budgets /\ leaves' \subseteq Node \X Node
    <3>1. CASE Leave(n)
      <4> DEFINE M == Reachable(view[n]) \ {n}
      <4>1. Spend("leaves") /\ leaves' = leaves \cup {<<n, m>> : m \in M}
        BY <3>1 DEF Leave
      <4>2. M \subseteq Node
        BY DEF Reachable, In
      <4> HIDE DEF M
      <4> QED BY <4>1, <4>2, LeaveOwed
    <3>2. CASE Crash(n)
      <4>1. Spend("crashes") /\ leaves' = leaves
        BY <3>2 DEF Crash
      <4>2. leaves' \subseteq Node \X Node
        BY <4>1 DEF VersionInv
      <4> QED BY <4>1, <4>2, LossOwed
    <3> QED BY <1>3, <3>1, <3>2
  <2>3. node' \in [Node -> Fields] /\ \A m \in Node : node'[m].running => node[m].running
    <3>1. Stopped \in Fields /\ Stopped.running = FALSE
      BY DEF Stopped, Fields
    <3> QED BY <1>0, <2>1, <3>1, FieldsKept
  <2>4. Fits(Empty, node', Reserve')
    BY DEF Empty, Fits, IsMap, Room
  <2>5. view' = [m \in Node |-> view'[m]] /\ \A m \in Node : view'[m] = view[m] \/ Fits(view'[m],
  node', Reserve')
    BY <2>1, <2>4 DEF VersionInv
  <2>6. link' = [p \in Node \X Node |-> link'[p]] /\ \A p \in Node \X Node : link'[p] = link[p]
    BY <2>1 DEF VersionInv
  <2> QED BY <2>1, <2>2, <2>3, <2>5, <2>6, VersionsStep, Zenon
<1> QED BY <1>1, <1>2, <1>3

-----------------------------------------------------------------------------
(* Frames *)

\* leaderActionsTick leaves a flag behind.
LEMMA HeldStep ==
    ASSUME node \in [Node -> Fields], NEW n \in Node, NEW v,
           node' = [node EXCEPT ![n].held = StillHeld(v, @)]
    PROVE  node' \in [Node -> Fields] /\ \A m \in Node : node'[m].running = node[m].running
<1> DEFINE x == StillHeld(v, node[n].held)
           c == [node[n] EXCEPT !.held = x]
<1>1. x \in BOOLEAN
  BY DEF StillHeld
<1>2. node' = [node EXCEPT ![n] = c]
  OBVIOUS
<1>3. node[n] \in Fields
  OBVIOUS
<1> HIDE DEF x
<1>4. c \in Fields /\ c.running = node[n].running
  BY <1>1, <1>3, FieldType, Zenon
<1> HIDE DEF c
<1> QED BY <1>2, <1>4

LEMMA GossipFits ==
    ASSUME VersionInv, NEW i \in Node, NEW j \in Node,
           GossipTick(i, j) \/ GossipArrives(i, j) \/ GossipLost(i, j)
    PROVE  VersionInv'
<1>0. Reserve \in Nat /\ node \in [Node -> Fields] /\ <<i, j>> \in Node \X Node
  BY ReserveType DEF VersionInv
<1>1. ASSUME GossipTick(i, j) PROVE VersionInv'
  <2> DEFINE w == LeaderActions(i, view[i], node[i].held)
  <2>1. /\ UNCHANGED <<options, budget, leaves>>
        /\ view' = [view EXCEPT ![i] = w] /\ link' = [link EXCEPT ![<<i, j>>] = w]
        /\ node' = [node EXCEPT ![i].held = StillHeld(view[i], @)]
    BY <1>1 DEF GossipTick
  <2>2. Reserve' = Reserve /\ budget' \in Budgets /\ leaves' \subseteq Node \X Node
    BY <2>1, NothingOwed
  <2>3. node' \in [Node -> Fields] /\ \A m \in Node : node'[m].running = node[m].running
    BY <1>0, <2>1, HeldStep, Zenon
  <2>4. Fits(w, node, Reserve)
    BY <1>0, LeaderActionsFit DEF VersionInv
  <2> HIDE DEF w
  <2>5. Reserve' \in Nat /\ Reserve' <= Reserve
    BY <1>0, <2>2
  <2>6. Fits(w, node', Reserve')
    BY <1>0, <2>3, <2>4, <2>5, FitsKept
  <2>7. view' = [m \in Node |-> view'[m]] /\ \A m \in Node : view'[m] = view[m] \/ Fits(view'[m],
  node', Reserve')
    BY <2>1, <2>6 DEF VersionInv
  <2>8. /\ link' = [p \in Node \X Node |-> link'[p]]
        /\ \A p \in Node \X Node : link'[p] = link[p] \/ Fits(link'[p], node', Reserve')
    BY <2>1, <2>6, Zenon DEF VersionInv
  <2> QED BY <2>1, <2>2, <2>3, <2>5, <2>7, <2>8, VersionsStep, Zenon
<1>2. ASSUME GossipArrives(i, j) PROVE VersionInv'
  <2> DEFINE frame == link[<<i, j>>]
             merged == AfterGossip(j, view[j], i, frame)
             w == LeaderActions(j, merged, node[j].held)
  <2>1. /\ UNCHANGED <<options, budget, leaves>> /\ frame # None
        /\ view' = [view EXCEPT ![j] = w] /\ link' = [link EXCEPT ![<<i, j>>] = None]
        /\ node' = [node EXCEPT ![j].held = StillHeld(merged, @)]
    BY <1>2 DEF GossipArrives
  <2>2. Reserve' = Reserve /\ budget' \in Budgets /\ leaves' \subseteq Node \X Node
    BY <2>1, NothingOwed
  <2>3. Fits(frame, node, Reserve) /\ Fits(view[j], node, Reserve)
    BY <1>0, <2>1 DEF VersionInv
  <2>4. Reserve + 6 <= MaxVersion
    <3> DEFINE before == Reserve
    <3>1. before \in Nat /\ before + 6 <= Epoch /\ Epoch \in Nat /\ MaxVersion \in Nat /\ 2 * Epoch <= MaxVersion
      BY <1>0, EpochAssumption DEF VersionInv
    <3> HIDE DEF before
    <3>2. before + 6 <= MaxVersion
      BY <3>1
    <3> QED BY <3>2 DEF before
  <2> HIDE DEF frame
  <2>5. Fits(merged, node, Reserve)
    BY <1>0, <2>3, <2>4, AfterGossipFits
  <2> HIDE DEF merged
  <2>6. Fits(w, node, Reserve)
    BY <1>0, <2>5, LeaderActionsFit
  <2> HIDE DEF w
  <2>7. node' \in [Node -> Fields] /\ \A m \in Node : node'[m].running = node[m].running
    BY <1>0, <2>1, HeldStep, Zenon
  <2>8. Reserve' \in Nat /\ Reserve' <= Reserve
    BY <1>0, <2>2
  <2>9. Fits(w, node', Reserve')
    BY <1>0, <2>6, <2>7, <2>8, FitsKept
  <2>10. view' = [m \in Node |-> view'[m]] /\ \A m \in Node : view'[m] = view[m] \/ Fits(view'[m],
  node', Reserve')
    BY <2>1, <2>9 DEF VersionInv
  <2>11. /\ link' = [p \in Node \X Node |-> link'[p]]
         /\ \A p \in Node \X Node : link'[p] = link[p] \/ link'[p] = None
    BY <2>1, Zenon DEF VersionInv
  <2> QED BY <2>1, <2>2, <2>7, <2>8, <2>10, <2>11, VersionsStep, Zenon
<1>3. ASSUME GossipLost(i, j) PROVE VersionInv'
  <2>1. /\ UNCHANGED <<options, node, view, leaves>> /\ link' = [link EXCEPT ![<<i, j>>] = None]
        /\ Spend("losses") \/ UNCHANGED budget
    BY <1>3 DEF GossipLost
  <2>2. leaves' \subseteq Node \X Node
    BY <2>1 DEF VersionInv
  <2>3. Reserve' \in Nat /\ Reserve' <= Reserve /\ budget' \in Budgets
    <3>1. CASE Spend("losses")
      BY <2>1, <3>1, LossOwed
    <3>2. CASE UNCHANGED budget
      BY <1>0, <2>1, <3>2, NothingOwed
    <3> QED BY <2>1, <3>1, <3>2
  <2>4. view' = [m \in Node |-> view'[m]] /\ \A m \in Node : view'[m] = view[m]
    BY <2>1 DEF VersionInv
  <2>5. /\ link' = [p \in Node \X Node |-> link'[p]]
        /\ \A p \in Node \X Node : link'[p] = link[p] \/ link'[p] = None
    BY <2>1, Zenon DEF VersionInv
  <2>6. node' \in [Node -> Fields] /\ \A m \in Node : node'[m].running => node[m].running
    BY <1>0, <2>1
  <2> QED BY <2>1, <2>2, <2>3, <2>4, <2>5, <2>6, VersionsStep
<1> QED BY <1>1, <1>2, <1>3

\* A step that changes one map only.
LEMMA OneMapFits ==
    ASSUME VersionInv, NEW n \in Node, NEW w, view' = [view EXCEPT ![n] = w] \/ view' = view,
           Fits(w, node, Reserve') \/ view' = view, UNCHANGED <<options, node, link>>,
           budget' \in Budgets, leaves' \subseteq Node \X Node, Reserve' \in Nat,
           Reserve' <= Reserve
    PROVE  VersionInv'
<1>1. node' \in [Node -> Fields] /\ \A m \in Node : node'[m].running => node[m].running
  BY DEF VersionInv
<1>2. view' = [m \in Node |-> view'[m]] /\ \A m \in Node : view'[m] = view[m] \/ Fits(view'[m],
node', Reserve')
  BY DEF VersionInv
<1>3. link' = [p \in Node \X Node |-> link'[p]] /\ \A p \in Node \X Node : link'[p] = link[p]
  BY DEF VersionInv
<1> QED BY <1>1, <1>2, <1>3, VersionsStep

\* A tombstone costs two versions and leaves nothing to rise for.
LEMMA TombstoneFits ==
    ASSUME NEW v, NEW c \in [Node -> Fields], NEW x \in Nat, NEW y \in Nat, Fits(v, c, x),
    NEW m \in Node,
           v[m] # None, y <= x, y + 2 <= x \/ (v[m].status = "unreachable" /\ ~c[m].running)
    PROVE  Fits(Tombstoned(v, m), c, y)
<1> DEFINE r == v[m]
           k == Rank(r.status, c[m].running)
           new == [status |-> "removed", version |-> r.version + 2]
<1>1. c[m].running \in BOOLEAN /\ Room(r, c[m].running, x)
  BY DEF Fits, Fields
<1>2. k \in 0..5
  BY <1>1, RankBounds, Zenon
<1>3. y + 2 <= x \/ k = 2
  BY DEF Rank
<1>4. Rank("removed", c[m].running) = 0 /\ "removed" \in Status
  BY DEF Rank, Status
<1>5. Rank("removed", c[m].running) + 2 + y <= k + x
  <2> HIDE DEF k
  <2> QED BY <1>2, <1>3, <1>4
<1>6. 2 \in Nat /\ r # None
  OBVIOUS
<1>7. Room(new, c[m].running, y)
  <2> HIDE DEF r
  <2> QED BY <1>1, <1>4, <1>5, <1>6, RoomRises
<1>8. Fits(v, c, y)
  BY FitsKept
<1>9. Tombstoned(v, m) = [v EXCEPT ![m] = new]
  BY DEF Tombstoned
<1> HIDE DEF new
<1>10. Fits([v EXCEPT ![m] = new], c, y)
  BY <1>7, <1>8, PlaceFits
<1> QED BY <1>9, <1>10

LEMMA PeerFits ==
    ASSUME VersionInv, NEW i \in Node, NEW j \in Node,
           Heartbeat(i, j) \/ LeaveArrives(i, j) \/ LeaveLost(i, j)
    PROVE  VersionInv'
<1>0. Reserve \in Nat /\ node \in [Node -> Fields] /\ Fits(view[j], node, Reserve)
  BY ReserveType DEF VersionInv
<1>1. ASSUME Heartbeat(i, j) PROVE VersionInv'
  <2> DEFINE w == SetStatus(view[j], i, "up")
  <2>1. /\ UNCHANGED <<options, budget, node, link, leaves>> /\ node[i].running
        /\ view[j][i] # None /\ view[j][i].status = "unreachable" /\ view' = [view EXCEPT ![j] = w]
    BY <1>1 DEF Heartbeat, In, Running
  <2>2. Reserve' = Reserve /\ budget' \in Budgets /\ leaves' \subseteq Node \X Node
    BY <2>1, NothingOwed
  <2>3. Room(view[j][i], node[i].running, Reserve) /\ node[i].running \in BOOLEAN
    BY <1>0 DEF Fits, Fields
  <2>4. Room(WithStatus(view[j][i], "up"), node[i].running, Reserve)
    BY <1>0, <2>1, <2>3, StatusRises, Zenon
  <2>5. Fits(w, node, Reserve)
    BY <1>0, <2>1, <2>4, SetStatusFits, Zenon
  <2> HIDE DEF w
  <2>6. Reserve' \in Nat /\ Reserve' <= Reserve /\ Fits(w, node, Reserve')
    BY <1>0, <2>2, <2>5
  <2> QED BY <2>1, <2>2, <2>6, OneMapFits, Zenon
<1>2. ASSUME LeaveArrives(i, j) PROVE VersionInv'
  <2> DEFINE w == Tombstoned(view[j], i)
  <2>1. /\ UNCHANGED <<options, budget, node, link>> /\ <<i, j>> \in leaves
        /\ leaves' = leaves \ {<<i, j>>}
        /\ view' = view \/ (view[j][i] # None /\ view' = [view EXCEPT ![j] = w])
    BY <1>2 DEF LeaveArrives
  <2>2. budget' \in Budgets /\ budget \in Budgets
    BY <2>1 DEF VersionInv
  <2>3. Owed(leaves', budget') + 1 = Owed(leaves, budget) /\ leaves' \subseteq Node \X Node
    BY <2>1, <2>2, OneLeaveLess
  <2>4. Reserve' \in Nat /\ Reserve' + 2 <= Reserve /\ Reserve' <= Reserve
    <3> DEFINE after == Reserve'
               before == Reserve
               owed == Owed(leaves', budget')
               was == Owed(leaves, budget)
    <3>1. after = 2 * owed /\ before = 2 * was
      BY DEF Reserve, Owed
    <3>2. owed \in Nat /\ was \in Nat /\ owed + 1 = was
      BY <2>2, <2>3, OwedType DEF VersionInv
    <3> HIDE DEF after, before, owed, was
    <3>3. after \in Nat /\ after + 2 <= before /\ after <= before
      BY <3>1, <3>2
    <3> QED BY <3>3 DEF after, before
  <2>5. CASE view' = view
    BY <2>1, <2>2, <2>3, <2>4, <2>5, OneMapFits
  <2>6. CASE view[j][i] # None /\ view' = [view EXCEPT ![j] = w]
    <3>1. Fits(w, node, Reserve')
      BY <1>0, <2>4, <2>6, TombstoneFits, Zenon
    <3> HIDE DEF w
    <3> QED BY <2>1, <2>2, <2>3, <2>4, <2>6, <3>1, OneMapFits, Zenon
  <2> QED BY <2>1, <2>5, <2>6
<1>3. ASSUME LeaveLost(i, j) PROVE VersionInv'
  <2>1. /\ UNCHANGED <<options, node, view, link>> /\ Spend("losses")
        /\ leaves' \subseteq leaves
    BY <1>3 DEF LeaveLost
  <2>2. leaves' \subseteq Node \X Node
    BY <2>1 DEF VersionInv
  <2>3. Reserve' \in Nat /\ Reserve' <= Reserve /\ budget' \in Budgets
    BY <2>1, LossOwed
  <2> QED BY <2>1, <2>2, <2>3, OneMapFits
<1> QED BY <1>1, <1>2, <1>3

-----------------------------------------------------------------------------
(* failureDetectionTick *)

\* A node found silent that runs is paid for.
LEMMA SilentOwed ==
    ASSUME VersionInv, NEW m \in Node, Silent(m), UNCHANGED leaves
    PROVE  /\ Reserve' \in Nat /\ Reserve' <= Reserve
           /\ node[m].running => Reserve' + 2 <= Reserve
           /\ budget' \in Budgets /\ leaves' \subseteq Node \X Node
<1>0. Reserve \in Nat /\ leaves' \subseteq Node \X Node
  BY ReserveType DEF VersionInv
<1>1. CASE node[m].running
  <2>1. Spend("suspicions")
    BY <1>1 DEF Silent, Running
  <2>2. Reserve' \in Nat /\ Reserve' + 2 <= Reserve /\ budget' \in Budgets
    BY <2>1, StartOwed
  <2> DEFINE after == Reserve'
             before == Reserve
  <2>3. after \in Nat /\ before \in Nat /\ after + 2 <= before
    BY <1>0, <2>2, Zenon
  <2> HIDE DEF after, before
  <2>4. after <= before
    BY <2>3
  <2>5. Reserve' <= Reserve
    BY <2>4 DEF after, before
  <2> QED BY <1>0, <2>2, <2>5, Zenon
<1>2. CASE ~node[m].running
  <2>1. UNCHANGED budget
    BY <1>2 DEF Silent, Running
  <2>2. Reserve' = Reserve /\ budget' \in Budgets
    BY <2>1, NothingOwed
  <2> QED BY <1>0, <1>2, <2>2
<1> QED BY <1>1, <1>2

LEMMA DetectorFits ==
    ASSUME VersionInv, NEW n \in Node, NEW m \in Node,
           Suspect(n, m) \/ AutoDown(n, m) \/ DownUnreachable(n, m)
    PROVE  VersionInv'
<1>0. /\ Reserve \in Nat /\ node \in [Node -> Fields] /\ Fits(view[n], node, Reserve)
      /\ node[m].running \in BOOLEAN
  BY ReserveType DEF VersionInv, Fields
<1>1. ASSUME Suspect(n, m) PROVE VersionInv'
  <2> DEFINE w == SetStatus(view[n], m, "unreachable")
             r == view[n][m]
  <2>1. /\ UNCHANGED <<options, node, link, leaves>> /\ Silent(m)
        /\ r # None /\ r.status \in {"joining", "weakly-up", "up", "leaving"}
        /\ view' = [view EXCEPT ![n] = w]
    BY <1>1 DEF Suspect, In
  <2>2. /\ Reserve' \in Nat /\ Reserve' <= Reserve
        /\ node[m].running => Reserve' + 2 <= Reserve
        /\ budget' \in Budgets /\ leaves' \subseteq Node \X Node
    BY <2>1, SilentOwed
  <2>3. Fits(view[n], node, Reserve')
    BY <1>0, <2>2, FitsKept
  <2>4. Room(r, node[m].running, Reserve)
    BY <1>0 DEF Fits
  <2>5. Rank("unreachable", node[m].running) + 1 + Reserve' <= Rank(r.status,
  node[m].running) + Reserve
    <3> DEFINE rank == Rank(r.status, node[m].running)
    <3>1. rank \in 3..5
      BY <2>1 DEF Rank
    <3>2. Rank("unreachable", node[m].running) = IF node[m].running THEN 4 ELSE 2
      BY DEF Rank
    <3> DEFINE after == Reserve'
               before == Reserve
    <3>3. after \in Nat /\ before \in Nat /\ after <= before /\ (node[m].running => after + 2 <= before)
      BY <1>0, <2>2, Zenon
    <3> HIDE DEF after, before, rank
    <3>4. CASE node[m].running
      <4>1. 4 + 1 + after <= rank + before
        BY <3>1, <3>3, <3>4
      <4> QED BY <3>2, <3>4, <4>1, Zenon DEF after, before, rank
    <3>5. CASE ~node[m].running
      <4>1. 2 + 1 + after <= rank + before
        BY <3>1, <3>3
      <4> QED BY <3>2, <3>5, <4>1 DEF after, before, rank
    <3> QED BY <3>4, <3>5
  <2>6. Room(WithStatus(r, "unreachable"), node[m].running, Reserve')
    <3>1. "unreachable" \in Status /\ 1 \in Nat
      BY DEF Status
    <3>2. Room([status |-> "unreachable", version |-> r.version + 1], node[m].running, Reserve')
      <4> HIDE DEF r
      <4> QED BY <1>0, <2>1, <2>2, <2>4, <2>5, <3>1, RoomRises
    <3> QED BY <3>2 DEF WithStatus
  <2>7. Fits(w, node, Reserve')
    BY <1>0, <2>1, <2>2, <2>3, <2>6, SetStatusFits
  <2> HIDE DEF w
  <2> QED BY <2>1, <2>2, <2>7, OneMapFits, Zenon
<1>2. ASSUME AutoDown(n, m) PROVE VersionInv'
  <2> DEFINE w == [view[n] EXCEPT ![m] = None]
  <2>1. UNCHANGED <<options, node, link, leaves>> /\ Silent(m) /\ view' = [view EXCEPT ![n] = w]
    BY <1>2 DEF AutoDown
  <2>2. /\ Reserve' \in Nat /\ Reserve' <= Reserve
        /\ budget' \in Budgets /\ leaves' \subseteq Node \X Node
    BY <2>1, SilentOwed
  <2>3. Fits(view[n], node, Reserve')
    BY <1>0, <2>2, FitsKept
  <2>4. Fits(w, node, Reserve')
    BY <2>3, PlaceFits DEF Room
  <2> HIDE DEF w
  <2> QED BY <2>1, <2>2, <2>4, OneMapFits, Zenon
<1>3. ASSUME DownUnreachable(n, m) PROVE VersionInv'
  <2> DEFINE w == Tombstoned(view[n], m)
  <2>1. /\ UNCHANGED <<options, budget, node, link, leaves>> /\ ~node[m].running
        /\ view[n][m] # None /\ view[n][m].status = "unreachable" /\ view' = [view EXCEPT ![n] = w]
    BY <1>3 DEF DownUnreachable, In, Running
  <2>2. Reserve' = Reserve /\ budget' \in Budgets /\ leaves' \subseteq Node \X Node
    BY <2>1, NothingOwed
  <2>3. Reserve' \in Nat /\ Reserve' <= Reserve
    BY <1>0, <2>2
  <2>4. Fits(w, node, Reserve')
    BY <1>0, <2>1, <2>3, TombstoneFits
  <2> HIDE DEF w
  <2> QED BY <2>1, <2>2, <2>3, <2>4, OneMapFits, Zenon
<1> QED BY <1>1, <1>2, <1>3

-----------------------------------------------------------------------------
(* Versions *)

LEMMA VersionsNext ==
    ASSUME NoneIsNoRecord, OwnInv, VersionInv, [Next]_vars PROVE VersionInv'
<1>1. CASE UNCHANGED vars
  <2>1. UNCHANGED <<options, budget, node, view, link, leaves>>
    BY <1>1 DEF vars
  <2>2. Reserve' = Reserve
    BY <2>1 DEF Reserve
  <2> QED BY <2>1, <2>2 DEF VersionInv
<1>2. CASE Next
  <2>1. \A n \in Node :
          Start(n) \/ ContactSeeds(n) \/ WeaklyUpTimerFires(n) \/ Leave(n) \/ Crash(n) => VersionInv'
    BY StartFits, LifeFits
  <2>2. \A i, j \in Node :
          GossipTick(i, j) \/ GossipArrives(i, j) \/ GossipLost(i, j) => VersionInv'
    BY GossipFits
  <2>3. \A i, j \in Node : Heartbeat(i, j) \/ LeaveArrives(i, j) \/ LeaveLost(i, j) => VersionInv'
    BY PeerFits
  <2>4. \A i, j \in Node : Suspect(i, j) \/ AutoDown(i, j) \/ DownUnreachable(i, j) => VersionInv'
    BY DetectorFits
  <2> QED BY <1>2, <2>1, <2>2, <2>3, <2>4 DEF Next
<1> QED BY <1>1, <1>2

LEMMA VersionsTyped == ASSUME VersionInv PROVE TypeOK
<1>1. Reserve \in Nat /\ node \in [Node -> Fields]
  BY ReserveType DEF VersionInv
<1>2. ASSUME NEW v, Fits(v, node, Reserve) PROVE v \in [Node -> Record \cup {None}]
  <2>1. \A m \in Node : v[m] # None => v[m] \in Record
    BY <1>1, <1>2, FitsBounded
  <2>2. IsMap(v)
    BY <1>2 DEF Fits
  <2> QED BY <2>1, <2>2 DEF IsMap
<1> DEFINE Maps == [Node -> Record \cup {None}]
<1>3. \A n \in Node : view[n] \in Maps
  BY <1>2 DEF VersionInv
<1>4. \A p \in Node \X Node : link[p] \in Maps \cup {None}
  BY <1>2 DEF VersionInv
<1>5. view = [n \in Node |-> view[n]] /\ link = [p \in Node \X Node |-> link[p]] /\ leaves \subseteq Node \X Node
  BY DEF VersionInv
<1> HIDE DEF Maps
<1>6. view \in [Node -> Maps] /\ link \in [Node \X Node -> Maps \cup {None}]
  BY <1>3, <1>4, <1>5
<1> QED BY <1>1, <1>5, <1>6 DEF Maps, TypeOK, Fields

\* For every number of nodes and every budget of faults an epoch has room for:
\* the maps and the frames hold records whose versions stay within the bound.  No
\* exchange of frames raises a version beyond what its status allows (withStatus,
\* mergeMember, onLeave, applyDowningDecision); only a start, a suspicion of a node
\* that runs and a leave frame do.
THEOREM VersionsStayBounded ==
    ASSUME NoneIsNoRecord PROVE FairSpec => []TypeOK
<1>1. Init => OwnInv /\ VersionInv
  BY OwnInvInit, VersionsInit
<1>2. OwnInv /\ VersionInv /\ [Next]_vars => (OwnInv /\ VersionInv)'
  BY OwnStep, VersionsNext
<1>3. VersionInv => TypeOK
  BY VersionsTyped
<1> QED BY <1>1, <1>2, <1>3, PTL DEF FairSpec
=============================================================================
