--------------------------- MODULE ClusterSingleton ---------------------------
(* The cluster singleton (src/src/cluster/singleton/ClusterSingletonManager.ts) *)
(* over its lease: one manager per node, each deciding from its own view of    *)
(* the membership whether it hosts, asking its peers to stand down before it   *)
(* does, and, where a lease is configured, hosting only while it holds it.     *)
(*                                                                             *)
(* A handler is a function from a manager's state to its next state.  What it  *)
(* does outside the manager goes with that state: out, the frames it sends,    *)
(* and release, whether it calls lease.release().  Step applies all three.     *)
EXTENDS Naturals, Sequences, FiniteSets, FiniteSetsExt

CONSTANTS
    NumNodes,           \* nodes are 1..NumNodes, numbered in address order
    Ttl, NoLease,       \* as in InMemoryLease
    InitialViews,       \* the views the managers may start in
    ViewValues,         \* the statuses a member may take in a view later
    Scenarios,          \* the deployments considered, [options, budget], each with its
                        \* bounds: how many changes of view, lost frames, hand-over
                        \* deadlines, deaths and lapses of a lease a behaviour has
    MaxInbox            \* bound: messages waiting when a frame or a retry arrives

Node == 1..NumNodes

VARIABLES
    options,            \* ClusterSingletonManagerOptions, the same on every node
    view,               \* Cluster.members of each node: the status of every member
    mgr,                \* the managers
    alive,              \* whether an instance of the singleton runs on the node
    calling,            \* lease.acquire() is in flight
    net,                \* hand-over frames on the wire: <<kind, from, to>>
    store, held, left,  \* the lease
    budget,             \* what remains of the bounds
    lapsed              \* history: a held lease has reached its deadline unrenewed

managerVars == <<options, view, mgr, alive, calling, net>>
leaseVars == <<store, held, left>>
vars == <<managerVars, leaseVars, budget, lapsed>>

Lease == INSTANCE InMemoryLease WITH Owner <- Node

-----------------------------------------------------------------------------
(* The view.  A member is up, unreachable, known in some other status          *)
(* (joining, leaving, down), or no longer a member at all.                     *)

Statuses == {"up", "unreachable", "other", "gone"}

ASSUME DeploymentAssumption ==
    /\ InitialViews \subseteq [Node -> [Node -> Statuses]] /\ ViewValues \subseteq Statuses
    /\ \A scenario \in Scenarios : scenario.options \in [lease : BOOLEAN, restart : BOOLEAN]

UpMembers(v) == {m \in Node : v[m] = "up"}

\* leader(): the lowest-addressed up member, 0 if there is none.
SingletonHost(v) == IF UpMembers(v) = {} THEN 0 ELSE Min(UpMembers(v))

\* Every other node that could be running the singleton in this view.
HandOverPeers(n, v) == UpMembers(v) \ {n}

WantHosted(n, v, s) == ~s.terminallyStopped /\ SingletonHost(v) = n

-----------------------------------------------------------------------------
(* Pieces of the handlers.                                                     *)

Tell(s, event) == [s EXCEPT !.inbox = Append(@, event)]

Request(n, m) == <<"request", n, m>>
Ack(n, m) == <<"ack", n, m>>

Send(s, frames) == [s EXCEPT !.out = @ \cup frames]

Spawn(s) == IF s.child \/ s.pendingStop THEN s ELSE [s EXCEPT !.child = TRUE]

StopChild(s) ==
    IF s.child THEN [s EXCEPT !.pendingStop = TRUE, !.child = FALSE] ELSE s

ReleaseLease(s) ==
    IF options.lease /\ s.leaseState = "held"
    THEN [s EXCEPT !.leaseState = "none", !.release = TRUE] ELSE s

\* Every eligible peer is asked to stand down; with none to ask, host at once.
TakeOverHosting(n, v, s) ==
    IF s.child \/ s.pendingStop \/ s.asking THEN s
    ELSE IF HandOverPeers(n, v) = {} THEN Spawn(s)
    ELSE Send([s EXCEPT !.asking = TRUE, !.timer = TRUE,
                        !.awaiting = HandOverPeers(n, v)],
              {Request(n, m) : m \in HandOverPeers(n, v)})

\* Mutant: the answers still awaited survive it.
CompleteHandOverKeepsAwaiting(n, v, s) ==
    LET done == [s EXCEPT !.asking = FALSE, !.timer = FALSE]
    IN  IF ~WantHosted(n, v, s) THEN done
        ELSE IF options.lease /\ s.leaseState # "held" THEN done
        ELSE Spawn(done)

\* Host after the hand-over, unless the host or the lease moved meanwhile.
CompleteHandOver(n, v, s) ==
    LET done == [s EXCEPT !.asking = FALSE, !.timer = FALSE, !.awaiting = {}]
    IN  IF ~WantHosted(n, v, s) THEN done
        ELSE IF options.lease /\ s.leaseState # "held" THEN done
        ELSE Spawn(done)

\* Only once there is neither a child nor one still stopping.
AnswerHandOverRequesters(n, s) ==
    IF s.child \/ s.pendingStop THEN s
    ELSE Send([s EXCEPT !.requesters = {}], {Ack(n, m) : m \in s.requesters})

ReconcileSync(n, v, s) ==
    CASE WantHosted(n, v, s) /\ ~s.child -> TakeOverHosting(n, v, s)
      [] ~WantHosted(n, v, s) /\ s.child -> StopChild(s)
      [] OTHER -> s

\* Mutant: the lease is released as soon as the child is
\* told to stop.
HandleReconcileReleasesEarly(n, v, s) ==
    IF ~options.lease THEN ReconcileSync(n, v, s)
    ELSE IF WantHosted(n, v, s) THEN
        CASE s.leaseState = "held" -> TakeOverHosting(n, v, s)
          [] s.leaseState = "acquiring" -> s
          [] OTHER -> [s EXCEPT !.retryTimer = FALSE, !.leaseState = "acquiring",
                                !.acquire = TRUE]
    ELSE IF s.leaseState = "held" THEN ReleaseLease(StopChild(s)) ELSE s

\* Mutant: a held lease is read as a running child.
HandleReconcileReadsHeldAsRunning(n, v, s) ==
    IF ~options.lease THEN ReconcileSync(n, v, s)
    ELSE IF WantHosted(n, v, s) THEN
        IF s.leaseState # "none" THEN s
        ELSE [s EXCEPT !.retryTimer = FALSE, !.leaseState = "acquiring", !.acquire = TRUE]
    ELSE IF s.leaseState # "held" THEN s
    ELSE LET stopped == StopChild(s)
         IN  IF stopped.pendingStop
             THEN [stopped EXCEPT !.releaseLeaseWhenChildStops = TRUE]
             ELSE ReleaseLease(stopped)

\* The lease is released only once the outgoing child has terminated.
HandleReconcile(n, v, s) ==
    IF ~options.lease THEN ReconcileSync(n, v, s)
    ELSE IF WantHosted(n, v, s) THEN
        CASE s.leaseState = "held" -> TakeOverHosting(n, v, s)
          [] s.leaseState = "acquiring" -> s
          [] OTHER -> [s EXCEPT !.retryTimer = FALSE, !.leaseState = "acquiring",
                                !.acquire = TRUE]
    ELSE
        CASE s.leaseState = "held" ->
                LET stopped == StopChild(s)
                IN  IF stopped.pendingStop
                    THEN [stopped EXCEPT !.releaseLeaseWhenChildStops = TRUE]
                    ELSE ReleaseLease(stopped)
          [] s.leaseState = "acquiring" -> s
          [] OTHER -> [s EXCEPT !.retryTimer = FALSE]

\* The no-lease manager reconciles inside the cluster's callback; the other
\* queues the reconcile behind what is already in its mailbox.
OnClusterMembershipChanged(n, v, s) ==
    IF options.lease THEN Tell(s, <<"reconcile">>) ELSE ReconcileSync(n, v, s)

-----------------------------------------------------------------------------
(* The handlers, one per kind of message in the manager's mailbox.             *)

OnChildDiedUnexpectedly(s) ==
    IF options.restart THEN [s EXCEPT !.child = FALSE, !.restartTimer = TRUE]
    ELSE ReleaseLease([s EXCEPT !.child = FALSE, !.terminallyStopped = TRUE])

HandleTerminated(n, v, s) ==
    IF s.pendingStop THEN
        LET answered == AnswerHandOverRequesters(n, [s EXCEPT !.pendingStop = FALSE])
            released == IF answered.releaseLeaseWhenChildStops
                        THEN ReleaseLease([answered EXCEPT
                                             !.releaseLeaseWhenChildStops = FALSE])
                        ELSE answered
        IN  OnClusterMembershipChanged(n, v, released)
    ELSE IF s.child THEN AnswerHandOverRequesters(n, OnChildDiedUnexpectedly(s))
    ELSE s

\* The respawn after the backoff goes straight to Spawn.
OnRestartChild(n, v, s) ==
    IF ~WantHosted(n, v, s) \/ s.child \/ s.pendingStop THEN s
    ELSE IF options.lease /\ s.leaseState # "held" THEN Tell(s, <<"reconcile">>)
    ELSE Spawn(s)

OnLeaseAcquireResult(n, v, s, got) ==
    CASE s.leaseState # "acquiring" -> [s EXCEPT !.release = got]
      [] s.leaseState = "acquiring" /\ ~got ->
            [s EXCEPT !.leaseState = "none", !.retryTimer = TRUE]
      [] s.leaseState = "acquiring" /\ got /\ ~WantHosted(n, v, s) ->
            [s EXCEPT !.leaseState = "none", !.release = TRUE]
      [] OTHER -> TakeOverHosting(n, v, [s EXCEPT !.leaseState = "held"])

OnLeaseLost(s) ==
    IF s.leaseState # "held" THEN s
    ELSE LET stopped == [StopChild(s) EXCEPT !.leaseState = "none"]
         IN  IF stopped.pendingStop THEN stopped ELSE Tell(stopped, <<"reconcile">>)

OnHandOverAcknowledgment(n, v, s, m) ==
    IF ~s.asking \/ m \notin s.awaiting THEN s
    ELSE LET heard == [s EXCEPT !.awaiting = @ \ {m}]
         IN  IF heard.awaiting # {} THEN heard ELSE CompleteHandOver(n, v, heard)

OnHandOverTimeout(n, v, s) == IF s.asking THEN CompleteHandOver(n, v, s) ELSE s

\* Peers that are no longer eligible are no longer waited for; the rest are
\* asked again.
OnHandOverRetry(n, v, s) ==
    IF ~s.asking THEN s
    ELSE LET pruned == [s EXCEPT !.awaiting = @ \cap HandOverPeers(n, v)]
         IN  IF pruned.awaiting = {} THEN CompleteHandOver(n, v, pruned)
             ELSE Send(pruned, {Request(n, m) : m \in pruned.awaiting})

\* A member may ask; one that sorts after a node that hosts may not.
AdmitsHandOverFrom(n, v, s, m) ==
    v[m] # "gone" /\ ~(WantHosted(n, v, s) /\ m > n)

OnHandOverRequest(n, v, s, m) ==
    CASE ~AdmitsHandOverFrom(n, v, s, m) -> s
      [] AdmitsHandOverFrom(n, v, s, m) /\ (s.child \/ s.pendingStop) ->
            StopChild([s EXCEPT !.requesters = @ \cup {m}])
      [] OTHER -> Send(s, {Ack(n, m)})

OnReceive(n, v, s, event) ==
    CASE event[1] = "terminated" -> HandleTerminated(n, v, s)
      [] event[1] = "reconcile" -> HandleReconcile(n, v, s)
      [] event[1] = "acquire-retry" -> HandleReconcile(n, v, s)
      [] event[1] = "acquire-result" -> OnLeaseAcquireResult(n, v, s, event[2])
      [] event[1] = "lease-lost" -> OnLeaseLost(s)
      [] event[1] = "restart-child" -> OnRestartChild(n, v, s)
      [] event[1] = "hand-over-timeout" -> OnHandOverTimeout(n, v, s)
      [] event[1] = "hand-over-retry" -> OnHandOverRetry(n, v, s)
      [] event[1] = "request" -> OnHandOverRequest(n, v, s, event[2])
      [] event[1] = "ack" -> OnHandOverAcknowledgment(n, v, s, event[2])

-----------------------------------------------------------------------------
(* The steps.                                                                  *)

\* Install a manager's next state and do what the handler did outside it.
\* A release is of a lease the manager holds; if the lease object is no longer
\* held it does nothing.
Step(n, s) ==
    /\ mgr' = [mgr EXCEPT ![n] = [s EXCEPT !.out = {}, !.release = FALSE, !.acquire = FALSE]]
    /\ net' = net \cup s.out
    /\ alive' = [alive EXCEPT ![n] = @ \/ (s.child /\ ~mgr[n].child)]
    /\ calling' = [calling EXCEPT ![n] = @ \/ s.acquire]
    /\ IF s.release /\ held[n] THEN Lease!Release(n) ELSE UNCHANGED leaseVars

IdleManager ==
    [child |-> FALSE, pendingStop |-> FALSE, leaseState |-> "none",
     releaseLeaseWhenChildStops |-> FALSE, terminallyStopped |-> FALSE,
     asking |-> FALSE, awaiting |-> {}, timer |-> FALSE, requesters |-> {},
     restartTimer |-> FALSE, retryTimer |-> FALSE,
     inbox |-> <<>>, out |-> {}, release |-> FALSE, acquire |-> FALSE]

\* preStart of every manager, in whatever view its node has by then.
Started(n) == OnClusterMembershipChanged(n, view[n], IdleManager)

Init ==
    /\ \E scenario \in Scenarios :
          options = scenario.options /\ budget = scenario.budget
    /\ view \in InitialViews
    /\ mgr = [n \in Node |-> [Started(n) EXCEPT !.out = {}]]
    /\ alive = [n \in Node |-> Started(n).child]
    /\ calling = [n \in Node |-> FALSE]
    /\ net = UNION {Started(n).out : n \in Node}
    /\ Lease!Init
    /\ lapsed = FALSE

Spend(item) == budget[item] > 0 /\ budget' = [budget EXCEPT ![item] = @ - 1]

\* A membership event.  A member that turns unreachable, or joins, makes no manager
\* reconcile unless the leader changes with it; every other change of status does,
\* the way back from unreachable (MemberUp) included.
ViewChanges(n, m, status) ==
    LET v == [view[n] EXCEPT ![m] = status]
        silent == /\ SingletonHost(view[n]) = SingletonHost(v)
                  /\ status = "unreachable" \/ (view[n][m] = "gone" /\ status = "other")
    IN  /\ view[n][m] # status
        /\ n = m => status \in {"up", "other"}
        /\ Spend("views")
        /\ view' = [view EXCEPT ![n] = v]
        /\ Step(n, IF silent THEN mgr[n] ELSE OnClusterMembershipChanged(n, v, mgr[n]))
        /\ UNCHANGED <<options, lapsed>>

\* The manager takes the next message of its mailbox.
Receive(n) ==
    /\ mgr[n].inbox # <<>>
    /\ Step(n, OnReceive(n, view[n], [mgr[n] EXCEPT !.inbox = Tail(@)], Head(mgr[n].inbox)))
    /\ UNCHANGED <<options, view, budget, lapsed>>

\* Something outside the manager puts a message into its mailbox.
Enqueue(n, s, event) == mgr' = [mgr EXCEPT ![n] = Tell(s, event)]

Deliver(frame) ==
    /\ frame \in net
    /\ Len(mgr[frame[3]].inbox) < MaxInbox
    /\ net' = net \ {frame}
    /\ Enqueue(frame[3], mgr[frame[3]], <<frame[1], frame[2]>>)
    /\ UNCHANGED <<options, view, alive, calling, leaseVars, budget, lapsed>>

LoseFrame(frame) ==
    /\ frame \in net
    /\ Spend("lost")
    /\ net' = net \ {frame}
    /\ UNCHANGED <<options, view, mgr, alive, calling, leaseVars, lapsed>>

\* The instance that was told to stop is gone.
ChildStops(n) ==
    /\ alive[n]
    /\ mgr[n].pendingStop
    /\ alive' = [alive EXCEPT ![n] = FALSE]
    /\ Enqueue(n, mgr[n], <<"terminated">>)
    /\ UNCHANGED <<options, view, calling, net, leaseVars, budget, lapsed>>

\* The instance dies on its own.
ChildDies(n) ==
    /\ alive[n]
    /\ mgr[n].child
    /\ Spend("deaths")
    /\ alive' = [alive EXCEPT ![n] = FALSE]
    /\ Enqueue(n, mgr[n], <<"terminated">>)
    /\ UNCHANGED <<options, view, calling, net, leaseVars, lapsed>>

\* The timers.
RestartTimerFires(n) ==
    /\ mgr[n].restartTimer
    /\ Enqueue(n, [mgr[n] EXCEPT !.restartTimer = FALSE], <<"restart-child">>)
    /\ UNCHANGED <<options, view, alive, calling, net, leaseVars, budget, lapsed>>

RetryTimerFires(n) ==
    /\ mgr[n].retryTimer
    /\ Enqueue(n, [mgr[n] EXCEPT !.retryTimer = FALSE], <<"acquire-retry">>)
    /\ UNCHANGED <<options, view, alive, calling, net, leaseVars, budget, lapsed>>

HandOverTimerFires(n) ==
    /\ mgr[n].timer
    /\ Spend("timeouts")
    /\ Enqueue(n, [mgr[n] EXCEPT !.timer = FALSE], <<"hand-over-timeout">>)
    /\ UNCHANGED <<options, view, alive, calling, net, leaseVars, lapsed>>

\* Periodic; a tick that finds the previous one still queued adds nothing, and
\* neither does one while this node's last requests are on their way (bounds).
HandOverRetryFires(n) ==
    /\ mgr[n].asking
    /\ \A i \in DOMAIN mgr[n].inbox : mgr[n].inbox[i] # <<"hand-over-retry">>
    /\ \A m \in Node : Request(n, m) \notin net
    /\ Len(mgr[n].inbox) < MaxInbox
    /\ Enqueue(n, mgr[n], <<"hand-over-retry">>)
    /\ UNCHANGED <<options, view, alive, calling, net, leaseVars, budget, lapsed>>

\* lease.acquire() resolves, and its result is queued.
AcquireResolves(n) ==
    /\ calling[n]
    /\ calling' = [calling EXCEPT ![n] = FALSE]
    /\ IF Lease!Acquirable(n) THEN Lease!Acquire(n) ELSE UNCHANGED leaseVars
    /\ Enqueue(n, mgr[n], <<"acquire-result", Lease!Acquirable(n)>>)
    /\ UNCHANGED <<options, view, alive, net, budget, lapsed>>

\* The renewal loop, and the onLost callback that queues its report.
RenewalTick(n) ==
    /\ \/ Lease!Renew(n) /\ UNCHANGED mgr
       \/ Lease!Lose(n) /\ Enqueue(n, mgr[n], <<"lease-lost">>)
    /\ UNCHANGED <<options, view, alive, calling, net, budget, lapsed>>

\* Time passes.  A lease that is not renewed in time lapses.
TimePasses ==
    /\ \E n \in Node : left[n] > 0
    /\ Lease!Tick
    /\ IF \E n \in Node : held[n] /\ left[n] = 1
       THEN Spend("lapses") /\ lapsed' = TRUE ELSE UNCHANGED <<budget, lapsed>>
    /\ UNCHANGED managerVars

Next ==
    \/ \E n, m \in Node, status \in ViewValues : ViewChanges(n, m, status)
    \/ \E frame \in net : Deliver(frame) \/ LoseFrame(frame)
    \/ \E n \in Node :
          \/ Receive(n) \/ ChildStops(n) \/ ChildDies(n)
          \/ RestartTimerFires(n) \/ RetryTimerFires(n)
          \/ HandOverTimerFires(n) \/ HandOverRetryFires(n)
          \/ AcquireResolves(n) \/ RenewalTick(n)
    \/ TimePasses

Spec == Init /\ [][Next]_vars

\* What the runtime guarantees: mailboxes and timers are served, frames that are
\* not lost arrive, an instance that is told to stop stops, the renewal loop runs.
\* A hand-over deadline may or may not pass before the peers answer.
Fairness ==
    /\ \A n \in Node :
          /\ WF_vars(Receive(n))
          /\ WF_vars(ChildStops(n))
          /\ WF_vars(RestartTimerFires(n))
          /\ WF_vars(RetryTimerFires(n))
          /\ WF_vars(HandOverRetryFires(n))
          /\ WF_vars(AcquireResolves(n))
          /\ WF_vars(RenewalTick(n))
    /\ \A n, m \in Node : WF_vars(Deliver(Request(n, m))) /\ WF_vars(Deliver(Ack(n, m)))

FairSpec == Spec /\ Fairness

-----------------------------------------------------------------------------
(* Properties.                                                                 *)

LeaseStates == {"none", "acquiring", "held"}

TypeOK ==
    /\ options \in [lease : BOOLEAN, restart : BOOLEAN]
    /\ view \in [Node -> [Node -> Statuses]]
    /\ alive \in [Node -> BOOLEAN]
    /\ calling \in [Node -> BOOLEAN]
    /\ net \subseteq {"request", "ack"} \X Node \X Node
    /\ Lease!LeaseTypeOK
    /\ \A n \in Node :
          /\ mgr[n].leaseState \in LeaseStates
          /\ mgr[n].awaiting \subseteq Node /\ mgr[n].requesters \subseteq Node
          /\ mgr[n].asking <=> mgr[n].awaiting # {}

AtMostOne == Cardinality({n \in Node : alive[n]}) <= 1

\* With a lease, at most one instance runs as long as no holder let its lease
\* lapse: whatever the views say, whatever frames are lost and whatever
\* hand-over deadlines pass, because the lease is released only once the
\* outgoing child's Terminated has been observed.
AtMostOneUnderLease == options.lease /\ ~lapsed => AtMostOne

\* The lease the managers use implements the contract of Lease.
ContractHolds == Lease!ContractHolds

Agreed == view = [n \in Node |-> [m \in Node |-> "up"]]

\* Once every node sees every node up, the singleton settles: it runs on the
\* elected host and nowhere else, for good.  No lost frame, late answer, stale
\* timer or unreleased lease leaves it hosted nowhere or twice.
SettlesOnTheHost ==
    (<>[]Agreed /\ []~mgr[1].terminallyStopped)
        => <>[](alive = [n \in Node |-> n = 1])
=============================================================================
