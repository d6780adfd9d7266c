---------------------------- MODULE SingletonProofs ----------------------------
(* The cluster singleton over its lease, for every number of nodes, every TTL,  *)
(* every behaviour of the membership and every loss of frames: the lease keeps  *)
(* its contract, and as long as no lease lapses at most one instance runs.      *)
EXTENDS ClusterSingleton, FiniteSetTheorems, TLAPS

-----------------------------------------------------------------------------
(* The lease by itself *)

\* A TTL is at least one tick, and the absence of a record is not a record.
LeaseConstants ==
    /\ Ttl \in Nat \ {0}
    /\ NoLease \notin [owner : Node, left : 0..Ttl]

\* What makes the contract hold: an owner whose lease object is alive is the one
\* the store's record names, and its own deadline is not later than the record's.
AliveOwnsRecord ==
    \A o \in Node :
        Lease!CheckAlive(o) => /\ store # NoLease
                               /\ store.owner = o
                               /\ left[o] <= store.left

LeaseInv == Lease!LeaseTypeOK /\ AliveOwnsRecord

\* The invariant holds before any owner has acquired.
LEMMA LeaseInvInit == ASSUME LeaseConstants PROVE Lease!Init => LeaseInv
BY DEF Lease!Init, LeaseConstants, LeaseInv, Lease!LeaseTypeOK, AliveOwnsRecord, Lease!CheckAlive

\* An owner that may acquire is the only one whose lease can be alive.
LEMMA AcquirableAlone ==
    ASSUME LeaseConstants, LeaseInv, NEW o \in Node, Lease!Acquirable(o),
           NEW p \in Node, Lease!CheckAlive(p)
    PROVE  p = o
<1> USE DEF LeaseConstants
<1>1. /\ store # NoLease
      /\ store.owner = p
      /\ left[p] <= store.left
  BY DEF LeaseInv, AliveOwnsRecord
<1>2. left[p] \in Nat /\ left[p] > 0
  BY DEF LeaseInv, Lease!LeaseTypeOK, Lease!CheckAlive
<1>3. store.left # 0
  <2>1. store.left \in Nat
    BY <1>1 DEF LeaseInv, Lease!LeaseTypeOK
  <2> QED BY <2>1, <1>1, <1>2
<1> QED BY <1>1, <1>3 DEF Lease!Acquirable

\* Every operation of the store and of the lease objects preserves it.
LEMMA LeaseInvNext ==
    ASSUME LeaseConstants, LeaseInv, [Lease!Next]_leaseVars PROVE LeaseInv'
<1> USE DEF LeaseConstants
<1>1. ASSUME NEW o \in Node, Lease!Acquire(o) PROVE LeaseInv'
  <2>1. Lease!LeaseTypeOK'
    BY <1>1 DEF LeaseInv, Lease!LeaseTypeOK, Lease!Acquire
  <2>2. ASSUME NEW p \in Node, Lease!CheckAlive(p)'
        PROVE  (store # NoLease)' /\ (store.owner = p)' /\ (left[p] <= store.left)'
    <3>1. p = o
      <4>1. CASE p # o
        <5>1. Lease!CheckAlive(p)
          BY <1>1, <2>2, <4>1 DEF Lease!CheckAlive, Lease!Acquire, LeaseInv, Lease!LeaseTypeOK
        <5> QED BY <5>1, <1>1, AcquirableAlone DEF Lease!Acquire
      <4> QED BY <4>1
    <3> QED BY <3>1, <1>1, <2>1 DEF Lease!Acquire, LeaseInv, Lease!LeaseTypeOK
  <2> QED BY <2>1, <2>2 DEF LeaseInv, AliveOwnsRecord
<1>2. ASSUME NEW o \in Node, Lease!Release(o) PROVE LeaseInv'
  <2>1. Lease!LeaseTypeOK'
    BY <1>2 DEF LeaseInv, Lease!LeaseTypeOK, Lease!Release
  <2>2. ASSUME NEW p \in Node, Lease!CheckAlive(p)'
        PROVE  (store # NoLease)' /\ (store.owner = p)' /\ (left[p] <= store.left)'
    <3>1. p # o /\ Lease!CheckAlive(p)
      BY <1>2, <2>2 DEF Lease!CheckAlive, Lease!Release, LeaseInv, Lease!LeaseTypeOK
    <3>2. store' = store /\ left' = left
      BY <3>1, <1>2 DEF Lease!Release, LeaseInv, AliveOwnsRecord
    <3> QED BY <3>1, <3>2 DEF LeaseInv, AliveOwnsRecord
  <2> QED BY <2>1, <2>2 DEF LeaseInv, AliveOwnsRecord
<1>3. ASSUME NEW o \in Node, Lease!Renew(o) PROVE LeaseInv'
  <2>1. Lease!LeaseTypeOK'
    BY <1>3 DEF LeaseInv, Lease!LeaseTypeOK, Lease!Renew, Lease!CanRenew
  <2>2. ASSUME NEW p \in Node, Lease!CheckAlive(p)'
        PROVE  (store # NoLease)' /\ (store.owner = p)' /\ (left[p] <= store.left)'
    <3>1. p = o
      <4>1. CASE p # o
        <5>1. Lease!CheckAlive(p)
          BY <1>3, <2>2, <4>1 DEF Lease!CheckAlive, Lease!Renew, LeaseInv, Lease!LeaseTypeOK
        <5> QED BY <5>1, <1>3, <4>1 DEF Lease!Renew, Lease!CanRenew, LeaseInv, AliveOwnsRecord
      <4> QED BY <4>1
    <3> QED BY <3>1, <1>3, <2>1 DEF Lease!Renew, Lease!CanRenew, LeaseInv, Lease!LeaseTypeOK
  <2> QED BY <2>1, <2>2 DEF LeaseInv, AliveOwnsRecord
<1>4. ASSUME NEW o \in Node, Lease!Lose(o) PROVE LeaseInv'
  BY <1>4 DEF LeaseInv, Lease!LeaseTypeOK, AliveOwnsRecord, Lease!CheckAlive, Lease!Lose
<1>5. CASE Lease!Tick
  <2>1. Lease!LeaseTypeOK'
    BY <1>5 DEF LeaseInv, Lease!LeaseTypeOK, Lease!Tick
  <2>2. ASSUME NEW p \in Node, Lease!CheckAlive(p)'
        PROVE  (store # NoLease)' /\ (store.owner = p)' /\ (left[p] <= store.left)'
    <3>1. left[p] \in Nat /\ left[p] > 1 /\ left'[p] = left[p] - 1 /\ held[p]
      BY <1>5, <2>2 DEF Lease!CheckAlive, Lease!Tick, LeaseInv, Lease!LeaseTypeOK
    <3>2. store # NoLease /\ store.owner = p /\ left[p] <= store.left
      BY <3>1 DEF LeaseInv, AliveOwnsRecord, Lease!CheckAlive
    <3>3. store \in [owner : Node, left : 0..Ttl]
      BY <3>2 DEF LeaseInv, Lease!LeaseTypeOK
    <3>4. store.left \in Nat /\ store.left > 0
      BY <3>1, <3>2, <3>3
    <3>5. store' = [store EXCEPT !.left = @ - 1]
      BY <1>5, <3>2, <3>4 DEF Lease!Tick
    <3>6. store'.owner = p /\ store'.left = store.left - 1
      BY <3>2, <3>3, <3>5
    <3>7. store' # NoLease
      BY <3>3, <3>4, <3>5
    <3> QED BY <3>1, <3>2, <3>4, <3>6, <3>7
  <2> QED BY <2>1, <2>2 DEF LeaseInv, AliveOwnsRecord
<1>6. CASE UNCHANGED leaseVars
  BY <1>6 DEF LeaseInv, Lease!LeaseTypeOK, AliveOwnsRecord, Lease!CheckAlive, leaseVars
<1> QED BY <1>1, <1>2, <1>3, <1>4, <1>5, <1>6 DEF Lease!Next

\* Every step of the lease is a step of the contract, or leaves it unchanged.
LEMMA ContractStep ==
    ASSUME LeaseConstants, LeaseInv, LeaseInv', [Lease!Next]_leaseVars
    PROVE  [Lease!Contract!Next]_({o \in Node : Lease!CheckAlive(o)})
<1> DEFINE Alive == {o \in Node : Lease!CheckAlive(o)}
<1>0. \A o, p \in Node : Lease!CheckAlive(o) /\ Lease!CheckAlive(p) => o = p
  BY DEF LeaseInv, AliveOwnsRecord
<1>1. ASSUME NEW o \in Node, Lease!Acquire(o) PROVE Lease!Contract!Next
  <2>1. Alive \subseteq {o}
    BY <1>1, AcquirableAlone DEF Lease!Acquire
  <2>2. Lease!CheckAlive(o)'
    BY <1>1 DEF Lease!Acquire, Lease!CheckAlive, LeaseInv, Lease!LeaseTypeOK, LeaseConstants
  <2>3. \A p \in Node : Lease!CheckAlive(p)' => p = o
    BY <2>2 DEF LeaseInv, AliveOwnsRecord
  <2>4. Alive' = {o}
    BY <2>2, <2>3
  <2> QED BY <2>1, <2>4 DEF Lease!Contract!Next, Lease!Contract!Acquire
<1>2. ASSUME \A p \in Node : Lease!CheckAlive(p)' => Lease!CheckAlive(p)
      PROVE  Lease!Contract!Drop \/ UNCHANGED Alive
  <2>1. Alive' \subseteq Alive
    BY <1>2
  <2>2. CASE Alive' = {}
    BY <2>2 DEF Lease!Contract!Drop
  <2>3. CASE Alive' # {}
    <3>1. PICK o \in Node : Lease!CheckAlive(o)'
      BY <2>3
    <3>2. Lease!CheckAlive(o)
      BY <3>1, <1>2
    <3>3. Alive = {o}
      BY <3>2, <1>0
    <3>4. Alive' = {o}
      BY <3>1, <3>3, <2>1
    <3> QED BY <3>3, <3>4
  <2> QED BY <2>2, <2>3
<1>3. ASSUME NEW o \in Node, Lease!Release(o)
      PROVE  \A p \in Node : Lease!CheckAlive(p)' => Lease!CheckAlive(p)
  BY <1>3 DEF Lease!Release, Lease!CheckAlive, LeaseInv, Lease!LeaseTypeOK
<1>4. ASSUME NEW o \in Node, Lease!Renew(o)
      PROVE  \A p \in Node : Lease!CheckAlive(p)' => Lease!CheckAlive(p)
  BY <1>4 DEF Lease!Renew, Lease!CanRenew, Lease!CheckAlive, LeaseInv, Lease!LeaseTypeOK
<1>5. ASSUME NEW o \in Node, Lease!Lose(o)
      PROVE  \A p \in Node : Lease!CheckAlive(p)' => Lease!CheckAlive(p)
  BY <1>5 DEF Lease!Lose, Lease!CheckAlive, LeaseInv, Lease!LeaseTypeOK
<1>6. CASE Lease!Tick
  <2>1. \A p \in Node : Lease!CheckAlive(p)' => Lease!CheckAlive(p)
    BY <1>6 DEF Lease!Tick, Lease!CheckAlive, LeaseInv, Lease!LeaseTypeOK, LeaseConstants
  <2> QED BY <2>1, <1>2 DEF Lease!Contract!Next
<1>7. CASE UNCHANGED leaseVars
  BY <1>7 DEF leaseVars, Lease!CheckAlive
<1> QED
  BY <1>1, <1>2, <1>3, <1>4, <1>5, <1>6, <1>7 DEF Lease!Next, Lease!Contract!Next

\* The in-memory lease implements the Lease contract: checkAlive() is never true
\* for two owners at once, and an owner acquires only from nobody or from itself.
THEOREM LeaseIsExclusive ==
    ASSUME LeaseConstants PROVE Lease!Spec => ContractHolds
<1>1. Lease!Init => Lease!Contract!Init
  BY DEF Lease!Init, Lease!Contract!Init, Lease!CheckAlive
<1>2. Lease!Init => LeaseInv
  BY LeaseInvInit
<1>3. LeaseInv /\ [Lease!Next]_leaseVars => LeaseInv'
  BY LeaseInvNext
<1>4. LeaseInv /\ LeaseInv' /\ [Lease!Next]_leaseVars
        => [Lease!Contract!Next]_({o \in Node : Lease!CheckAlive(o)})
  BY ContractStep
<1> QED BY <1>1, <1>2, <1>3, <1>4, PTL
   DEF Lease!Spec, Lease!leaseVars, leaseVars, ContractHolds, Lease!ContractHolds,
       Lease!Contract!Spec

-----------------------------------------------------------------------------
(* What is in a manager and its mailbox *)

Fields == {"child", "pendingStop", "leaseState", "releaseLeaseWhenChildStops",
           "terminallyStopped", "asking", "awaiting", "timer", "requesters",
           "restartTimer", "retryTimer", "inbox", "out", "release", "acquire"}

PlainKinds == {"terminated", "reconcile", "acquire-retry", "lease-lost", "restart-child",
               "hand-over-timeout", "hand-over-retry"}

Event == {<<kind>> : kind \in PlainKinds} \cup ({"acquire-result"} \X BOOLEAN)
            \cup ({"request", "ack"} \X Node)

Frame == {"request", "ack"} \X Node \X Node

Typed(s) ==
    /\ s = [field \in Fields |-> s[field]]
    /\ s.child \in BOOLEAN /\ s.pendingStop \in BOOLEAN /\ ~(s.child /\ s.pendingStop)
    /\ s.leaseState \in LeaseStates
    /\ s.awaiting \subseteq Node /\ s.requesters \subseteq Node
    /\ s.inbox \in Seq(Event)
    /\ s.out \subseteq Frame

Hosting(s) == s.child \/ s.pendingStop

\* A message of that kind waits; at most one does; the word waits that the lease
\* was acquired.
Has(q, kind) == \E i \in 1..Len(q) : q[i][1] = kind
HasOne(q, kind) == \A i, j \in 1..Len(q) : q[i][1] = kind /\ q[j][1] = kind => i = j
Granted(q) == \E i \in 1..Len(q) : q[i][1] = "acquire-result" /\ q[i][2]

-----------------------------------------------------------------------------
(* Mailboxes *)

LEMMA TailOfInbox ==
    ASSUME NEW q \in Seq(Event), q # <<>>, NEW kind
    PROVE  /\ Head(q) \in Event /\ Tail(q) \in Seq(Event)
           /\ Has(Tail(q), kind) => Has(q, kind)
           /\ HasOne(q, kind) => HasOne(Tail(q), kind)
           /\ Head(q)[1] = kind => Has(q, kind)
           /\ Head(q)[1] = kind /\ HasOne(q, kind) => ~Has(Tail(q), kind)
           /\ Granted(Tail(q)) => Granted(q)
           /\ Head(q)[1] = "acquire-result" /\ Head(q)[2] => Granted(q)
<1>1. /\ Head(q) \in Event /\ Tail(q) \in Seq(Event) /\ Len(q) \in Nat /\ Len(q) >= 1
      /\ Len(Tail(q)) = Len(q) - 1 /\ Head(q) = q[1]
      /\ \A i \in 1..Len(Tail(q)) : Tail(q)[i] = q[i + 1] /\ i + 1 \in 1..Len(q)
  OBVIOUS
<1>2. 1 \in 1..Len(q)
  BY <1>1
<1>3. Has(Tail(q), kind) => Has(q, kind)
  BY <1>1 DEF Has
<1>4. HasOne(q, kind) => HasOne(Tail(q), kind)
  <2> SUFFICES ASSUME HasOne(q, kind), NEW i \in 1..Len(Tail(q)), NEW j \in 1..Len(Tail(q)),
                      Tail(q)[i][1] = kind, Tail(q)[j][1] = kind
               PROVE  i = j
    BY DEF HasOne
  <2>1. i + 1 = j + 1
    BY <1>1 DEF HasOne
  <2> QED BY <2>1
<1>5. Head(q)[1] = kind => Has(q, kind)
  BY <1>1, <1>2 DEF Has
<1>6. Head(q)[1] = kind /\ HasOne(q, kind) => ~Has(Tail(q), kind)
  <2> SUFFICES ASSUME q[1][1] = kind, HasOne(q, kind), NEW i \in 1..Len(Tail(q)),
                      Tail(q)[i][1] = kind
               PROVE  FALSE
    BY <1>1 DEF Has
  <2>1. i + 1 = 1
    BY <1>1, <1>2 DEF HasOne
  <2> QED BY <2>1
<1>7. Granted(Tail(q)) => Granted(q)
  BY <1>1 DEF Granted
<1>8. Head(q)[1] = "acquire-result" /\ Head(q)[2] => Granted(q)
  BY <1>1, <1>2 DEF Granted
<1> QED BY <1>1, <1>3, <1>4, <1>5, <1>6, <1>7, <1>8

LEMMA AppendToInbox ==
    ASSUME NEW q \in Seq(Event), NEW e \in Event, NEW kind
    PROVE  /\ Append(q, e) \in Seq(Event)
           /\ Has(Append(q, e), kind) => Has(q, kind) \/ e[1] = kind
           /\ HasOne(q, kind) /\ (e[1] = kind => ~Has(q, kind)) => HasOne(Append(q, e), kind)
           /\ Granted(Append(q, e)) => Granted(q) \/ (e[1] = "acquire-result" /\ e[2])
<1>1. /\ Append(q, e) \in Seq(Event) /\ Len(q) \in Nat /\ Len(Append(q, e)) = Len(q) + 1
      /\ \A i \in 1..Len(Append(q, e)) :
            \/ i \in 1..Len(q) /\ Append(q, e)[i] = q[i]
            \/ i = Len(q) + 1 /\ Append(q, e)[i] = e
  OBVIOUS
<1>2. Has(Append(q, e), kind) => Has(q, kind) \/ e[1] = kind
  BY <1>1 DEF Has
<1>3. HasOne(q, kind) /\ (e[1] = kind => ~Has(q, kind)) => HasOne(Append(q, e), kind)
  <2> SUFFICES ASSUME HasOne(q, kind), e[1] = kind => ~Has(q, kind),
                      NEW i \in 1..Len(Append(q, e)), NEW j \in 1..Len(Append(q, e)),
                      Append(q, e)[i][1] = kind, Append(q, e)[j][1] = kind
               PROVE  i = j
    BY DEF HasOne
  <2> QED BY <1>1 DEF HasOne, Has
<1>4. Granted(Append(q, e)) => Granted(q) \/ (e[1] = "acquire-result" /\ e[2])
  BY <1>1 DEF Granted
<1> QED BY <1>1, <1>2, <1>3, <1>4

-----------------------------------------------------------------------------
(* The pieces of the handlers *)

\* Nothing changed that the lease or the mailbox is about.
SameLease(s, r) ==
    /\ r.leaseState = s.leaseState /\ r.inbox = s.inbox
    /\ r.release = s.release /\ r.acquire = s.acquire

LEMMA SpawnKeeps ==
    ASSUME NEW s, Typed(s)
    PROVE  /\ Typed(Spawn(s)) /\ SameLease(s, Spawn(s))
           /\ Hosting(s) => Spawn(s) = s
           /\ Spawn(s).pendingStop = s.pendingStop
BY DEF Typed, Fields, SameLease, Hosting, Spawn

LEMMA StopChildKeeps ==
    ASSUME NEW s, Typed(s)
    PROVE  /\ Typed(StopChild(s)) /\ SameLease(s, StopChild(s))
           /\ ~StopChild(s).child
           /\ StopChild(s).pendingStop <=> Hosting(s)
BY DEF Typed, Fields, SameLease, Hosting, StopChild

LEMMA TellKeeps ==
    ASSUME NEW s, Typed(s), NEW event \in Event
    PROVE  LET r == Tell(s, event)
           IN  /\ Typed(r) /\ r.inbox = Append(s.inbox, event)
               /\ r.leaseState = s.leaseState /\ r.release = s.release /\ r.acquire = s.acquire
               /\ r.child = s.child /\ r.pendingStop = s.pendingStop
BY AppendToInbox DEF Typed, Fields, Tell

LEMMA SendKeeps ==
    ASSUME NEW s, Typed(s), NEW frames, frames \subseteq Frame
    PROVE  LET r == Send(s, frames)
           IN  /\ Typed(r) /\ SameLease(s, r)
               /\ r.child = s.child /\ r.pendingStop = s.pendingStop
BY DEF Typed, Fields, SameLease, Send

LEMMA TakeOverHostingKeeps ==
    ASSUME NEW n \in Node, NEW v, NEW s, Typed(s)
    PROVE  LET r == TakeOverHosting(n, v, s)
           IN  /\ Typed(r) /\ SameLease(s, r)
               /\ Hosting(s) => r = s
               /\ r.pendingStop = s.pendingStop
<1> DEFINE r == TakeOverHosting(n, v, s)
           asked == [s EXCEPT !.asking = TRUE, !.timer = TRUE, !.awaiting = HandOverPeers(n, v)]
           frames == {Request(n, m) : m \in HandOverPeers(n, v)}
<1>1. CASE s.child \/ s.pendingStop \/ s.asking
  BY <1>1 DEF TakeOverHosting, SameLease
<1>2. CASE ~(s.child \/ s.pendingStop \/ s.asking) /\ HandOverPeers(n, v) = {}
  <2>1. r = Spawn(s)
    BY <1>2 DEF TakeOverHosting
  <2> QED BY <2>1, SpawnKeeps
<1>3. CASE ~(s.child \/ s.pendingStop \/ s.asking) /\ HandOverPeers(n, v) # {}
  <2>1. r = Send(asked, frames)
    BY <1>3 DEF TakeOverHosting
  <2>2. HandOverPeers(n, v) \subseteq Node
    BY DEF HandOverPeers, UpMembers
  <2>3. frames \subseteq Frame
    BY <2>2 DEF Request, Frame
  <2>4. /\ Typed(asked) /\ SameLease(s, asked)
        /\ asked.child = s.child /\ asked.pendingStop = s.pendingStop
    BY <2>2 DEF Typed, Fields, SameLease
  <2> HIDE DEF asked, frames
  <2>5. /\ Typed(r) /\ SameLease(asked, r)
        /\ r.child = asked.child /\ r.pendingStop = asked.pendingStop
    BY <2>1, <2>3, <2>4, SendKeeps
  <2> QED BY <1>3, <2>4, <2>5 DEF SameLease, Hosting
<1> QED BY <1>1, <1>2, <1>3

LEMMA CompleteHandOverKeeps ==
    ASSUME options.lease, NEW n \in Node, NEW v, NEW s, Typed(s)
    PROVE  LET r == CompleteHandOver(n, v, s)
           IN  /\ Typed(r) /\ SameLease(s, r)
               /\ Hosting(s) => r.child = s.child
               /\ r.pendingStop = s.pendingStop
               /\ Hosting(r) /\ ~Hosting(s) => s.leaseState = "held"
<1> DEFINE r == CompleteHandOver(n, v, s)
           done == [s EXCEPT !.asking = FALSE, !.timer = FALSE, !.awaiting = {}]
<1>1. /\ Typed(done) /\ SameLease(s, done)
      /\ done.child = s.child /\ done.pendingStop = s.pendingStop
  BY DEF Typed, Fields, SameLease
<1>2. \/ r = done
      \/ r = Spawn(done) /\ s.leaseState = "held"
  BY DEF CompleteHandOver
<1> HIDE DEF done
<1>3. CASE r = done
  BY <1>1, <1>3 DEF Hosting
<1>4. CASE r = Spawn(done) /\ s.leaseState = "held"
  BY <1>1, <1>4, SpawnKeeps DEF Hosting, SameLease
<1> QED BY <1>2, <1>3, <1>4

LEMMA AnswerKeeps ==
    ASSUME NEW n \in Node, NEW s, Typed(s)
    PROVE  LET r == AnswerHandOverRequesters(n, s)
           IN  /\ Typed(r) /\ SameLease(s, r)
               /\ r.child = s.child /\ r.pendingStop = s.pendingStop
               /\ r.releaseLeaseWhenChildStops = s.releaseLeaseWhenChildStops
<1> DEFINE cleared == [s EXCEPT !.requesters = {}]
           frames == {Ack(n, m) : m \in s.requesters}
<1>1. /\ Typed(cleared) /\ SameLease(s, cleared)
      /\ cleared.child = s.child /\ cleared.pendingStop = s.pendingStop
      /\ cleared.releaseLeaseWhenChildStops = s.releaseLeaseWhenChildStops
  BY DEF Typed, Fields, SameLease
<1>2. frames \subseteq Frame
  BY DEF Typed, Ack, Frame
<1>3. AnswerHandOverRequesters(n, s) = IF Hosting(s) THEN s ELSE Send(cleared, frames)
  BY DEF AnswerHandOverRequesters, Hosting
<1>4. Send(cleared, frames).releaseLeaseWhenChildStops = s.releaseLeaseWhenChildStops
  BY <1>1 DEF Send, Typed, Fields
<1> HIDE DEF cleared, frames
<1> QED BY <1>1, <1>2, <1>3, <1>4, SendKeeps DEF SameLease

\* The lease is given up, if it was held.
LEMMA ReleaseLeaseKeeps ==
    ASSUME options.lease, NEW s, Typed(s)
    PROVE  LET r == ReleaseLease(s)
           IN  /\ Typed(r) /\ r.inbox = s.inbox /\ r.acquire = s.acquire
               /\ r.child = s.child /\ r.pendingStop = s.pendingStop
               /\ IF s.leaseState = "held" THEN r.leaseState = "none" /\ r.release
                  ELSE r.leaseState = s.leaseState /\ r.release = s.release
BY DEF Typed, Fields, ReleaseLease, LeaseStates

-----------------------------------------------------------------------------
(* The handlers, of a manager that has a lease *)

\* A manager as a handler finds it.
Ready(s) ==
    /\ Typed(s)
    /\ ~s.release /\ ~s.acquire
    /\ Hosting(s) => s.leaseState = "held"

\* What every handler does but the ones of a termination and of an acquisition:
\* it hosts under the lease only, and gives the lease up only when it does not
\* host.
Ordinary(s, r) ==
    /\ Typed(r)
    /\ r.inbox = s.inbox \/ r.inbox = Append(s.inbox, <<"reconcile">>)
    /\ Hosting(s) => Hosting(r) /\ (r.child => s.child)
    /\ Hosting(r) => r.leaseState = "held"
    /\ r.leaseState = "held" => s.leaseState = "held" /\ ~r.release
    /\ r.leaseState = "acquiring" <=> s.leaseState = "acquiring" \/ r.acquire
    /\ r.acquire => s.leaseState = "none"
    /\ r.release => s.leaseState = "held"

LEMMA ReconcileIsEvent == <<"reconcile">> \in Event
BY DEF Event, PlainKinds

LEMMA NothingIsOrdinary == ASSUME NEW s, Ready(s) PROVE Ordinary(s, s)
BY DEF Ready, Ordinary

LEMMA ReconcileToldIsOrdinary ==
    ASSUME NEW s, Ready(s) PROVE Ordinary(s, Tell(s, <<"reconcile">>))
BY TellKeeps, ReconcileIsEvent DEF Ready, Ordinary, Hosting

LEMMA HandleReconcileIsOrdinary ==
    ASSUME options.lease, NEW n \in Node, NEW v, NEW s, Ready(s)
    PROVE  Ordinary(s, HandleReconcile(n, v, s))
<1> DEFINE r == HandleReconcile(n, v, s)
<1>1. CASE WantHosted(n, v, s) /\ s.leaseState = "held"
  <2>1. r = TakeOverHosting(n, v, s)
    BY <1>1 DEF HandleReconcile
  <2> QED BY <1>1, <2>1, TakeOverHostingKeeps DEF Ready, Ordinary, SameLease, Hosting
<1>2. CASE s.leaseState = "acquiring"
  <2>1. r = s
    BY <1>2 DEF HandleReconcile
  <2> QED BY <2>1, NothingIsOrdinary
<1>3. CASE WantHosted(n, v, s) /\ s.leaseState = "none"
  <2> DEFINE asks == [s EXCEPT !.retryTimer = FALSE, !.leaseState = "acquiring", !.acquire = TRUE]
  <2>1. r = asks
    BY <1>3 DEF HandleReconcile
  <2>2. /\ Typed(asks) /\ asks.inbox = s.inbox /\ asks.leaseState = "acquiring"
        /\ asks.acquire = TRUE /\ asks.release = s.release
        /\ asks.child = s.child /\ asks.pendingStop = s.pendingStop
    BY DEF Ready, Typed, Fields, LeaseStates
  <2> HIDE DEF asks
  <2> QED BY <1>3, <2>1, <2>2 DEF Ready, Ordinary, Hosting
<1>4. CASE ~WantHosted(n, v, s) /\ s.leaseState = "held"
  <2> DEFINE stopped == StopChild(s)
             marked == [stopped EXCEPT !.releaseLeaseWhenChildStops = TRUE]
  <2>1. r = IF stopped.pendingStop THEN marked ELSE ReleaseLease(stopped)
    BY <1>4 DEF HandleReconcile
  <2>2. /\ Typed(stopped) /\ SameLease(s, stopped) /\ ~stopped.child
        /\ stopped.pendingStop <=> Hosting(s)
    BY StopChildKeeps DEF Ready
  <2> HIDE DEF stopped
  <2>3. CASE stopped.pendingStop
    <3>1. /\ Typed(marked) /\ SameLease(stopped, marked)
          /\ marked.child = stopped.child /\ marked.pendingStop = stopped.pendingStop
      BY <2>2 DEF Typed, Fields, SameLease
    <3>2. r = marked
      BY <2>1, <2>3
    <3> HIDE DEF marked
    <3> QED BY <1>4, <2>2, <2>3, <3>1, <3>2 DEF Ready, Ordinary, SameLease, Hosting
  <2>4. CASE ~stopped.pendingStop
    <3>1. r = ReleaseLease(stopped)
      BY <2>1, <2>4
    <3> QED BY <1>4, <2>2, <2>4, <3>1, ReleaseLeaseKeeps DEF Ready, Ordinary, SameLease, Hosting
  <2> QED BY <2>3, <2>4
<1>5. CASE ~WantHosted(n, v, s) /\ s.leaseState = "none"
  <2> DEFINE quiet == [s EXCEPT !.retryTimer = FALSE]
  <2>1. r = quiet
    BY <1>5 DEF HandleReconcile
  <2>2. /\ Typed(quiet) /\ SameLease(s, quiet)
        /\ quiet.child = s.child /\ quiet.pendingStop = s.pendingStop
    BY DEF Ready, Typed, Fields, SameLease
  <2> HIDE DEF quiet
  <2> QED BY <1>5, <2>1, <2>2 DEF Ready, Ordinary, SameLease, Hosting
<1> QED BY <1>1, <1>2, <1>3, <1>4, <1>5 DEF Ready, Typed, LeaseStates

LEMMA OnRestartChildIsOrdinary ==
    ASSUME options.lease, NEW n \in Node, NEW v, NEW s, Ready(s)
    PROVE  Ordinary(s, OnRestartChild(n, v, s))
<1> DEFINE r == OnRestartChild(n, v, s)
<1>1. r = s \/ r = Tell(s, <<"reconcile">>) \/ (r = Spawn(s) /\ ~Hosting(s) /\ s.leaseState = "held")
  BY DEF OnRestartChild, Hosting
<1>2. CASE r = Spawn(s) /\ ~Hosting(s) /\ s.leaseState = "held"
  BY <1>2, SpawnKeeps DEF Ready, Ordinary, SameLease
<1> QED BY <1>1, <1>2, NothingIsOrdinary, ReconcileToldIsOrdinary

\* A hand-over completed from a state that has only heard an answer.
LEMMA CompletionIsOrdinary ==
    ASSUME options.lease, NEW n \in Node, NEW v, NEW s, Ready(s),
           NEW t, Typed(t), SameLease(s, t), t.child = s.child, t.pendingStop = s.pendingStop
    PROVE  Ordinary(s, t) /\ Ordinary(s, CompleteHandOver(n, v, t))
<1>1. Ordinary(s, t)
  BY DEF Ready, Ordinary, SameLease, Hosting
<1>2. Ordinary(s, CompleteHandOver(n, v, t))
  BY CompleteHandOverKeeps DEF Ready, Ordinary, SameLease, Hosting
<1> QED BY <1>1, <1>2

LEMMA OnHandOverAcknowledgmentIsOrdinary ==
    ASSUME options.lease, NEW n \in Node, NEW v, NEW s, Ready(s), NEW m
    PROVE  Ordinary(s, OnHandOverAcknowledgment(n, v, s, m))
<1> DEFINE heard == [s EXCEPT !.awaiting = @ \ {m}]
<1>1. /\ Typed(heard) /\ SameLease(s, heard)
      /\ heard.child = s.child /\ heard.pendingStop = s.pendingStop
  BY DEF Ready, Typed, Fields, SameLease
<1>2. OnHandOverAcknowledgment(n, v, s, m) \in {s, heard, CompleteHandOver(n, v, heard)}
  BY DEF OnHandOverAcknowledgment
<1> HIDE DEF heard
<1> QED BY <1>1, <1>2, NothingIsOrdinary, CompletionIsOrdinary

LEMMA OnHandOverTimeoutIsOrdinary ==
    ASSUME options.lease, NEW n \in Node, NEW v, NEW s, Ready(s)
    PROVE  Ordinary(s, OnHandOverTimeout(n, v, s))
<1>1. Typed(s) /\ SameLease(s, s)
  BY DEF Ready, SameLease
<1> QED BY <1>1, NothingIsOrdinary, CompletionIsOrdinary DEF OnHandOverTimeout

LEMMA OnHandOverRetryIsOrdinary ==
    ASSUME options.lease, NEW n \in Node, NEW v, NEW s, Ready(s)
    PROVE  Ordinary(s, OnHandOverRetry(n, v, s))
<1> DEFINE pruned == [s EXCEPT !.awaiting = @ \cap HandOverPeers(n, v)]
           frames == {Request(n, m) : m \in pruned.awaiting}
<1>1. /\ Typed(pruned) /\ SameLease(s, pruned)
      /\ pruned.child = s.child /\ pruned.pendingStop = s.pendingStop
  BY DEF Ready, Typed, Fields, SameLease
<1>2. OnHandOverRetry(n, v, s) \in {s, CompleteHandOver(n, v, pruned), Send(pruned, frames)}
  BY DEF OnHandOverRetry
<1> HIDE DEF pruned
<1>3. frames \subseteq Frame
  BY <1>1 DEF Typed, Request, Frame
<1> HIDE DEF frames
<1>4. Ordinary(s, Send(pruned, frames))
  BY <1>1, <1>3, SendKeeps DEF Ready, Ordinary, SameLease, Hosting
<1> QED BY <1>1, <1>2, <1>4, NothingIsOrdinary, CompletionIsOrdinary

LEMMA OnHandOverRequestIsOrdinary ==
    ASSUME options.lease, NEW n \in Node, NEW v, NEW s, Ready(s), NEW m \in Node
    PROVE  Ordinary(s, OnHandOverRequest(n, v, s, m))
<1> DEFINE asked == [s EXCEPT !.requesters = @ \cup {m}]
<1>1. /\ Typed(asked) /\ SameLease(s, asked)
      /\ asked.child = s.child /\ asked.pendingStop = s.pendingStop
  BY DEF Ready, Typed, Fields, SameLease
<1>2. \/ OnHandOverRequest(n, v, s, m) = s
      \/ OnHandOverRequest(n, v, s, m) = StopChild(asked) /\ Hosting(s)
      \/ OnHandOverRequest(n, v, s, m) = Send(s, {Ack(n, m)})
  BY DEF OnHandOverRequest, Hosting
<1> HIDE DEF asked
<1>3. CASE OnHandOverRequest(n, v, s, m) = StopChild(asked) /\ Hosting(s)
  BY <1>1, <1>3, StopChildKeeps DEF Ready, Ordinary, SameLease, Hosting
<1>4. CASE OnHandOverRequest(n, v, s, m) = Send(s, {Ack(n, m)})
  <2>1. {Ack(n, m)} \subseteq Frame
    BY DEF Ack, Frame
  <2> QED BY <1>4, <2>1, SendKeeps DEF Ready, Ordinary, SameLease, Hosting
<1> QED BY <1>2, <1>3, <1>4, NothingIsOrdinary

\* The handler of a termination: the manager hosts no longer.
LEMMA HandleTerminatedEnds ==
    ASSUME options.lease, NEW n \in Node, NEW v, NEW s, Ready(s), Hosting(s)
    PROVE  LET r == HandleTerminated(n, v, s)
           IN  /\ Typed(r) /\ ~Hosting(r)
               /\ r.inbox = s.inbox \/ r.inbox = Append(s.inbox, <<"reconcile">>)
               /\ r.leaseState # "acquiring" /\ ~r.acquire
               /\ r.leaseState = "held" => ~r.release
<1> DEFINE r == HandleTerminated(n, v, s)
<1>0. s.leaseState = "held" /\ ~s.release /\ ~s.acquire
  BY DEF Ready
<1>1. CASE s.pendingStop
  <2> DEFINE ended == [s EXCEPT !.pendingStop = FALSE]
             answered == AnswerHandOverRequesters(n, ended)
             marked == [answered EXCEPT !.releaseLeaseWhenChildStops = FALSE]
             released == IF answered.releaseLeaseWhenChildStops THEN ReleaseLease(marked)
                         ELSE answered
  <2>1. Typed(ended) /\ SameLease(s, ended) /\ ~ended.child /\ ~ended.pendingStop
    BY <1>1 DEF Ready, Typed, Fields, SameLease
  <2>2. r = Tell(released, <<"reconcile">>)
    BY <1>1 DEF HandleTerminated, OnClusterMembershipChanged
  <2> HIDE DEF ended
  <2>3. Typed(answered) /\ SameLease(s, answered) /\ ~answered.child /\ ~answered.pendingStop
    BY <2>1, AnswerKeeps DEF SameLease
  <2> HIDE DEF answered
  <2>4. Typed(marked) /\ SameLease(s, marked) /\ ~marked.child /\ ~marked.pendingStop
    BY <2>3 DEF Typed, Fields, SameLease
  <2> HIDE DEF marked
  <2>5. /\ Typed(released) /\ ~released.child /\ ~released.pendingStop
        /\ released.inbox = s.inbox /\ ~released.acquire
        /\ released.leaseState # "acquiring"
        /\ released.leaseState = "held" => ~released.release
    BY <1>0, <2>3, <2>4, ReleaseLeaseKeeps DEF SameLease
  <2> HIDE DEF released
  <2> QED BY <2>2, <2>5, TellKeeps, ReconcileIsEvent DEF Hosting
<1>2. CASE ~s.pendingStop
  <2> DEFINE died == OnChildDiedUnexpectedly(s)
             waits == [s EXCEPT !.child = FALSE, !.restartTimer = TRUE]
             ends == [s EXCEPT !.child = FALSE, !.terminallyStopped = TRUE]
  <2>1. r = AnswerHandOverRequesters(n, died)
    BY <1>2 DEF HandleTerminated, Hosting
  <2>2. Typed(waits) /\ SameLease(s, waits) /\ ~waits.child /\ ~waits.pendingStop
    BY <1>2 DEF Ready, Typed, Fields, SameLease
  <2>3. Typed(ends) /\ SameLease(s, ends) /\ ~ends.child /\ ~ends.pendingStop
    BY <1>2 DEF Ready, Typed, Fields, SameLease
  <2>4. died = waits \/ died = ReleaseLease(ends)
    BY DEF OnChildDiedUnexpectedly
  <2> HIDE DEF waits, ends, died
  <2>5. /\ Typed(died) /\ ~died.child /\ ~died.pendingStop
        /\ died.inbox = s.inbox /\ ~died.acquire
        /\ died.leaseState # "acquiring"
        /\ died.leaseState = "held" => ~died.release
    BY <1>0, <2>2, <2>3, <2>4, ReleaseLeaseKeeps DEF SameLease
  <2> QED BY <2>1, <2>5, AnswerKeeps DEF SameLease, Hosting
<1> QED BY <1>1, <1>2

\* The handler of an acquisition's result: the manager has the lease, or gives it
\* back, or never got it.
LEMMA OnLeaseAcquireResultResolves ==
    ASSUME options.lease, NEW n \in Node, NEW v, NEW s, Ready(s), s.leaseState = "acquiring",
           NEW got \in BOOLEAN
    PROVE  LET r == OnLeaseAcquireResult(n, v, s, got)
           IN  /\ Typed(r) /\ r.inbox = s.inbox
               /\ r.leaseState # "acquiring" /\ ~r.acquire
               /\ r.leaseState = "held" => got /\ ~r.release
               /\ Hosting(r) => r.leaseState = "held"
<1> DEFINE r == OnLeaseAcquireResult(n, v, s, got)
           refused == [s EXCEPT !.leaseState = "none", !.retryTimer = TRUE]
           returned == [s EXCEPT !.leaseState = "none", !.release = TRUE]
           holds == [s EXCEPT !.leaseState = "held"]
<1>0. ~s.child /\ ~s.pendingStop /\ ~s.release /\ ~s.acquire
  BY DEF Ready, Hosting
<1>1. CASE ~got
  <2>1. r = refused
    BY <1>1 DEF OnLeaseAcquireResult
  <2>2. /\ Typed(refused) /\ refused.inbox = s.inbox /\ refused.leaseState = "none"
        /\ refused.acquire = s.acquire /\ refused.child = s.child
        /\ refused.pendingStop = s.pendingStop
    BY DEF Ready, Typed, Fields, LeaseStates
  <2> HIDE DEF refused
  <2> QED BY <1>0, <2>1, <2>2 DEF Hosting
<1>2. CASE got /\ ~WantHosted(n, v, s)
  <2>1. r = returned
    BY <1>2 DEF OnLeaseAcquireResult
  <2>2. /\ Typed(returned) /\ returned.inbox = s.inbox /\ returned.leaseState = "none"
        /\ returned.acquire = s.acquire /\ returned.child = s.child
        /\ returned.pendingStop = s.pendingStop
    BY DEF Ready, Typed, Fields, LeaseStates
  <2> HIDE DEF returned
  <2> QED BY <1>0, <2>1, <2>2 DEF Hosting
<1>3. CASE got /\ WantHosted(n, v, s)
  <2>1. r = TakeOverHosting(n, v, holds)
    BY <1>3 DEF OnLeaseAcquireResult
  <2>2. /\ Typed(holds) /\ holds.inbox = s.inbox /\ holds.leaseState = "held"
        /\ holds.acquire = s.acquire /\ holds.release = s.release
    BY DEF Ready, Typed, Fields, LeaseStates
  <2> HIDE DEF holds
  <2>3. Typed(r) /\ SameLease(holds, r)
    BY <2>1, <2>2, TakeOverHostingKeeps
  <2> QED BY <1>0, <1>3, <2>2, <2>3 DEF SameLease
<1> QED BY <1>1, <1>2, <1>3

-----------------------------------------------------------------------------
(* The invariant *)

(***************************************************************************)
(* Manager s, whose instance is alive (a), whose acquire() is in flight    *)
(* (c), whose lease object is held (h).  It hosts under its lease only; an *)
(* instance it no longer hosts is gone; the lease it takes for held is     *)
(* held.  For these to survive every order of messages, at most one        *)
(* termination and one acquisition may be waiting to be told, each only in *)
(* the state whose end it is.                                              *)
(***************************************************************************)
Good(s, a, c, h) ==
    /\ Ready(s)
    /\ s.leaseState = "held" => h
    /\ a => Hosting(s) /\ ~Has(s.inbox, "terminated")
    /\ Has(s.inbox, "terminated") => Hosting(s)
    /\ HasOne(s.inbox, "terminated")
    /\ c => s.leaseState = "acquiring" /\ ~Has(s.inbox, "acquire-result")
    /\ Has(s.inbox, "acquire-result") => s.leaseState = "acquiring"
    /\ HasOne(s.inbox, "acquire-result")
    /\ Granted(s.inbox) => h
    /\ ~Has(s.inbox, "lease-lost")

\* The manager's state once what a handler did outside it is done.
Rest(r) == [r EXCEPT !.out = {}, !.release = FALSE, !.acquire = FALSE]

LEMMA RestKeeps ==
    ASSUME NEW r, Typed(r)
    PROVE  /\ Typed(Rest(r)) /\ ~Rest(r).release /\ ~Rest(r).acquire
           /\ Rest(r).leaseState = r.leaseState /\ Rest(r).inbox = r.inbox
           /\ Rest(r).child = r.child /\ Rest(r).pendingStop = r.pendingStop
BY DEF Typed, Fields, Rest

\* A reconcile that is queued changes nothing of what waits.
LEMMA ReconcileQueued ==
    ASSUME NEW q \in Seq(Event), NEW r, r = q \/ r = Append(q, <<"reconcile">>)
    PROVE  /\ r \in Seq(Event)
           /\ Has(r, "terminated") => Has(q, "terminated")
           /\ Has(r, "acquire-result") => Has(q, "acquire-result")
           /\ Has(r, "lease-lost") => Has(q, "lease-lost")
           /\ HasOne(q, "terminated") => HasOne(r, "terminated")
           /\ HasOne(q, "acquire-result") => HasOne(r, "acquire-result")
           /\ Granted(r) => Granted(q)
<1> DEFINE e == <<"reconcile">>
<1>1. e \in Event /\ e[1] = "reconcile"
  BY ReconcileIsEvent
<1>2. CASE r = q
  BY <1>2
<1>3. CASE r = Append(q, e)
  <2> HIDE DEF e
  <2>1. /\ r \in Seq(Event) /\ (Granted(r) => Granted(q))
        /\ Has(r, "terminated") => Has(q, "terminated")
        /\ HasOne(q, "terminated") => HasOne(r, "terminated")
    BY <1>1, <1>3, AppendToInbox
  <2>2. /\ Has(r, "acquire-result") => Has(q, "acquire-result")
        /\ HasOne(q, "acquire-result") => HasOne(r, "acquire-result")
    BY <1>1, <1>3, AppendToInbox
  <2>3. Has(r, "lease-lost") => Has(q, "lease-lost")
    BY <1>1, <1>3, AppendToInbox
  <2> QED BY <2>1, <2>2, <2>3
<1> QED BY <1>2, <1>3

\* Outcome r of a handler that found s leaves a good manager, once its effects on
\* the instance, the call and the lease are done.
Turned(s, a, c, h, r) ==
    /\ Typed(r)
    /\ \A a2, c2, h2 :
          /\ a2 <=> a \/ (r.child /\ ~s.child)
          /\ c2 <=> c \/ r.acquire
          /\ h2 <=> h /\ ~r.release
          => Good(Rest(r), a2, c2, h2)

LEMMA OrdinaryGood ==
    ASSUME NEW s, NEW a \in BOOLEAN, NEW c \in BOOLEAN, NEW h \in BOOLEAN, Good(s, a, c, h),
           NEW r, Ordinary(s, r), NEW a2, a2 <=> a \/ (r.child /\ ~s.child),
           NEW c2, c2 <=> c \/ r.acquire, NEW h2, h2 <=> h /\ ~r.release
    PROVE  Good(Rest(r), a2, c2, h2)
<1>1. Ready(Rest(r)) /\ (Hosting(Rest(r)) <=> Hosting(r))
  BY RestKeeps DEF Ordinary, Ready, Hosting
<1>2. s.inbox \in Seq(Event)
  BY DEF Good, Ready, Typed
<1>3. Granted(s.inbox) => Has(s.inbox, "acquire-result")
  BY DEF Granted, Has
<1>4. /\ Rest(r).leaseState = r.leaseState /\ Rest(r).inbox = r.inbox
      /\ r.inbox = s.inbox \/ r.inbox = Append(s.inbox, <<"reconcile">>)
  BY RestKeeps DEF Ordinary
<1>5. r.child => Hosting(r)
  BY DEF Hosting
<1>6. s.child => Hosting(s)
  BY DEF Hosting
<1> QED BY <1>1, <1>2, <1>3, <1>4, <1>5, <1>6, ReconcileQueued DEF Good, Ordinary

\* The manager once it has taken the next message of its mailbox.
Taken(s) == [s EXCEPT !.inbox = Tail(@)]

LEMMA TakenKeeps ==
    ASSUME NEW s, Typed(s), s.inbox # <<>>
    PROVE  /\ Typed(Taken(s)) /\ Taken(s).inbox = Tail(s.inbox) /\ Head(s.inbox) \in Event
           /\ Taken(s).leaseState = s.leaseState
           /\ Taken(s).release = s.release /\ Taken(s).acquire = s.acquire
           /\ Taken(s).child = s.child /\ Taken(s).pendingStop = s.pendingStop
<1>1. s.inbox \in Seq(Event) /\ Tail(s.inbox) \in Seq(Event) /\ Head(s.inbox) \in Event
  <2>1. s.inbox \in Seq(Event)
    BY DEF Typed
  <2> QED BY <2>1, TailOfInbox
<1> QED BY <1>1 DEF Typed, Fields, Taken

\* Taking any message leaves the invariant; taking a termination, or the result
\* of an acquisition, leaves no other.
LEMMA TakenGood ==
    ASSUME NEW s, NEW a \in BOOLEAN, NEW c \in BOOLEAN, NEW h \in BOOLEAN, Good(s, a, c, h),
           s.inbox # <<>>
    PROVE  /\ Good(Taken(s), a, c, h)
           /\ Head(s.inbox) \in Event /\ Head(s.inbox)[1] # "lease-lost"
           /\ Head(s.inbox)[1] = "terminated" =>
                 Hosting(Taken(s)) /\ ~a /\ ~Has(Taken(s).inbox, "terminated")
           /\ Head(s.inbox)[1] = "acquire-result" =>
                 /\ Taken(s).leaseState = "acquiring" /\ ~c
                 /\ ~Has(Taken(s).inbox, "acquire-result")
                 /\ Head(s.inbox)[2] => h
<1> DEFINE q == s.inbox
           t == Taken(s)
<1>1. /\ Typed(t) /\ t.inbox = Tail(q) /\ Head(q) \in Event
      /\ t.leaseState = s.leaseState /\ t.release = s.release /\ t.acquire = s.acquire
      /\ t.child = s.child /\ t.pendingStop = s.pendingStop
  BY TakenKeeps DEF Good, Ready
<1>2. Ready(t) /\ (Hosting(t) <=> Hosting(s))
  BY <1>1 DEF Good, Ready, Hosting
<1> HIDE DEF t
<1>3. q \in Seq(Event) /\ q # <<>>
  BY DEF Good, Ready, Typed
<1> HIDE DEF q
<1>4. /\ Has(Tail(q), "terminated") => Has(q, "terminated")
      /\ HasOne(q, "terminated") => HasOne(Tail(q), "terminated")
      /\ Head(q)[1] = "terminated" => Has(q, "terminated")
      /\ Head(q)[1] = "terminated" /\ HasOne(q, "terminated") => ~Has(Tail(q), "terminated")
  BY <1>3, TailOfInbox
<1>5. /\ Has(Tail(q), "acquire-result") => Has(q, "acquire-result")
      /\ HasOne(q, "acquire-result") => HasOne(Tail(q), "acquire-result")
      /\ Head(q)[1] = "acquire-result" => Has(q, "acquire-result")
      /\ Head(q)[1] = "acquire-result" /\ HasOne(q, "acquire-result") =>
            ~Has(Tail(q), "acquire-result")
      /\ Granted(Tail(q)) => Granted(q)
      /\ Head(q)[1] = "acquire-result" /\ Head(q)[2] => Granted(q)
  BY <1>3, TailOfInbox
<1>6. /\ Has(Tail(q), "lease-lost") => Has(q, "lease-lost")
      /\ Head(q)[1] = "lease-lost" => Has(q, "lease-lost")
  BY <1>3, TailOfInbox
<1>7. /\ s.leaseState = "held" => h
      /\ a => Hosting(s) /\ ~Has(q, "terminated")
      /\ Has(q, "terminated") => Hosting(s)
      /\ HasOne(q, "terminated")
      /\ c => s.leaseState = "acquiring" /\ ~Has(q, "acquire-result")
      /\ Has(q, "acquire-result") => s.leaseState = "acquiring"
      /\ HasOne(q, "acquire-result")
      /\ Granted(q) => h
      /\ ~Has(q, "lease-lost")
  BY DEF Good, q
<1>8. Good(t, a, c, h)
  BY <1>1, <1>2, <1>4, <1>5, <1>6, <1>7 DEF Good
<1>9. /\ Head(q)[1] # "lease-lost"
      /\ Head(q)[1] = "terminated" => Hosting(t) /\ ~a /\ ~Has(t.inbox, "terminated")
      /\ Head(q)[1] = "acquire-result" =>
            /\ t.leaseState = "acquiring" /\ ~c /\ ~Has(t.inbox, "acquire-result")
            /\ Head(q)[2] => h
  BY <1>1, <1>2, <1>4, <1>5, <1>6, <1>7
<1> QED BY <1>1, <1>8, <1>9 DEF t, q

\* A change of the timers alone.
LEMMA TimersGood ==
    ASSUME NEW s, NEW a, NEW c, NEW h, Good(s, a, c, h),
           NEW t, Typed(t), SameLease(s, t), t.child = s.child, t.pendingStop = s.pendingStop
    PROVE  Good(t, a, c, h)
<1>1. Ready(t) /\ (Hosting(t) <=> Hosting(s)) /\ t.inbox = s.inbox /\ t.leaseState = s.leaseState
  BY DEF Good, Ready, Hosting, SameLease
<1> QED BY <1>1 DEF Good

\* A message is queued.  A termination is, of an instance that was alive; the
\* result of an acquisition, of the call that was in flight.
LEMMA QueuedGood ==
    ASSUME NEW s, NEW a \in BOOLEAN, NEW c \in BOOLEAN, NEW h \in BOOLEAN, Good(s, a, c, h),
           NEW e \in Event, e[1] # "lease-lost",
           NEW a2, NEW c2, NEW h2, h => h2, a2 => a, c2 => c,
           e[1] = "terminated" => a /\ ~a2,
           e[1] = "acquire-result" => c /\ ~c2 /\ (e[2] => h2)
    PROVE  Good(Tell(s, e), a2, c2, h2)
<1> DEFINE t == Tell(s, e)
           q == s.inbox
<1>1. /\ Ready(t) /\ (Hosting(t) <=> Hosting(s))
      /\ t.inbox = Append(q, e) /\ t.leaseState = s.leaseState
  BY TellKeeps DEF Good, Ready, Hosting
<1> HIDE DEF t
<1>2. q \in Seq(Event)
  BY DEF Good, Ready, Typed
<1> HIDE DEF q
<1>3. /\ Has(Append(q, e), "terminated") => Has(q, "terminated") \/ e[1] = "terminated"
      /\ HasOne(q, "terminated") /\ (e[1] = "terminated" => ~Has(q, "terminated")) =>
            HasOne(Append(q, e), "terminated")
      /\ Granted(Append(q, e)) => Granted(q) \/ (e[1] = "acquire-result" /\ e[2])
  BY <1>2, AppendToInbox
<1>4. /\ Has(Append(q, e), "acquire-result") => Has(q, "acquire-result") \/ e[1] = "acquire-result"
      /\ HasOne(q, "acquire-result") /\ (e[1] = "acquire-result" => ~Has(q, "acquire-result")) =>
            HasOne(Append(q, e), "acquire-result")
  BY <1>2, AppendToInbox
<1>5. Has(Append(q, e), "lease-lost") => Has(q, "lease-lost") \/ e[1] = "lease-lost"
  BY <1>2, AppendToInbox
<1>6. /\ s.leaseState = "held" => h
      /\ a => Hosting(s) /\ ~Has(q, "terminated")
      /\ Has(q, "terminated") => Hosting(s)
      /\ HasOne(q, "terminated")
      /\ c => s.leaseState = "acquiring" /\ ~Has(q, "acquire-result")
      /\ Has(q, "acquire-result") => s.leaseState = "acquiring"
      /\ HasOne(q, "acquire-result")
      /\ Granted(q) => h
      /\ ~Has(q, "lease-lost")
  BY DEF Good, q
<1>7. Good(t, a2, c2, h2)
  BY <1>1, <1>3, <1>4, <1>5, <1>6 DEF Good
<1> QED BY <1>7 DEF t

\* The message at the head is handled.
LEMMA ReceivedGood ==
    ASSUME options.lease, NEW n \in Node, NEW v,
           NEW s, NEW a \in BOOLEAN, NEW c \in BOOLEAN, NEW h \in BOOLEAN, Good(s, a, c, h),
           s.inbox # <<>>,
           NEW r, r = OnReceive(n, v, Taken(s), Head(s.inbox)),
           NEW a2, a2 <=> a \/ (r.child /\ ~s.child),
           NEW c2, c2 <=> c \/ r.acquire, NEW h2, h2 <=> h /\ ~r.release
    PROVE  Typed(r) /\ Good(Rest(r), a2, c2, h2)
<1> DEFINE t == Taken(s)
           e == Head(s.inbox)
<1>0. t.child = s.child
  BY TakenKeeps DEF Good, Ready
<1>1. /\ Good(t, a, c, h) /\ e \in Event /\ e[1] # "lease-lost"
      /\ e[1] = "terminated" => Hosting(t) /\ ~a /\ ~Has(t.inbox, "terminated")
      /\ e[1] = "acquire-result" => /\ t.leaseState = "acquiring" /\ ~c
                                    /\ ~Has(t.inbox, "acquire-result")
                                    /\ e[2] => h
  BY TakenGood
<1>2. Ready(t) /\ r = OnReceive(n, v, t, e)
  BY <1>1 DEF Good
<1> HIDE DEF t, e
<1>3. CASE Ordinary(t, r)
  BY <1>0, <1>1, <1>3, OrdinaryGood, ZenonT(60) DEF Ordinary
<1>4. CASE e[1] = "terminated"
  <2>1. r = HandleTerminated(n, v, t)
    BY <1>2, <1>4 DEF OnReceive
  <2>2. /\ Typed(r) /\ ~Hosting(r)
        /\ r.inbox = t.inbox \/ r.inbox = Append(t.inbox, <<"reconcile">>)
        /\ r.leaseState # "acquiring" /\ ~r.acquire
        /\ r.leaseState = "held" => ~r.release
    BY <1>1, <1>2, <1>4, <2>1, HandleTerminatedEnds
  <2>3. t.leaseState = "held" /\ h /\ ~c
    BY <1>1, <1>4 DEF Good, Ready
  <2>4. /\ ~Has(t.inbox, "terminated") /\ ~Has(t.inbox, "acquire-result")
        /\ ~Has(t.inbox, "lease-lost") /\ ~Granted(t.inbox)
        /\ HasOne(t.inbox, "terminated") /\ HasOne(t.inbox, "acquire-result")
        /\ t.inbox \in Seq(Event)
    BY <1>1, <1>4, <2>3 DEF Good, Ready, Typed, Granted, Has
  <2>5. /\ Ready(Rest(r)) /\ ~Hosting(Rest(r))
        /\ Rest(r).leaseState = r.leaseState /\ Rest(r).inbox = r.inbox
    BY <2>2, RestKeeps DEF Ready, Hosting
  <2>6. ~a2 /\ ~c2 /\ (r.leaseState = "held" => h2)
    BY <1>1, <1>4, <2>2, <2>3 DEF Hosting
  <2>7. /\ ~Has(r.inbox, "terminated") /\ ~Has(r.inbox, "acquire-result")
        /\ ~Has(r.inbox, "lease-lost") /\ ~Granted(r.inbox)
        /\ HasOne(r.inbox, "terminated") /\ HasOne(r.inbox, "acquire-result")
    BY <2>2, <2>4, ReconcileQueued
  <2> QED BY <2>2, <2>5, <2>6, <2>7 DEF Good
<1>5. CASE e[1] = "acquire-result"
  <2>1. r = OnLeaseAcquireResult(n, v, t, e[2])
    BY <1>2, <1>5 DEF OnReceive
  <2>2. e[2] \in BOOLEAN
    BY <1>1, <1>5 DEF Event, PlainKinds
  <2>3. /\ Typed(r) /\ r.inbox = t.inbox
        /\ r.leaseState # "acquiring" /\ ~r.acquire
        /\ r.leaseState = "held" => e[2] /\ ~r.release
        /\ Hosting(r) => r.leaseState = "held"
    BY <1>1, <1>2, <1>5, <2>1, <2>2, OnLeaseAcquireResultResolves
  <2>4. /\ ~Hosting(t) /\ ~a /\ ~c
        /\ ~Has(t.inbox, "terminated") /\ ~Has(t.inbox, "acquire-result")
        /\ ~Has(t.inbox, "lease-lost") /\ ~Granted(t.inbox)
        /\ HasOne(t.inbox, "terminated") /\ HasOne(t.inbox, "acquire-result")
    BY <1>1, <1>5 DEF Good, Ready, Granted, Has
  <2>5. /\ Ready(Rest(r)) /\ (Hosting(Rest(r)) <=> Hosting(r))
        /\ Rest(r).leaseState = r.leaseState /\ Rest(r).inbox = r.inbox
    BY <2>3, RestKeeps DEF Ready, Hosting
  <2>6. (a2 => Hosting(r)) /\ ~c2 /\ (r.leaseState = "held" => h2)
    BY <1>1, <1>5, <2>3, <2>4 DEF Hosting
  <2> QED BY <2>3, <2>4, <2>5, <2>6 DEF Good
<1>6. CASE e[1] \notin {"terminated", "acquire-result"}
  <2>1. e[1] \in {"request", "ack"} => e[2] \in Node
    BY <1>1 DEF Event, PlainKinds
  <2>2. e[1] \in {"reconcile", "acquire-retry", "restart-child", "hand-over-timeout",
                  "hand-over-retry", "request", "ack"}
    BY <1>1, <1>6 DEF Event, PlainKinds
  <2>3. Ordinary(t, r)
    BY <1>2, <2>1, <2>2, HandleReconcileIsOrdinary, OnRestartChildIsOrdinary,
       OnHandOverTimeoutIsOrdinary, OnHandOverRetryIsOrdinary, OnHandOverRequestIsOrdinary,
       OnHandOverAcknowledgmentIsOrdinary DEF OnReceive
  <2> QED BY <1>3, <2>3
<1> QED BY <1>4, <1>5, <1>6

LEMMA ReceivedTurns ==
    ASSUME options.lease, NEW n \in Node, NEW v,
           NEW s, NEW a \in BOOLEAN, NEW c \in BOOLEAN, NEW h \in BOOLEAN, Good(s, a, c, h),
           s.inbox # <<>>
    PROVE  Turned(s, a, c, h, OnReceive(n, v, Taken(s), Head(s.inbox)))
<1> DEFINE r == OnReceive(n, v, Taken(s), Head(s.inbox))
<1>0. r = OnReceive(n, v, Taken(s), Head(s.inbox))
  OBVIOUS
<1> HIDE DEF r
<1>1. ASSUME NEW a2, NEW c2, NEW h2, a2 <=> a \/ (r.child /\ ~s.child),
             c2 <=> c \/ r.acquire, h2 <=> h /\ ~r.release
      PROVE  Typed(r) /\ Good(Rest(r), a2, c2, h2)
  BY <1>0, <1>1, ReceivedGood, ZenonT(60)
<1>2. Typed(r)
  <2>1. PICK a2 \in BOOLEAN : a2 <=> a \/ (r.child /\ ~s.child)
    OBVIOUS
  <2>2. PICK c2 \in BOOLEAN : c2 <=> c \/ r.acquire
    OBVIOUS
  <2>3. PICK h2 \in BOOLEAN : h2 <=> h /\ ~r.release
    OBVIOUS
  <2> QED BY <1>1, <2>1, <2>2, <2>3
<1>3. Turned(s, a, c, h, r)
  BY <1>1, <1>2 DEF Turned
<1> QED BY <1>0, <1>3

-----------------------------------------------------------------------------
(* Every step *)

\* Every manager is good, and no lease is past its deadline.
Kept ==
    /\ mgr = [n \in Node |-> mgr[n]]
    /\ alive \in [Node -> BOOLEAN] /\ calling \in [Node -> BOOLEAN]
    /\ net \subseteq Frame
    /\ \A n \in Node : held[n] => left[n] > 0
    /\ \A n \in Node : Good(mgr[n], alive[n], calling[n], held[n])

\* A manager that holds its lease can renew it.
LEMMA KeptCanRenew ==
    ASSUME LeaseConstants, LeaseInv, Kept, NEW n \in Node, held[n]
    PROVE  Lease!CanRenew(n)
<1>1. left[n] > 0 /\ Lease!CheckAlive(n)
  BY DEF Kept, Lease!CheckAlive
<1>2. store # NoLease /\ store.owner = n /\ left[n] <= store.left
  BY <1>1 DEF LeaseInv, AliveOwnsRecord
<1>3. left[n] \in Nat /\ store.left \in Nat
  BY <1>2 DEF LeaseInv, Lease!LeaseTypeOK, LeaseConstants
<1> QED BY <1>1, <1>2, <1>3 DEF Lease!CanRenew

\* A handler's outcome is installed.
LEMMA StepKept ==
    ASSUME LeaseInv, Kept, NEW n \in Node, NEW r, Step(n, r),
           Turned(mgr[n], alive[n], calling[n], held[n], r)
    PROVE  Kept'
<1>0. Typed(r)
  BY DEF Turned
<1>1. /\ mgr' = [mgr EXCEPT ![n] = Rest(r)]
      /\ net' = net \cup r.out
      /\ alive' = [alive EXCEPT ![n] = @ \/ (r.child /\ ~mgr[n].child)]
      /\ calling' = [calling EXCEPT ![n] = @ \/ r.acquire]
      /\ left' = left
  BY DEF Step, Rest, Lease!Release, leaseVars
<1>2. held \in [Node -> BOOLEAN]
  BY DEF LeaseInv, Lease!LeaseTypeOK
<1>3. \A m \in Node : held'[m] <=> held[m] /\ ~(m = n /\ r.release)
  BY <1>2 DEF Step, Lease!Release, leaseVars
<1>4. Good(Rest(r), alive'[n], calling'[n], held'[n])
  <2>1. /\ alive'[n] <=> alive[n] \/ (r.child /\ ~mgr[n].child)
        /\ calling'[n] <=> calling[n] \/ r.acquire
    BY <1>1 DEF Kept
  <2> QED BY <1>3, <2>1 DEF Turned
<1>5. mgr' = [m \in Node |-> mgr'[m]] /\ mgr'[n] = Rest(r)
  BY <1>1 DEF Kept
<1>6. ASSUME NEW m \in Node, m # n PROVE Good(mgr'[m], alive'[m], calling'[m], held'[m])
  <2>1. mgr'[m] = mgr[m] /\ alive'[m] = alive[m] /\ calling'[m] = calling[m]
    BY <1>1, <1>6 DEF Kept
  <2>2. held'[m] = held[m]
    BY <1>2, <1>6 DEF Step, Lease!Release, leaseVars
  <2> QED BY <2>1, <2>2 DEF Kept
<1>7. alive' \in [Node -> BOOLEAN] /\ calling' \in [Node -> BOOLEAN]
  BY <1>1 DEF Kept
<1>8. net' \subseteq Frame
  BY <1>0, <1>1 DEF Kept, Typed
<1>9. \A m \in Node : held'[m] => left'[m] > 0
  BY <1>1, <1>3 DEF Kept
<1> QED BY <1>4, <1>5, <1>6, <1>7, <1>8, <1>9 DEF Kept

\* A message is queued at a manager, whose timers may have changed.
LEMMA EnqueueKept ==
    ASSUME LeaseInv, Kept, NEW n \in Node, NEW s, Typed(s), SameLease(mgr[n], s),
           s.child = mgr[n].child, s.pendingStop = mgr[n].pendingStop,
           NEW e \in Event, Enqueue(n, s, e), e[1] # "lease-lost",
           alive' \in [Node -> BOOLEAN], calling' \in [Node -> BOOLEAN], net' \subseteq net,
           \A m \in Node : /\ alive'[m] => alive[m]
                           /\ calling'[m] => calling[m]
                           /\ held[m] => held'[m]
                           /\ m # n => /\ alive'[m] = alive[m] /\ calling'[m] = calling[m]
                                       /\ held'[m] = held[m]
                           /\ held'[m] => left'[m] > 0,
           e[1] = "terminated" => alive[n] /\ ~alive'[n],
           e[1] = "acquire-result" => calling[n] /\ ~calling'[n] /\ (e[2] => held'[n])
    PROVE  Kept'
<1>1. mgr' = [mgr EXCEPT ![n] = Tell(s, e)]
  BY DEF Enqueue
<1>2. /\ Good(mgr[n], alive[n], calling[n], held[n])
      /\ alive[n] \in BOOLEAN /\ calling[n] \in BOOLEAN /\ held[n] \in BOOLEAN
  BY DEF Kept, LeaseInv, Lease!LeaseTypeOK
<1>3. Good(s, alive[n], calling[n], held[n])
  BY <1>2, TimersGood
<1>4. Good(Tell(s, e), alive'[n], calling'[n], held'[n])
  BY <1>2, <1>3, QueuedGood
<1>5. mgr' = [m \in Node |-> mgr'[m]]
  BY <1>1 DEF Kept
<1>6. \A m \in Node : mgr'[m] = IF m = n THEN Tell(s, e) ELSE mgr[m]
  BY <1>1 DEF Kept
<1>7. \A m \in Node : Good(mgr'[m], alive'[m], calling'[m], held'[m])
  BY <1>4, <1>6 DEF Kept
<1> QED BY <1>5, <1>7 DEF Kept

\* What the cluster, the network and the managers' mailboxes do.
LEMMA HandlersKept ==
    ASSUME options.lease, LeaseInv, Kept, NEW n \in Node,
           \/ \E m \in Node, status \in ViewValues : ViewChanges(n, m, status)
           \/ Receive(n)
    PROVE  Kept'
<1>0. /\ Good(mgr[n], alive[n], calling[n], held[n]) /\ Ready(mgr[n])
      /\ alive[n] \in BOOLEAN /\ calling[n] \in BOOLEAN /\ held[n] \in BOOLEAN
  BY DEF Kept, Good, LeaseInv, Lease!LeaseTypeOK
<1>1. ASSUME NEW r, Step(n, r), Ordinary(mgr[n], r) PROVE Kept'
  <2>1. Turned(mgr[n], alive[n], calling[n], held[n], r)
    BY <1>0, <1>1, OrdinaryGood, ZenonT(60) DEF Turned, Ordinary
  <2> QED BY <1>1, <2>1, StepKept
<1>2. CASE \E m \in Node, status \in ViewValues : ViewChanges(n, m, status)
  <2>1. Step(n, mgr[n]) \/ Step(n, Tell(mgr[n], <<"reconcile">>))
    BY <1>2 DEF ViewChanges, OnClusterMembershipChanged
  <2> QED BY <1>0, <1>1, <2>1, NothingIsOrdinary, ReconcileToldIsOrdinary
<1>3. CASE Receive(n)
  <2> DEFINE r == OnReceive(n, view[n], Taken(mgr[n]), Head(mgr[n].inbox))
  <2>1. mgr[n].inbox # <<>> /\ Step(n, r)
    BY <1>3 DEF Receive, Taken
  <2>2. Turned(mgr[n], alive[n], calling[n], held[n], r)
    BY <1>0, <2>1, ReceivedTurns
  <2> HIDE DEF r
  <2> QED BY <2>1, <2>2, StepKept
<1> QED BY <1>2, <1>3

LEMMA NetworkKept ==
    ASSUME LeaseInv, Kept, NEW frame \in net, Deliver(frame) \/ LoseFrame(frame)
    PROVE  Kept'
<1>0. frame \in Frame
  BY DEF Kept
<1>1. CASE LoseFrame(frame)
  BY <1>1 DEF LoseFrame, Kept, leaseVars
<1>2. CASE Deliver(frame)
  <2> DEFINE n == frame[3]
             e == <<frame[1], frame[2]>>
  <2>1. n \in Node /\ e \in Event /\ e[1] \notin {"terminated", "acquire-result", "lease-lost"}
    BY <1>0 DEF Frame, Event
  <2>2. /\ Enqueue(n, mgr[n], e) /\ net' \subseteq net
        /\ UNCHANGED <<alive, calling, store, held, left>>
    BY <1>2 DEF Deliver, leaseVars
  <2> HIDE DEF n, e
  <2>3. Typed(mgr[n]) /\ SameLease(mgr[n], mgr[n])
    BY <2>1 DEF Kept, Good, Ready, SameLease
  <2>4. alive' \in [Node -> BOOLEAN] /\ calling' \in [Node -> BOOLEAN]
    BY <2>2 DEF Kept
  <2> QED BY <2>1, <2>2, <2>3, <2>4, EnqueueKept DEF Kept
<1> QED BY <1>1, <1>2

\* The instance ends, and a timer fires.
LEMMA TimersKept ==
    ASSUME LeaseInv, Kept, NEW n \in Node,
           \/ ChildStops(n) \/ ChildDies(n) \/ RestartTimerFires(n) \/ RetryTimerFires(n)
           \/ HandOverTimerFires(n) \/ HandOverRetryFires(n)
    PROVE  Kept'
<1>0. Typed(mgr[n]) /\ SameLease(mgr[n], mgr[n])
  BY DEF Kept, Good, Ready, SameLease
<1>1. CASE ChildStops(n) \/ ChildDies(n)
  <2> DEFINE e == <<"terminated">>
  <2>1. e \in Event /\ e[1] = "terminated"
    BY DEF Event, PlainKinds
  <2>2. /\ Enqueue(n, mgr[n], e) /\ alive[n] /\ alive' = [alive EXCEPT ![n] = FALSE]
        /\ UNCHANGED <<calling, net, store, held, left>>
    BY <1>1 DEF ChildStops, ChildDies, leaseVars
  <2> HIDE DEF e
  <2>3. /\ alive' \in [Node -> BOOLEAN] /\ calling' \in [Node -> BOOLEAN] /\ ~alive'[n]
        /\ \A m \in Node : (alive'[m] => alive[m]) /\ (m # n => alive'[m] = alive[m])
    BY <2>2 DEF Kept
  <2> QED BY <1>0, <2>1, <2>2, <2>3, EnqueueKept DEF Kept
<1>2. ASSUME NEW s, Typed(s), SameLease(mgr[n], s), s.child = mgr[n].child,
             s.pendingStop = mgr[n].pendingStop,
             NEW e \in Event, e[1] \notin {"terminated", "acquire-result", "lease-lost"},
             Enqueue(n, s, e), UNCHANGED <<alive, calling, net, leaseVars>>
      PROVE  Kept'
  <2>1. UNCHANGED <<alive, calling, net, store, held, left>>
    BY <1>2 DEF leaseVars
  <2>2. alive' \in [Node -> BOOLEAN] /\ calling' \in [Node -> BOOLEAN]
    BY <2>1 DEF Kept
  <2> QED BY <1>2, <2>1, <2>2, EnqueueKept DEF Kept
<1>3. CASE RestartTimerFires(n)
  <2> DEFINE s == [mgr[n] EXCEPT !.restartTimer = FALSE]
             e == <<"restart-child">>
  <2>1. /\ Typed(s) /\ SameLease(mgr[n], s)
        /\ s.child = mgr[n].child /\ s.pendingStop = mgr[n].pendingStop
    BY <1>0 DEF Typed, Fields, SameLease
  <2>2. e \in Event /\ e[1] = "restart-child"
    BY DEF Event, PlainKinds
  <2>3. Enqueue(n, s, e) /\ UNCHANGED <<alive, calling, net, leaseVars>>
    BY <1>3 DEF RestartTimerFires
  <2> HIDE DEF s, e
  <2> QED BY <1>2, <2>1, <2>2, <2>3
<1>4. CASE RetryTimerFires(n)
  <2> DEFINE s == [mgr[n] EXCEPT !.retryTimer = FALSE]
             e == <<"acquire-retry">>
  <2>1. /\ Typed(s) /\ SameLease(mgr[n], s)
        /\ s.child = mgr[n].child /\ s.pendingStop = mgr[n].pendingStop
    BY <1>0 DEF Typed, Fields, SameLease
  <2>2. e \in Event /\ e[1] = "acquire-retry"
    BY DEF Event, PlainKinds
  <2>3. Enqueue(n, s, e) /\ UNCHANGED <<alive, calling, net, leaseVars>>
    BY <1>4 DEF RetryTimerFires
  <2> HIDE DEF s, e
  <2> QED BY <1>2, <2>1, <2>2, <2>3
<1>5. CASE HandOverTimerFires(n)
  <2> DEFINE s == [mgr[n] EXCEPT !.timer = FALSE]
             e == <<"hand-over-timeout">>
  <2>1. /\ Typed(s) /\ SameLease(mgr[n], s)
        /\ s.child = mgr[n].child /\ s.pendingStop = mgr[n].pendingStop
    BY <1>0 DEF Typed, Fields, SameLease
  <2>2. e \in Event /\ e[1] = "hand-over-timeout"
    BY DEF Event, PlainKinds
  <2>3. Enqueue(n, s, e) /\ UNCHANGED <<alive, calling, net, leaseVars>>
    BY <1>5 DEF HandOverTimerFires
  <2> HIDE DEF s, e
  <2> QED BY <1>2, <2>1, <2>2, <2>3
<1>6. CASE HandOverRetryFires(n)
  <2> DEFINE e == <<"hand-over-retry">>
  <2>1. e \in Event /\ e[1] = "hand-over-retry"
    BY DEF Event, PlainKinds
  <2>2. Enqueue(n, mgr[n], e) /\ UNCHANGED <<alive, calling, net, leaseVars>>
    BY <1>6 DEF HandOverRetryFires
  <2> HIDE DEF e
  <2> QED BY <1>0, <1>2, <2>1, <2>2
<1> QED BY <1>1, <1>3, <1>4, <1>5, <1>6

\* The lease is acquired, renewed, and runs.  It is never found lost: it would
\* have lapsed before.
LEMMA LeaseKept ==
    ASSUME LeaseConstants, LeaseInv, Kept, ~lapsed',
           TimePasses \/ \E n \in Node : AcquireResolves(n) \/ RenewalTick(n)
    PROVE  Kept'
<1>0. held \in [Node -> BOOLEAN] /\ left \in [Node -> 0..Ttl] /\ Ttl \in Nat \ {0}
  BY DEF LeaseInv, Lease!LeaseTypeOK, LeaseConstants
<1>1. ASSUME NEW n \in Node, AcquireResolves(n) PROVE Kept'
  <2> DEFINE e == <<"acquire-result", Lease!Acquirable(n)>>
  <2>1. Typed(mgr[n]) /\ SameLease(mgr[n], mgr[n])
    BY DEF Kept, Good, Ready, SameLease
  <2>2. e \in Event /\ e[1] = "acquire-result" /\ (e[2] <=> Lease!Acquirable(n))
    <3>1. Lease!Acquirable(n) \in BOOLEAN
      BY DEF Lease!Acquirable
    <3>2. e \in {"acquire-result"} \X BOOLEAN
      BY <3>1
    <3> QED BY <3>1, <3>2 DEF Event
  <2>3. /\ calling[n] /\ calling' = [calling EXCEPT ![n] = FALSE]
        /\ Enqueue(n, mgr[n], e) /\ UNCHANGED <<alive, net>>
        /\ IF Lease!Acquirable(n) THEN Lease!Acquire(n) ELSE UNCHANGED leaseVars
    BY <1>1 DEF AcquireResolves
  <2> HIDE DEF e
  <2>4. /\ Lease!Acquirable(n) => held'[n]
        /\ \A m \in Node : /\ held[m] => held'[m]
                           /\ m # n => held'[m] = held[m]
                           /\ held'[m] => left'[m] > 0
    <3>1. CASE Lease!Acquirable(n)
      <4>1. held' = [held EXCEPT ![n] = TRUE] /\ left' = [left EXCEPT ![n] = Ttl]
        BY <2>3, <3>1 DEF Lease!Acquire
      <4>2. \A m \in Node : /\ held'[m] = IF m = n THEN TRUE ELSE held[m]
                            /\ left'[m] = IF m = n THEN Ttl ELSE left[m]
        BY <1>0, <4>1
      <4>3. Ttl > 0 /\ \A m \in Node : held[m] => left[m] > 0
        BY <1>0 DEF Kept
      <4> QED BY <4>2, <4>3
    <3>2. CASE ~Lease!Acquirable(n)
      BY <2>3, <3>2 DEF Kept, leaseVars
    <3> QED BY <3>1, <3>2
  <2>5. /\ alive' \in [Node -> BOOLEAN] /\ calling' \in [Node -> BOOLEAN] /\ ~calling'[n]
        /\ \A m \in Node : /\ calling'[m] => calling[m]
                           /\ m # n => calling'[m] = calling[m]
    BY <2>3 DEF Kept
  <2> QED BY <2>1, <2>2, <2>3, <2>4, <2>5, EnqueueKept
<1>2. ASSUME NEW n \in Node, RenewalTick(n) PROVE Kept'
  <2>1. ~Lease!Lose(n)
    BY KeptCanRenew DEF Lease!Lose, Lease!CanRenew
  <2>2. held' = held /\ left' = [left EXCEPT ![n] = Ttl] /\ UNCHANGED <<mgr, alive, calling, net>>
    BY <1>2, <2>1 DEF RenewalTick, Lease!Renew
  <2>3. \A m \in Node : held'[m] => left'[m] > 0
    BY <1>0, <2>2 DEF Kept
  <2> QED BY <2>2, <2>3 DEF Kept
<1>3. CASE TimePasses
  <2>1. ~\E n \in Node : held[n] /\ left[n] = 1
    BY <1>3 DEF TimePasses
  <2>2. /\ held' = held /\ left' = [n \in Node |-> IF left[n] > 0 THEN left[n] - 1 ELSE 0]
        /\ UNCHANGED <<mgr, alive, calling, net>>
    BY <1>3 DEF TimePasses, Lease!Tick, managerVars
  <2>3. \A m \in Node : held'[m] => left'[m] > 0
    BY <1>0, <2>1, <2>2 DEF Kept
  <2> QED BY <2>2, <2>3 DEF Kept
<1> QED BY <1>1, <1>2, <1>3

\* Whatever the managers do, the lease takes a step of its own or none.
LEMMA LeaseSteps == [Next]_vars => [Lease!Next]_leaseVars
<1> USE DEF Lease!Next, leaseVars
<1>1. ASSUME NEW n \in Node, NEW s, Step(n, s) PROVE [Lease!Next]_leaseVars
  BY <1>1 DEF Step, Lease!Release
<1>2. ASSUME NEW n \in Node, NEW m \in Node, NEW status \in ViewValues, ViewChanges(n, m, status)
      PROVE  [Lease!Next]_leaseVars
  BY <1>1, <1>2 DEF ViewChanges
<1>3. ASSUME NEW n \in Node, Receive(n) PROVE [Lease!Next]_leaseVars
  BY <1>1, <1>3 DEF Receive
<1>4. ASSUME NEW n \in Node, AcquireResolves(n) PROVE [Lease!Next]_leaseVars
  BY <1>4 DEF AcquireResolves, Lease!Acquirable, Lease!Acquire
<1>5. ASSUME NEW n \in Node, RenewalTick(n) PROVE [Lease!Next]_leaseVars
  BY <1>5 DEF RenewalTick, Lease!Renew, Lease!Lose, Lease!CanRenew
<1>6. CASE TimePasses
  BY <1>6 DEF TimePasses, Lease!Tick
<1>7. ASSUME NEW frame \in net, Deliver(frame) \/ LoseFrame(frame) PROVE UNCHANGED leaseVars
  BY <1>7 DEF Deliver, LoseFrame
<1>8. ASSUME NEW n \in Node,
             \/ ChildStops(n) \/ ChildDies(n) \/ RestartTimerFires(n) \/ RetryTimerFires(n)
             \/ HandOverTimerFires(n) \/ HandOverRetryFires(n)
      PROVE  UNCHANGED leaseVars
  BY <1>8 DEF ChildStops, ChildDies, RestartTimerFires, RetryTimerFires, HandOverTimerFires,
     HandOverRetryFires
<1>9. CASE UNCHANGED vars
  BY <1>9 DEF vars
<1> QED BY <1>2, <1>3, <1>4, <1>5, <1>6, <1>7, <1>8, <1>9 DEF Next

\* The lease keeps its own invariant whatever happens; the rest is promised
\* where there is a lease, until one lapses.
SingletonInv == LeaseInv /\ (options.lease /\ ~lapsed => Kept)

LEMMA SingletonInvInit == ASSUME LeaseConstants PROVE Init => SingletonInv
<1> SUFFICES ASSUME Init PROVE SingletonInv
  OBVIOUS
<1>1. LeaseInv
  <2>1. Lease!Init
    BY DEF Init
  <2> QED BY <2>1, LeaseInvInit
<1>2. ASSUME options.lease PROVE Kept
  <2> DEFINE started == Tell(IdleManager, <<"reconcile">>)
             s == [started EXCEPT !.out = {}]
  <2>1. \A n \in Node : Started(n) = started
    BY <1>2 DEF Started, OnClusterMembershipChanged
  <2>2. Typed(IdleManager) /\ IdleManager.inbox = <<>>
    <3>1. IdleManager = [field \in Fields |-> IdleManager[field]]
      BY DEF IdleManager, Fields
    <3> QED BY <3>1 DEF IdleManager, Typed, LeaseStates
  <2>3. /\ Typed(started) /\ started.inbox = Append(<<>>, <<"reconcile">>)
        /\ started.leaseState = "none" /\ ~started.release /\ ~started.acquire
        /\ ~started.child /\ ~started.pendingStop
    <3>1. /\ IdleManager.leaseState = "none" /\ ~IdleManager.release /\ ~IdleManager.acquire
          /\ ~IdleManager.child /\ ~IdleManager.pendingStop
      BY DEF IdleManager
    <3> QED BY <2>2, <3>1, TellKeeps, ReconcileIsEvent
  <2>4. started.child = FALSE /\ started.out = {}
    BY DEF Tell, IdleManager
  <2> HIDE DEF started
  <2>5. /\ Typed(s) /\ SameLease(started, s) /\ ~s.child /\ ~s.pendingStop
    BY <2>3 DEF Typed, Fields, SameLease
  <2> HIDE DEF s
  <2>6. /\ ~Has(s.inbox, "terminated") /\ ~Has(s.inbox, "acquire-result")
        /\ ~Has(s.inbox, "lease-lost") /\ ~Granted(s.inbox)
        /\ HasOne(s.inbox, "terminated") /\ HasOne(s.inbox, "acquire-result")
    <3>1. <<>> \in Seq(Event) /\ \A i \in 1..Len(<<>>) : FALSE
      OBVIOUS
    <3> QED BY <2>3, <2>5, <3>1, ReconcileQueued DEF SameLease, Has, HasOne, Granted
  <2>7. Good(s, FALSE, FALSE, FALSE)
    BY <2>3, <2>5, <2>6 DEF Good, Ready, Hosting, SameLease
  <2>8. /\ mgr = [n \in Node |-> s] /\ alive = [n \in Node |-> FALSE]
        /\ calling = [n \in Node |-> FALSE] /\ held = [n \in Node |-> FALSE]
    BY <2>1, <2>4 DEF Init, Lease!Init, s
  <2>9. net = {}
    BY <2>1, <2>4 DEF Init
  <2> QED BY <2>7, <2>8, <2>9 DEF Kept
<1> QED BY <1>1, <1>2 DEF SingletonInv

LEMMA SingletonInvNext ==
    ASSUME LeaseConstants, SingletonInv, [Next]_vars PROVE SingletonInv'
<1>1. LeaseInv /\ (LeaseInv)'
  BY LeaseSteps, LeaseInvNext DEF SingletonInv
<1>2. options' = options /\ (lapsed' = lapsed \/ lapsed')
  BY DEF Next, vars, managerVars, ViewChanges, Deliver, LoseFrame, Receive, ChildStops, ChildDies,
     RestartTimerFires, RetryTimerFires, HandOverTimerFires, HandOverRetryFires, AcquireResolves,
     RenewalTick, TimePasses
<1>3. ASSUME options.lease, ~lapsed, ~lapsed' PROVE Kept'
  <2>1. Kept
    BY <1>3 DEF SingletonInv
  <2>2. CASE UNCHANGED vars
    BY <2>1, <2>2 DEF vars, managerVars, leaseVars, Kept
  <2>3. CASE Next
    BY <1>1, <1>3, <2>1, <2>3, HandlersKept, NetworkKept, TimersKept, LeaseKept DEF Next
  <2> QED BY <2>2, <2>3
<1> QED BY <1>1, <1>2, <1>3 DEF SingletonInv

\* With a lease, at most one instance of the singleton runs, on any number of
\* nodes, as long as no holder lets its lease lapse: whatever the views say,
\* whatever frames are lost and whatever hand-over deadlines pass
\* (handleReconcile, handleTerminated, onLeaseAcquireResult, completeHandOver).
THEOREM OneInstanceUnderLease ==
    ASSUME LeaseConstants PROVE Spec => []AtMostOneUnderLease
<1>1. Init => SingletonInv
  BY SingletonInvInit
<1>2. SingletonInv /\ [Next]_vars => SingletonInv'
  BY SingletonInvNext
<1>3. SingletonInv => AtMostOneUnderLease
  <2> SUFFICES ASSUME LeaseInv, Kept PROVE AtMostOne
    BY DEF SingletonInv, AtMostOneUnderLease
  <2> DEFINE Alive == {n \in Node : alive[n]}
  <2>1. \A n \in Node : alive[n] => Lease!CheckAlive(n)
    BY DEF Kept, Good, Ready, Lease!CheckAlive
  <2>2. \A n, m \in Alive : n = m
    BY <2>1 DEF LeaseInv, AliveOwnsRecord
  <2>3. CASE Alive = {}
    BY <2>3, FS_EmptySet DEF AtMostOne
  <2>4. CASE Alive # {}
    <3>1. PICK n \in Alive : TRUE
      BY <2>4
    <3>2. Alive = {n}
      BY <2>2, <3>1
    <3> QED BY <3>2, FS_Singleton DEF AtMostOne
  <2> QED BY <2>3, <2>4
<1> QED BY <1>1, <1>2, <1>3, PTL DEF Spec

\* The managers use the lease as its interface allows: with them around it, too,
\* checkAlive() is never true for two owners, and never passes from one to
\* another in one step (acquire, release, the renewal loop).
THEOREM ManagersKeepContract ==
    ASSUME LeaseConstants PROVE Spec => ContractHolds
<1>1. Init => Lease!Init
  BY DEF Init
<1>2. Lease!Spec => ContractHolds
  BY LeaseIsExclusive
<1> QED BY <1>1, <1>2, LeaseSteps, PTL DEF Spec, Lease!Spec, Lease!leaseVars, leaseVars

-----------------------------------------------------------------------------
(* Every manager keeps its form, with a lease or without *)

\* A hand-over is open exactly while somebody's answer is awaited.
Formed(s) ==
    /\ Typed(s)
    /\ s.asking \in BOOLEAN
    /\ s.asking <=> s.awaiting # {}

LEMMA PiecesFormed ==
    ASSUME NEW s, Formed(s)
    PROVE  /\ Formed(Spawn(s)) /\ Formed(StopChild(s)) /\ Formed(ReleaseLease(s))
           /\ \A event \in Event : Formed(Tell(s, event))
           /\ \A frames \in SUBSET Frame : Formed(Send(s, frames))
<1>0. Typed(s) /\ s.asking \in BOOLEAN /\ (s.asking <=> s.awaiting # {})
  BY DEF Formed
<1>1. Formed(Spawn(s)) /\ Formed(StopChild(s))
  <2>1. /\ Spawn(s).asking = s.asking /\ Spawn(s).awaiting = s.awaiting
        /\ StopChild(s).asking = s.asking /\ StopChild(s).awaiting = s.awaiting
    BY <1>0 DEF Typed, Fields, Spawn, StopChild
  <2> QED BY <1>0, <2>1, SpawnKeeps, StopChildKeeps DEF Formed
<1>2. Formed(ReleaseLease(s))
  BY <1>0 DEF ReleaseLease, Formed, Typed, Fields, LeaseStates
<1>3. ASSUME NEW event \in Event PROVE Formed(Tell(s, event))
  <2>1. Tell(s, event).asking = s.asking /\ Tell(s, event).awaiting = s.awaiting
    BY <1>0 DEF Typed, Fields, Tell
  <2> QED BY <1>0, <2>1, TellKeeps DEF Formed
<1>4. ASSUME NEW frames \in SUBSET Frame PROVE Formed(Send(s, frames))
  <2>1. Send(s, frames).asking = s.asking /\ Send(s, frames).awaiting = s.awaiting
    BY <1>0 DEF Typed, Fields, Send
  <2> QED BY <1>0, <2>1, SendKeeps DEF Formed
<1> QED BY <1>1, <1>2, <1>3, <1>4

\* Fields that say nothing of the hand-over.
LEMMA FieldsFormed ==
    ASSUME NEW s, Formed(s), NEW x \in BOOLEAN, NEW l \in LeaseStates
    PROVE  /\ Formed([s EXCEPT !.child = FALSE, !.restartTimer = x])
           /\ Formed([s EXCEPT !.child = FALSE, !.terminallyStopped = x])
           /\ Formed([s EXCEPT !.pendingStop = FALSE])
           /\ Formed([s EXCEPT !.releaseLeaseWhenChildStops = x])
           /\ Formed([s EXCEPT !.release = x])
           /\ Formed([s EXCEPT !.leaseState = l])
           /\ Formed([s EXCEPT !.leaseState = l, !.release = x])
           /\ Formed([s EXCEPT !.leaseState = l, !.retryTimer = x])
           /\ Formed([s EXCEPT !.retryTimer = x, !.leaseState = l, !.acquire = TRUE])
           /\ Formed([s EXCEPT !.retryTimer = x])
           /\ Formed([s EXCEPT !.restartTimer = x])
           /\ Formed([s EXCEPT !.timer = x])
<1>0. Typed(s) /\ s.asking \in BOOLEAN /\ (s.asking <=> s.awaiting # {})
  BY DEF Formed
<1>1. /\ Formed([s EXCEPT !.child = FALSE, !.restartTimer = x])
      /\ Formed([s EXCEPT !.child = FALSE, !.terminallyStopped = x])
      /\ Formed([s EXCEPT !.pendingStop = FALSE])
  BY <1>0 DEF Formed, Typed, Fields
<1>2. /\ Formed([s EXCEPT !.releaseLeaseWhenChildStops = x])
      /\ Formed([s EXCEPT !.release = x])
      /\ Formed([s EXCEPT !.retryTimer = x])
      /\ Formed([s EXCEPT !.restartTimer = x])
      /\ Formed([s EXCEPT !.timer = x])
  BY <1>0 DEF Formed, Typed, Fields
<1>3. /\ Formed([s EXCEPT !.leaseState = l])
      /\ Formed([s EXCEPT !.leaseState = l, !.release = x])
      /\ Formed([s EXCEPT !.leaseState = l, !.retryTimer = x])
      /\ Formed([s EXCEPT !.retryTimer = x, !.leaseState = l, !.acquire = TRUE])
  BY <1>0 DEF Formed, Typed, Fields
<1> QED BY <1>1, <1>2, <1>3

\* Asking the peers opens a hand-over; hearing the last of them closes it.
LEMMA TakeOverFormed ==
    ASSUME NEW n \in Node, NEW v, NEW s, Formed(s)
    PROVE  Formed(TakeOverHosting(n, v, s))
<1> DEFINE peers == HandOverPeers(n, v)
           asked == [s EXCEPT !.asking = TRUE, !.timer = TRUE, !.awaiting = peers]
           frames == {Request(n, m) : m \in peers}
<1>1. peers \subseteq Node
  BY DEF HandOverPeers, UpMembers
<1>2. frames \in SUBSET Frame
  BY <1>1 DEF Request, Frame
<1>3. ASSUME peers # {} PROVE Formed(asked)
  <2> HIDE DEF peers
  <2> QED BY <1>1, <1>3 DEF Formed, Typed, Fields
<1>4. TakeOverHosting(n, v, s) \in {s, Spawn(s)}
      \/ (peers # {} /\ TakeOverHosting(n, v, s) = Send(asked, frames))
  BY DEF TakeOverHosting
<1> HIDE DEF asked, frames, peers
<1> QED BY <1>2, <1>3, <1>4, PiecesFormed

LEMMA CompleteFormed ==
    ASSUME NEW n \in Node, NEW v, NEW s, Typed(s)
    PROVE  Formed(CompleteHandOver(n, v, s))
<1> DEFINE done == [s EXCEPT !.asking = FALSE, !.timer = FALSE, !.awaiting = {}]
<1>1. Formed(done)
  BY DEF Formed, Typed, Fields
<1>2. CompleteHandOver(n, v, s) \in {done, Spawn(done)}
  BY DEF CompleteHandOver
<1> HIDE DEF done
<1> QED BY <1>1, <1>2, PiecesFormed

LEMMA AnswerFormed ==
    ASSUME NEW n \in Node, NEW s, Formed(s)
    PROVE  Formed(AnswerHandOverRequesters(n, s))
<1> DEFINE cleared == [s EXCEPT !.requesters = {}]
           frames == {Ack(n, m) : m \in s.requesters}
<1>1. Formed(cleared)
  BY DEF Formed, Typed, Fields
<1>2. frames \in SUBSET Frame
  BY DEF Formed, Typed, Ack, Frame
<1>3. AnswerHandOverRequesters(n, s) \in {s, Send(cleared, frames)}
  BY DEF AnswerHandOverRequesters
<1> HIDE DEF cleared, frames
<1> QED BY <1>1, <1>2, <1>3, PiecesFormed

LEMMA ReconcileFormed ==
    ASSUME NEW n \in Node, NEW v, NEW s, Formed(s)
    PROVE  /\ Formed(ReconcileSync(n, v, s))
           /\ Formed(HandleReconcile(n, v, s))
           /\ Formed(OnClusterMembershipChanged(n, v, s))
<1>0. /\ Formed(TakeOverHosting(n, v, s)) /\ Formed(StopChild(s))
      /\ "acquiring" \in LeaseStates
  BY TakeOverFormed, PiecesFormed DEF LeaseStates
<1>1. Formed(ReconcileSync(n, v, s))
  <2>1. ReconcileSync(n, v, s) \in {TakeOverHosting(n, v, s), StopChild(s), s}
    BY DEF ReconcileSync
  <2> QED BY <1>0, <2>1
<1>2. Formed(HandleReconcile(n, v, s))
  <2> DEFINE stopped == StopChild(s)
             asks == [s EXCEPT !.retryTimer = FALSE, !.leaseState = "acquiring", !.acquire = TRUE]
  <2>1. HandleReconcile(n, v, s) \in
          {ReconcileSync(n, v, s), TakeOverHosting(n, v, s), s, asks,
           [stopped EXCEPT !.releaseLeaseWhenChildStops = TRUE], ReleaseLease(stopped),
           [s EXCEPT !.retryTimer = FALSE]}
    BY DEF HandleReconcile
  <2>2. Formed(asks) /\ Formed([s EXCEPT !.retryTimer = FALSE])
    BY <1>0, FieldsFormed
  <2> HIDE DEF stopped, asks
  <2>3. Formed([stopped EXCEPT !.releaseLeaseWhenChildStops = TRUE]) /\ Formed(ReleaseLease(stopped))
    BY <1>0, FieldsFormed, PiecesFormed DEF stopped
  <2> QED BY <1>0, <1>1, <2>1, <2>2, <2>3
<1>3. Formed(OnClusterMembershipChanged(n, v, s))
  BY <1>1, PiecesFormed, ReconcileIsEvent DEF OnClusterMembershipChanged
<1> QED BY <1>1, <1>2, <1>3

\* The handlers of a termination and of the lease.
LEMMA LifeFormed ==
    ASSUME NEW n \in Node, NEW v, NEW s, Formed(s)
    PROVE  /\ Formed(HandleTerminated(n, v, s))
           /\ Formed(OnRestartChild(n, v, s))
           /\ Formed(OnLeaseLost(s))
           /\ \A got \in BOOLEAN : Formed(OnLeaseAcquireResult(n, v, s, got))
<1>0. TRUE \in BOOLEAN /\ FALSE \in BOOLEAN /\ "none" \in LeaseStates /\ "held" \in LeaseStates
  BY DEF LeaseStates
<1>1. Formed(HandleTerminated(n, v, s))
  <2> DEFINE idle == [s EXCEPT !.pendingStop = FALSE]
             answered == AnswerHandOverRequesters(n, idle)
             unmarked == [answered EXCEPT !.releaseLeaseWhenChildStops = FALSE]
             released == IF answered.releaseLeaseWhenChildStops THEN ReleaseLease(unmarked)
                         ELSE answered
             died == OnChildDiedUnexpectedly(s)
  <2>1. Formed(idle)
    BY <1>0, FieldsFormed
  <2>2. HandleTerminated(n, v, s) \in
          {OnClusterMembershipChanged(n, v, released), AnswerHandOverRequesters(n, died), s}
    BY DEF HandleTerminated
  <2>3. Formed(died)
    <3> DEFINE gone == [s EXCEPT !.child = FALSE, !.terminallyStopped = TRUE]
               again == [s EXCEPT !.child = FALSE, !.restartTimer = TRUE]
    <3>1. Formed(gone) /\ Formed(again)
      BY <1>0, FieldsFormed
    <3>2. died \in {again, ReleaseLease(gone)}
      BY DEF OnChildDiedUnexpectedly
    <3> HIDE DEF gone, again, died
    <3> QED BY <3>1, <3>2, PiecesFormed
  <2> HIDE DEF idle, died
  <2>4. Formed(answered)
    BY <2>1, AnswerFormed
  <2> HIDE DEF answered
  <2>5. Formed(unmarked)
    BY <1>0, <2>4, FieldsFormed
  <2> HIDE DEF unmarked
  <2>6. Formed(released)
    BY <2>4, <2>5, PiecesFormed
  <2> HIDE DEF released
  <2> QED BY <2>2, <2>3, <2>6, AnswerFormed, ReconcileFormed
<1>2. Formed(OnRestartChild(n, v, s))
  <2>1. OnRestartChild(n, v, s) \in {s, Tell(s, <<"reconcile">>), Spawn(s)}
    BY DEF OnRestartChild
  <2> QED BY <2>1, PiecesFormed, ReconcileIsEvent
<1>3. Formed(OnLeaseLost(s))
  <2> DEFINE child == StopChild(s)
             stopped == [child EXCEPT !.leaseState = "none"]
  <2>1. OnLeaseLost(s) \in {s, stopped, Tell(stopped, <<"reconcile">>)}
    BY DEF OnLeaseLost
  <2>2. Formed(child)
    BY PiecesFormed
  <2> HIDE DEF child
  <2>3. Formed(stopped)
    BY <1>0, <2>2, FieldsFormed
  <2> HIDE DEF stopped
  <2> QED BY <2>1, <2>3, PiecesFormed, ReconcileIsEvent
<1>4. ASSUME NEW got \in BOOLEAN PROVE Formed(OnLeaseAcquireResult(n, v, s, got))
  <2> DEFINE holds == [s EXCEPT !.leaseState = "held"]
  <2>1. OnLeaseAcquireResult(n, v, s, got) \in
          {[s EXCEPT !.release = got], [s EXCEPT !.leaseState = "none", !.retryTimer = TRUE],
           [s EXCEPT !.leaseState = "none", !.release = TRUE], TakeOverHosting(n, v, holds)}
    BY DEF OnLeaseAcquireResult
  <2>2. /\ Formed([s EXCEPT !.release = got]) /\ Formed(holds)
        /\ Formed([s EXCEPT !.leaseState = "none", !.retryTimer = TRUE])
        /\ Formed([s EXCEPT !.leaseState = "none", !.release = TRUE])
    BY <1>0, FieldsFormed
  <2> HIDE DEF holds
  <2>3. Formed(TakeOverHosting(n, v, holds))
    BY <2>2, TakeOverFormed
  <2> QED BY <2>1, <2>2, <2>3
<1> QED BY <1>1, <1>2, <1>3, <1>4

\* The handlers of the hand-over protocol.
LEMMA HandOverFormed ==
    ASSUME NEW n \in Node, NEW v, NEW s, Formed(s)
    PROVE  /\ Formed(OnHandOverTimeout(n, v, s))
           /\ Formed(OnHandOverRetry(n, v, s))
           /\ \A m \in Node : /\ Formed(OnHandOverAcknowledgment(n, v, s, m))
                              /\ Formed(OnHandOverRequest(n, v, s, m))
<1>0. Typed(s) /\ s.asking \in BOOLEAN /\ (s.asking <=> s.awaiting # {})
  BY DEF Formed
<1>1. Formed(OnHandOverTimeout(n, v, s))
  BY <1>0, CompleteFormed DEF OnHandOverTimeout
\* With fewer answers awaited, it is still open or is closed at once.
<1>2. ASSUME NEW some, some \subseteq s.awaiting
      PROVE  LET fewer == [s EXCEPT !.awaiting = some]
             IN  /\ Typed(fewer) /\ fewer.awaiting = some
                 /\ s.asking /\ some # {} => Formed(fewer)
  BY <1>0, <1>2 DEF Formed, Typed, Fields
<1>3. Formed(OnHandOverRetry(n, v, s))
  <2> DEFINE some == s.awaiting \cap HandOverPeers(n, v)
             pruned == [s EXCEPT !.awaiting = some]
             frames == {Request(n, m) : m \in some}
  <2>1. some \subseteq s.awaiting /\ some \subseteq Node
    BY <1>0 DEF Typed
  <2>2. /\ Typed(pruned) /\ pruned.awaiting = some
        /\ s.asking /\ some # {} => Formed(pruned)
    BY <1>2, <2>1
  <2>3. frames \in SUBSET Frame
    BY <2>1 DEF Request, Frame
  <2>4. \/ OnHandOverRetry(n, v, s) = s
        \/ OnHandOverRetry(n, v, s) = CompleteHandOver(n, v, pruned)
        \/ s.asking /\ some # {} /\ OnHandOverRetry(n, v, s) = Send(pruned, frames)
    BY <2>2 DEF OnHandOverRetry
  <2> HIDE DEF some, pruned, frames
  <2> QED BY <2>2, <2>3, <2>4, CompleteFormed, PiecesFormed
<1>4. ASSUME NEW m \in Node PROVE Formed(OnHandOverAcknowledgment(n, v, s, m))
  <2> DEFINE some == s.awaiting \ {m}
             heard == [s EXCEPT !.awaiting = some]
  <2>1. /\ Typed(heard) /\ heard.awaiting = some
        /\ s.asking /\ some # {} => Formed(heard)
    BY <1>2
  <2>2. \/ OnHandOverAcknowledgment(n, v, s, m) = s
        \/ OnHandOverAcknowledgment(n, v, s, m) = CompleteHandOver(n, v, heard)
        \/ s.asking /\ some # {} /\ OnHandOverAcknowledgment(n, v, s, m) = heard
    BY <2>1 DEF OnHandOverAcknowledgment
  <2> HIDE DEF some, heard
  <2> QED BY <2>1, <2>2, CompleteFormed
<1>5. ASSUME NEW m \in Node PROVE Formed(OnHandOverRequest(n, v, s, m))
  <2> DEFINE asked == [s EXCEPT !.requesters = @ \cup {m}]
             frames == {Ack(n, m)}
  <2>1. Formed(asked)
    BY <1>0 DEF Formed, Typed, Fields
  <2>2. frames \in SUBSET Frame
    BY DEF Ack, Frame
  <2>3. OnHandOverRequest(n, v, s, m) \in {s, StopChild(asked), Send(s, frames)}
    BY DEF OnHandOverRequest
  <2> HIDE DEF asked, frames
  <2> QED BY <2>1, <2>2, <2>3, PiecesFormed
<1> QED BY <1>1, <1>3, <1>4, <1>5

LEMMA ReceiveFormed ==
    ASSUME NEW n \in Node, NEW v, NEW s, Formed(s), s.inbox # <<>>
    PROVE  Formed(OnReceive(n, v, Taken(s), Head(s.inbox)))
<1> DEFINE t == Taken(s)
           e == Head(s.inbox)
<1>1. Formed(t) /\ e \in Event
  <2>1. Typed(t) /\ e \in Event
    BY TakenKeeps DEF Formed
  <2>2. t.asking = s.asking /\ t.awaiting = s.awaiting
    BY DEF Formed, Typed, Fields, Taken
  <2> QED BY <2>1, <2>2 DEF Formed
<1> HIDE DEF t, e
<1>2. CASE e \in {"acquire-result"} \X BOOLEAN
  <2>1. e[1] = "acquire-result" /\ e[2] \in BOOLEAN
    BY <1>2
  <2>2. OnReceive(n, v, t, e) = OnLeaseAcquireResult(n, v, t, e[2])
    BY <2>1 DEF OnReceive
  <2> QED BY <1>1, <2>1, <2>2, LifeFormed DEF t, e
<1>3. CASE e \in {"request", "ack"} \X Node
  <2>1. e[1] \in {"request", "ack"} /\ e[2] \in Node
    BY <1>3
  <2>2. OnReceive(n, v, t, e) \in
          {OnHandOverRequest(n, v, t, e[2]), OnHandOverAcknowledgment(n, v, t, e[2])}
    BY <2>1 DEF OnReceive
  <2> QED BY <1>1, <2>1, <2>2, HandOverFormed DEF t, e
<1>4. CASE e \in {<<kind>> : kind \in PlainKinds}
  <2>1. e[1] \in PlainKinds
    BY <1>4
  <2>2. OnReceive(n, v, t, e) \in
          {HandleTerminated(n, v, t), HandleReconcile(n, v, t), OnLeaseLost(t),
           OnRestartChild(n, v, t), OnHandOverTimeout(n, v, t), OnHandOverRetry(n, v, t)}
    BY <2>1 DEF OnReceive, PlainKinds
  <2> QED BY <1>1, <2>2, LifeFormed, HandOverFormed, ReconcileFormed DEF t, e
<1> QED BY <1>1, <1>2, <1>3, <1>4 DEF Event

\* Every manager is formed, and the rest of the state is typed.
FormInv ==
    /\ options \in [lease : BOOLEAN, restart : BOOLEAN]
    /\ view \in [Node -> [Node -> Statuses]]
    /\ mgr = [n \in Node |-> mgr[n]]
    /\ alive \in [Node -> BOOLEAN] /\ calling \in [Node -> BOOLEAN]
    /\ net \subseteq Frame
    /\ \A n \in Node : Formed(mgr[n])

LEMMA FormInit == Init => FormInv
<1> SUFFICES ASSUME Init PROVE FormInv
  OBVIOUS
<1>1. options \in [lease : BOOLEAN, restart : BOOLEAN] /\ view \in [Node -> [Node -> Statuses]]
  BY DeploymentAssumption DEF Init
<1>2. Formed(IdleManager)
  <2>1. IdleManager = [field \in Fields |-> IdleManager[field]]
    BY DEF IdleManager, Fields
  <2> QED BY <2>1 DEF IdleManager, Formed, Typed, LeaseStates
<1>3. ASSUME NEW n \in Node PROVE Formed(Started(n)) /\ Formed([Started(n) EXCEPT !.out = {}])
  <2>1. Formed(Started(n))
    BY <1>2, ReconcileFormed DEF Started
  <2> QED BY <2>1 DEF Formed, Typed, Fields
<1>4. net \subseteq Frame
  BY <1>3 DEF Init, Formed, Typed
<1>5. /\ mgr = [n \in Node |-> [Started(n) EXCEPT !.out = {}]]
      /\ alive = [n \in Node |-> Started(n).child] /\ calling = [n \in Node |-> FALSE]
  BY DEF Init
<1>6. alive \in [Node -> BOOLEAN] /\ calling \in [Node -> BOOLEAN]
  BY <1>3, <1>5 DEF Formed, Typed
<1>7. mgr = [n \in Node |-> mgr[n]] /\ \A n \in Node : Formed(mgr[n])
  BY <1>3, <1>5
<1> QED BY <1>1, <1>4, <1>6, <1>7 DEF FormInv

\* A handler's outcome is installed.
LEMMA StepForm ==
    ASSUME FormInv, NEW n \in Node, NEW r, Formed(r), Step(n, r),
           options' = options, view' \in [Node -> [Node -> Statuses]]
    PROVE  FormInv'
<1>1. /\ mgr' = [mgr EXCEPT ![n] = Rest(r)]
      /\ net' = net \cup r.out
      /\ alive' = [alive EXCEPT ![n] = @ \/ (r.child /\ ~mgr[n].child)]
      /\ calling' = [calling EXCEPT ![n] = @ \/ r.acquire]
  BY DEF Step, Rest
<1>2. Formed(Rest(r))
  <2>1. Typed(Rest(r))
    BY RestKeeps DEF Formed
  <2>2. Rest(r).asking = r.asking /\ Rest(r).awaiting = r.awaiting
    BY DEF Formed, Typed, Fields, Rest
  <2> QED BY <2>1, <2>2 DEF Formed
<1>3. mgr' = [m \in Node |-> mgr'[m]] /\ \A m \in Node : Formed(mgr'[m])
  BY <1>1, <1>2 DEF FormInv
<1>4. alive' \in [Node -> BOOLEAN] /\ calling' \in [Node -> BOOLEAN]
  BY <1>1 DEF FormInv
<1>5. net' \subseteq Frame
  BY <1>1 DEF FormInv, Formed, Typed
<1> QED BY <1>3, <1>4, <1>5 DEF FormInv

\* A message is queued.
LEMMA EnqueueForm ==
    ASSUME FormInv, NEW n \in Node, NEW s, Formed(s), NEW e \in Event, Enqueue(n, s, e),
           UNCHANGED <<options, view>>, alive' \in [Node -> BOOLEAN], calling' \in [Node -> BOOLEAN],
           net' \subseteq net
    PROVE  FormInv'
<1>1. mgr' = [mgr EXCEPT ![n] = Tell(s, e)] /\ Formed(Tell(s, e))
  BY PiecesFormed DEF Enqueue
<1>2. mgr' = [m \in Node |-> mgr'[m]] /\ \A m \in Node : Formed(mgr'[m])
  BY <1>1 DEF FormInv
<1> QED BY <1>2 DEF FormInv

LEMMA FormNext ==
    ASSUME FormInv, [Next]_vars
    PROVE  FormInv'
<1>0. /\ view \in [Node -> [Node -> Statuses]]
      /\ alive \in [Node -> BOOLEAN] /\ calling \in [Node -> BOOLEAN]
      /\ \A n \in Node : Formed(mgr[n])
  BY DEF FormInv
<1>1. ASSUME NEW n \in Node, NEW m \in Node, NEW status \in ViewValues, ViewChanges(n, m, status)
      PROVE  FormInv'
  <2> DEFINE v == [view[n] EXCEPT ![m] = status]
  <2>1. /\ view' = [view EXCEPT ![n] = v] /\ options' = options
        /\ Step(n, mgr[n]) \/ Step(n, OnClusterMembershipChanged(n, v, mgr[n]))
    BY <1>1 DEF ViewChanges
  <2>2. v \in [Node -> Statuses]
    BY <1>0, DeploymentAssumption
  <2> HIDE DEF v
  <2>3. view' \in [Node -> [Node -> Statuses]]
    BY <1>0, <2>1, <2>2
  <2>4. Formed(OnClusterMembershipChanged(n, v, mgr[n]))
    BY <1>0, ReconcileFormed
  <2> QED BY <1>0, <2>1, <2>3, <2>4, StepForm
<1>2. ASSUME NEW n \in Node, Receive(n) PROVE FormInv'
  <2> DEFINE r == OnReceive(n, view[n], Taken(mgr[n]), Head(mgr[n].inbox))
  <2>1. mgr[n].inbox # <<>> /\ Step(n, r) /\ UNCHANGED <<options, view>>
    BY <1>2 DEF Receive, Taken
  <2>2. Formed(r)
    BY <1>0, <2>1, ReceiveFormed
  <2> HIDE DEF r
  <2> QED BY <1>0, <2>1, <2>2, StepForm
<1>3. ASSUME NEW frame \in net, Deliver(frame) PROVE FormInv'
  <2> DEFINE n == frame[3]
             e == <<frame[1], frame[2]>>
  <2>1. n \in Node /\ e \in Event
    BY DEF FormInv, Frame, Event
  <2>2. Enqueue(n, mgr[n], e) /\ net' \subseteq net /\ UNCHANGED <<options, view, alive, calling>>
    BY <1>3 DEF Deliver
  <2> HIDE DEF n, e
  <2> QED BY <1>0, <2>1, <2>2, EnqueueForm
<1>4. ASSUME NEW frame \in net, LoseFrame(frame) PROVE FormInv'
  BY <1>4 DEF LoseFrame, FormInv
<1>5. ASSUME NEW n \in Node, ChildStops(n) \/ ChildDies(n) PROVE FormInv'
  <2> DEFINE e == <<"terminated">>
  <2>1. e \in Event
    BY DEF Event, PlainKinds
  <2>2. /\ Enqueue(n, mgr[n], e) /\ alive' = [alive EXCEPT ![n] = FALSE]
        /\ UNCHANGED <<options, view, calling, net>>
    BY <1>5 DEF ChildStops, ChildDies
  <2> HIDE DEF e
  <2>3. alive' \in [Node -> BOOLEAN] /\ calling' \in [Node -> BOOLEAN] /\ net' \subseteq net
    BY <1>0, <2>2
  <2> QED BY <1>0, <2>1, <2>2, <2>3, EnqueueForm
<1>6. ASSUME NEW n \in Node,
             \/ RestartTimerFires(n) \/ RetryTimerFires(n) \/ HandOverTimerFires(n)
             \/ HandOverRetryFires(n)
      PROVE  FormInv'
  <2>1. /\ UNCHANGED <<options, view, alive, calling, net>>
        /\ \/ Enqueue(n, [mgr[n] EXCEPT !.restartTimer = FALSE], <<"restart-child">>)
           \/ Enqueue(n, [mgr[n] EXCEPT !.retryTimer = FALSE], <<"acquire-retry">>)
           \/ Enqueue(n, [mgr[n] EXCEPT !.timer = FALSE], <<"hand-over-timeout">>)
           \/ Enqueue(n, mgr[n], <<"hand-over-retry">>)
    BY <1>6 DEF RestartTimerFires, RetryTimerFires, HandOverTimerFires, HandOverRetryFires
  <2>2. /\ Formed([mgr[n] EXCEPT !.restartTimer = FALSE])
        /\ Formed([mgr[n] EXCEPT !.retryTimer = FALSE])
        /\ Formed([mgr[n] EXCEPT !.timer = FALSE]) /\ Formed(mgr[n])
    <3>1. FALSE \in BOOLEAN /\ "none" \in LeaseStates
      BY DEF LeaseStates
    <3> QED BY <1>0, <3>1, FieldsFormed
  <2>3. /\ <<"restart-child">> \in Event /\ <<"acquire-retry">> \in Event
        /\ <<"hand-over-timeout">> \in Event /\ <<"hand-over-retry">> \in Event
    BY DEF Event, PlainKinds
  <2>4. /\ alive' \in [Node -> BOOLEAN] /\ calling' \in [Node -> BOOLEAN] /\ net' \subseteq net
        /\ UNCHANGED <<options, view>>
    BY <1>0, <2>1
  <2> QED BY <2>1, <2>2, <2>3, <2>4, EnqueueForm
<1>7. ASSUME NEW n \in Node, AcquireResolves(n) PROVE FormInv'
  <2> DEFINE e == <<"acquire-result", Lease!Acquirable(n)>>
  <2>1. e \in Event
    <3>1. Lease!Acquirable(n) \in BOOLEAN
      BY DEF Lease!Acquirable
    <3>2. e \in {"acquire-result"} \X BOOLEAN
      BY <3>1
    <3> QED BY <3>2 DEF Event
  <2>2. /\ Enqueue(n, mgr[n], e) /\ calling' = [calling EXCEPT ![n] = FALSE]
        /\ UNCHANGED <<options, view, alive, net>>
    BY <1>7 DEF AcquireResolves
  <2> HIDE DEF e
  <2>3. alive' \in [Node -> BOOLEAN] /\ calling' \in [Node -> BOOLEAN] /\ net' \subseteq net
    BY <1>0, <2>2
  <2> QED BY <1>0, <2>1, <2>2, <2>3, EnqueueForm
<1>8. ASSUME NEW n \in Node, RenewalTick(n) PROVE FormInv'
  <2> DEFINE e == <<"lease-lost">>
  <2>1. e \in Event
    BY DEF Event, PlainKinds
  <2>2. UNCHANGED <<options, view, alive, calling, net>> /\ (UNCHANGED mgr \/ Enqueue(n, mgr[n], e))
    BY <1>8 DEF RenewalTick
  <2> HIDE DEF e
  <2>3. CASE UNCHANGED mgr
    BY <2>2, <2>3 DEF FormInv
  <2>4. CASE Enqueue(n, mgr[n], e)
    BY <1>0, <2>1, <2>2, <2>4, EnqueueForm
  <2> QED BY <2>2, <2>3, <2>4
<1>9. CASE TimePasses \/ UNCHANGED vars
  BY <1>9 DEF TimePasses, vars, managerVars, FormInv
<1> QED BY <1>1, <1>2, <1>3, <1>4, <1>5, <1>6, <1>7, <1>8, <1>9 DEF Next

\* On any number of nodes, with a lease or without, every field of the managers
\* and of the lease keeps its type.  In particular a manager waits for a hand-over
\* exactly while a peer's answer is outstanding (takeOverHosting, onHandOverRetry,
\* onHandOverAcknowledgment, completeHandOver): it never waits for nobody.
THEOREM ManagersStayTyped ==
    ASSUME LeaseConstants PROVE Spec => []TypeOK
<1>1. Init => FormInv /\ LeaseInv
  BY FormInit, SingletonInvInit DEF SingletonInv
<1>2. FormInv /\ LeaseInv /\ [Next]_vars => (FormInv /\ LeaseInv)'
  BY FormNext, LeaseSteps, LeaseInvNext
<1>3. FormInv /\ LeaseInv => TypeOK
  BY DEF FormInv, LeaseInv, TypeOK, Formed, Typed, Frame
<1> QED BY <1>1, <1>2, <1>3, PTL DEF Spec
=============================================================================
