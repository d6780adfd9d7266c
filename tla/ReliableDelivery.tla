------------------------- MODULE ReliableDelivery -------------------------
(***************************************************************************)
(* The reliable-delivery protocol: ProducerController and                  *)
(* ConsumerController of delivery/, over a wire that loses, duplicates and *)
(* reorders.                                                               *)
(*                                                                         *)
(* A transmission is named by its producer, the incarnation of that        *)
(* producer and the sequence number; the body adds nothing to that name.   *)
(* A first transmission whose tell throws faults the producer: that is a   *)
(* Send or an OnAcknowledgment whose delivery is lost, then a restart.     *)
(***************************************************************************)
EXTENDS Integers, Sequences, FiniteSets, FiniteSetsExt

CONSTANTS
    Producers,
    Window,         \* windowSize
    MaxProducers,   \* maxProducers: entries of the dedup map
    MaxOutOfOrder,  \* maxOutOfOrder: sequences kept above a gap
    MaxSends,       \* bound: sends handed to the producers
    MaxRestarts,    \* bound: restarts of a producer, and of the consumer
    MaxSweeps       \* bound: idle sweeps that drop something

ASSUME DeliveryAssumption ==
    /\ IsFiniteSet(Producers)
    /\ Window \in Nat \ {0} /\ MaxProducers \in Nat \ {0} /\ MaxOutOfOrder \in Nat \ {0}
    /\ MaxSends \in Nat /\ MaxRestarts \in Nat /\ MaxSweeps \in Nat

VARIABLES
    incarnation,    \* producer: restarts so far, for the random token
    nextSeq,        \* producer: sequence number of the next dispatch
    inflight,       \* producer: sequence numbers not yet acknowledged
    pending,        \* producer: sends waiting for room in the window
    deduplication,  \* consumer: [producer -> DeduplicationState], for tracked ones
    order,          \* consumer: the keys of the map, least recently used first
    handling,       \* consumer: the delivery whose handler is awaited, with its state
    deliveries,     \* the wire to the consumer
    acks,           \* the wire back
    submitted,      \* history: sends handed to each producer
    confirmed,      \* history: transmissions whose confirm was called with null
    stopped,        \* history: sends whose confirm was called with an error
    handled,        \* history: transmissions the handler succeeded on
    twice,          \* history: those it succeeded on again
    forgotten,      \* history: those the consumer recorded and no longer does
    restarts, sweeps \* budgets spent

producerVars == <<incarnation, nextSeq, inflight, pending, submitted, confirmed, stopped>>
dedupVars == <<deduplication, order, forgotten>>
handlerVars == <<handled, twice>>
vars == <<producerVars, dedupVars, handling, deliveries, acks, handlerVars, restarts, sweeps>>

SeqNr == 1..MaxSends
Transmission == [producer : Producers, incarnation : 0..MaxRestarts, seq : SeqNr]
Nothing == [kind |-> "nothing"]
Untracked == [kind |-> "untracked"]

State(i, contiguous, above) == [incarnation |-> i, contiguous |-> contiguous, above |-> above]
Entry == [incarnation : 0..MaxRestarts, contiguous : 0..MaxSends, above : SUBSET SeqNr]

Init ==
    /\ incarnation = [p \in Producers |-> 0]
    /\ nextSeq = [p \in Producers |-> 1]
    /\ inflight = [p \in Producers |-> {}]
    /\ pending = [p \in Producers |-> 0]
    /\ deduplication = [p \in Producers |-> Untracked]
    /\ order = <<>>
    /\ handling = Nothing
    /\ deliveries = {} /\ acks = {}
    /\ submitted = [p \in Producers |-> 0]
    /\ confirmed = {}
    /\ stopped = [p \in Producers |-> 0]
    /\ handled = {} /\ twice = {} /\ forgotten = {}
    /\ restarts = 0 /\ sweeps = 0

-----------------------------------------------------------------------------
(* The producer *)

This(p, seq) == [producer |-> p, incarnation |-> incarnation[p], seq |-> seq]

\* dispatch: number n sends and transmit them.
Dispatch(p, flying, n) ==
    /\ nextSeq' = [nextSeq EXCEPT ![p] = @ + n]
    /\ inflight' = [inflight EXCEPT ![p] = flying \cup (nextSeq[p]..nextSeq[p] + n - 1)]
    /\ deliveries' = deliveries \cup {This(p, s) : s \in nextSeq[p]..nextSeq[p] + n - 1}

\* The sends handed out so far, each named by its producer and its rank there.
Submissions == {s \in Producers \X SeqNr : s[2] <= submitted[s[1]]}

OnSend(p) ==
    /\ Cardinality(Submissions) < MaxSends
    /\ submitted' = [submitted EXCEPT ![p] = @ + 1]
    /\ IF Cardinality(inflight[p]) >= Window
       THEN /\ pending' = [pending EXCEPT ![p] = @ + 1]
            /\ UNCHANGED <<nextSeq, inflight, deliveries>>
       ELSE /\ Dispatch(p, inflight[p], 1)
            /\ UNCHANGED pending
    /\ UNCHANGED <<incarnation, confirmed, stopped, dedupVars, handling, acks, handlerVars,
                   restarts, sweeps>>

\* retransmit: the timer of a sequence that is still in flight.
Retransmit(p, seq) ==
    /\ seq \in inflight[p]
    /\ deliveries' = deliveries \cup {This(p, seq)}
    /\ UNCHANGED <<producerVars, dedupVars, handling, acks, handlerVars, restarts, sweeps>>

\* onAcknowledgment: settle the send, then refill the window from the queue.
\* Mutant: an acknowledgment of an earlier incarnation counts.
SettlesAny(a) == a.seq \in inflight[a.producer]

Settles(a) == a.incarnation = incarnation[a.producer] /\ a.seq \in inflight[a.producer]

\* Mutants: the queue is not drained; it is drained past its end.
RefillNever(p, left) == 0
RefillBlind(p, left) == Window - Cardinality(left)

Refill(p, left) == Min({pending[p], Window - Cardinality(left)})

\* Another copy of the acknowledgment may still be on its way.
OnAcknowledgment(a) ==
    LET p == a.producer
        left == inflight[p] \ {a.seq}
        n == Refill(p, left)
    IN  /\ a \in acks
        /\ acks' \in {acks, acks \ {a}}
        /\ IF Settles(a)
           THEN /\ confirmed' = confirmed \cup {This(p, a.seq)}
                /\ Dispatch(p, left, n)
                /\ pending' = [pending EXCEPT ![p] = @ - n]
           ELSE /\ UNCHANGED <<confirmed, nextSeq, inflight, pending, deliveries>>
        /\ UNCHANGED <<incarnation, submitted, stopped, dedupVars, handling, handlerVars,
                       restarts, sweeps>>

\* Mutant: the sends that were not numbered yet are told nothing.
RestartProducerSilent(p) ==
    /\ restarts < MaxRestarts /\ restarts' = restarts + 1
    /\ stopped' = [stopped EXCEPT ![p] = @ + Cardinality(inflight[p])]
    /\ inflight' = [inflight EXCEPT ![p] = {}]
    /\ pending' = [pending EXCEPT ![p] = 0]
    /\ nextSeq' = [nextSeq EXCEPT ![p] = 1]
    /\ incarnation' = [incarnation EXCEPT ![p] = @ + 1]
    /\ UNCHANGED <<submitted, confirmed, dedupVars, handling, deliveries, acks, handlerVars, sweeps>>

\* postStop, and the instance that follows it.
RestartProducer(p) ==
    /\ restarts < MaxRestarts /\ restarts' = restarts + 1
    /\ stopped' = [stopped EXCEPT ![p] = @ + Cardinality(inflight[p]) + pending[p]]
    /\ inflight' = [inflight EXCEPT ![p] = {}]
    /\ pending' = [pending EXCEPT ![p] = 0]
    /\ nextSeq' = [nextSeq EXCEPT ![p] = 1]
    /\ incarnation' = [incarnation EXCEPT ![p] = @ + 1]
    /\ UNCHANGED <<submitted, confirmed, dedupVars, handling, deliveries, acks, handlerVars, sweeps>>

-----------------------------------------------------------------------------
(* The consumer *)

Tracked(p) == deduplication[p] # Untracked
Known(st, seq) == seq <= st.contiguous \/ seq \in st.above

\* What is forgotten when the entries of the producers ps are dropped.
Records(st, t) == st.incarnation = t.incarnation /\ Known(st, t.seq)
Recorded(ps) == {t \in handled : /\ t.producer \in ps /\ Tracked(t.producer)
                                 /\ Records(deduplication[t.producer], t)}

\* The producer whose state the awaited handler still holds.
Awaited == IF handling = Nothing THEN {} ELSE {handling.delivery.producer}

\* The keys the map was given first, and what is left of the age order without them.
Oldest(n) == {order[i] : i \in 1..n}
WithoutOldest(n) == SubSeq(order, n + 1, Len(order))

\* Map.delete on the key p.
Delete(keys, p) ==
    LET at == {i \in 1..Len(keys) : keys[i] = p}
    IN  IF at = {} THEN keys
        ELSE SubSeq(keys, 1, Min(at) - 1) \o SubSeq(keys, Min(at) + 1, Len(keys))

\* touch: delete, then set as the youngest, once the n oldest keys are gone.
Touch(p, st, n) ==
    /\ order' = Append(Delete(WithoutOldest(n), p), p)
    /\ deduplication' = [q \in Producers |-> IF q = p THEN st
                                             ELSE IF q \in Oldest(n) THEN Untracked ELSE deduplication[q]]

\* evictForNewProducer: the oldest keys, until there is room for one more.
\* Mutant: one entry too many is kept.
EvictionsLate == IF Len(order) <= MaxProducers THEN 0 ELSE Len(order) - MaxProducers

Evictions == IF Len(order) < MaxProducers THEN 0 ELSE Len(order) - MaxProducers + 1

\* deduplicationStateFor.
StateFor(p, i) ==
    IF Tracked(p) /\ deduplication[p].incarnation = i THEN deduplication[p] ELSE State(i, 0, {})

Admit(d) ==
    LET p == d.producer
        evicted == IF Tracked(p) THEN 0 ELSE Evictions
        replaced == Tracked(p) /\ deduplication[p].incarnation # d.incarnation
    IN  /\ Touch(p, StateFor(p, d.incarnation), evicted)
        /\ forgotten' = forgotten \cup Recorded(IF replaced THEN {p} ELSE Oldest(evicted))

\* Mutant: a full set refuses the sequence that would empty it.
HasOutOfOrderRoomStrict(st, seq) == Cardinality(st.above) < MaxOutOfOrder

HasOutOfOrderRoom(st, seq) == seq = st.contiguous + 1 \/ Cardinality(st.above) < MaxOutOfOrder

\* handleDelivery, up to the await of the handler.  Another copy of the
\* delivery may still be on its way.
HandleDelivery(d) ==
    LET st == StateFor(d.producer, d.incarnation)
    IN  /\ d \in deliveries /\ handling = Nothing
        /\ deliveries' \in {deliveries, deliveries \ {d}}
        /\ Admit(d)
        /\ IF Known(st, d.seq)
           THEN acks' = acks \cup {d} /\ UNCHANGED handling
           ELSE /\ handling' = IF HasOutOfOrderRoom(st, d.seq)
                               THEN [kind |-> "delivery", delivery |-> d, state |-> st] ELSE Nothing
                /\ UNCHANGED acks
        /\ UNCHANGED <<producerVars, handlerVars, restarts, sweeps>>

\* markDelivered: slide contiguous over what was delivered above it.
MarkDelivered(st, seq) ==
    IF seq # st.contiguous + 1 THEN [st EXCEPT !.above = @ \cup {seq}]
    ELSE LET run == {n \in st.above : n > seq /\ seq + 1..n \subseteq st.above}
         IN  [st EXCEPT !.contiguous = seq + Cardinality(run), !.above = @ \ run]

\* Mutant: the state is not put back after the await.
HandlerReturnsDetached ==
    LET d == handling.delivery
        st == MarkDelivered(handling.state, d.seq)
    IN  /\ handling # Nothing
        /\ handled' = handled \cup {d}
        /\ twice' = IF d \in handled THEN twice \cup {d} ELSE twice
        /\ deduplication' = [deduplication EXCEPT ![d.producer] = IF @ = Untracked THEN @ ELSE st]
        /\ acks' = acks \cup {d}
        /\ handling' = Nothing
        /\ UNCHANGED <<producerVars, order, forgotten, deliveries, restarts, sweeps>>

\* handleDelivery, from the await on.
HandlerReturns ==
    LET d == handling.delivery
    IN  /\ handling # Nothing
        /\ handled' = handled \cup {d}
        /\ twice' = IF d \in handled THEN twice \cup {d} ELSE twice
        /\ Touch(d.producer, MarkDelivered(handling.state, d.seq), 0)
        /\ acks' = acks \cup {d}
        /\ handling' = Nothing
        /\ UNCHANGED <<producerVars, forgotten, deliveries, restarts, sweeps>>

HandlerThrows ==
    /\ handling # Nothing
    /\ handling' = Nothing
    /\ forgotten' = LET p == handling.delivery.producer
                    IN  IF Tracked(p) THEN forgotten
                        ELSE forgotten \cup {t \in handled : t.producer = p /\ Records(handling.state, t)}
    /\ UNCHANGED <<producerVars, deduplication, order, deliveries, acks, handlerVars, restarts, sweeps>>

\* sweepIdleProducers: the map is in order of age, so the idle entries are a
\* prefix of it.  It runs from the scheduler, during a handler's await too.
SweepIdleProducers(n) ==
    LET swept == Oldest(n)
    IN  /\ sweeps < MaxSweeps /\ sweeps' = sweeps + 1
        /\ order' = WithoutOldest(n)
        /\ deduplication' = [q \in Producers |-> IF q \in swept THEN Untracked ELSE deduplication[q]]
        /\ forgotten' = forgotten \cup Recorded(swept \ Awaited)
        /\ UNCHANGED <<producerVars, handling, deliveries, acks, handlerVars, restarts>>

\* postStop, and the instance that follows it.  A restart waits for the turn.
RestartConsumer ==
    /\ restarts < MaxRestarts /\ restarts' = restarts + 1
    /\ handling = Nothing
    /\ deduplication' = [p \in Producers |-> Untracked]
    /\ order' = <<>>
    /\ forgotten' = forgotten \cup Recorded(Producers)
    /\ UNCHANGED <<producerVars, handling, deliveries, acks, handlerVars, sweeps>>

-----------------------------------------------------------------------------
LoseDelivery(d) == d \in deliveries /\ deliveries' = deliveries \ {d}
                   /\ UNCHANGED <<producerVars, dedupVars, handling, acks, handlerVars, restarts, sweeps>>

LoseAck(a) == a \in acks /\ acks' = acks \ {a}
              /\ UNCHANGED <<producerVars, dedupVars, handling, deliveries, handlerVars, restarts, sweeps>>

Next ==
    \/ \E p \in Producers : OnSend(p) \/ RestartProducer(p) \/ \E s \in inflight[p] : Retransmit(p, s)
    \/ \E a \in acks : OnAcknowledgment(a) \/ LoseAck(a)
    \/ \E d \in deliveries : HandleDelivery(d) \/ LoseDelivery(d)
    \/ HandlerReturns \/ HandlerThrows
    \/ \E n \in 1..Len(order) : SweepIdleProducers(n)
    \/ RestartConsumer

Spec == Init /\ [][Next]_vars

(***************************************************************************)
(* The resend timer fires again and again, what is sent again and again    *)
(* gets through, and a handler that is tried again and again succeeds.     *)
(***************************************************************************)
Fairness ==
    /\ \A p \in Producers, s \in SeqNr : WF_vars(Retransmit(p, s))
    /\ \A t \in Transmission : SF_vars(HandleDelivery(t))
    /\ WF_vars(HandlerReturns \/ HandlerThrows) /\ SF_vars(HandlerReturns)
    /\ SF_vars(\E a \in acks : Settles(a) /\ OnAcknowledgment(a))

FairSpec == Spec /\ Fairness

-----------------------------------------------------------------------------
(* Properties *)

TypeOK ==
    /\ incarnation \in [Producers -> 0..MaxRestarts]
    /\ nextSeq \in [Producers -> 1..MaxSends + 1]
    /\ inflight \in [Producers -> SUBSET SeqNr]
    /\ pending \in [Producers -> 0..MaxSends]
    /\ deduplication \in [Producers -> Entry \cup {Untracked}]
    /\ order \in Seq(Producers)
    /\ handling \in [kind : {"delivery"}, delivery : Transmission, state : Entry] \cup {Nothing}
    /\ deliveries \subseteq Transmission /\ acks \subseteq Transmission
    /\ submitted \in [Producers -> 0..MaxSends] /\ stopped \in [Producers -> 0..MaxSends]
    /\ confirmed \subseteq Transmission /\ handled \subseteq Transmission
    /\ twice \subseteq handled /\ forgotten \subseteq handled
    /\ restarts \in 0..MaxRestarts /\ sweeps \in 0..MaxSweeps

(***************************************************************************)
(* confirm(null) never lies: a send is confirmed as delivered only after   *)
(* the consumer's handler succeeded on it, whatever restarted in between   *)
(* (onAcknowledgment, deduplicationStateFor).                              *)
(***************************************************************************)
ConfirmedWasHandled == confirmed \subseteq handled

(***************************************************************************)
(* The handler succeeds twice on a send only if the consumer had recorded  *)
(* it and has dropped the record since: by eviction, by the idle sweep, by *)
(* a restart, or by a change of incarnation.  A sweep during the handler's *)
(* await does not count (handleDelivery re-touches the entry).             *)
(***************************************************************************)
NoSilentDuplicate == twice \subseteq forgotten

(***************************************************************************)
(* Every send handed to a producer is told exactly one outcome, or is      *)
(* still held by it (settle, postStop).                                    *)
(***************************************************************************)
ToldOnce ==
    \A p \in Producers :
        submitted[p] = Cardinality({t \in confirmed : t.producer = p}) + stopped[p]
                       + Cardinality(inflight[p]) + pending[p]

(***************************************************************************)
(* No send is stranded in the queue: one waits only while the window is    *)
(* full, and the window is never exceeded (onSend, onAcknowledgment).      *)
(***************************************************************************)
QueuedOnlyWhenFull ==
    \A p \in Producers : /\ Cardinality(inflight[p]) <= Window
                         /\ pending[p] > 0 => Cardinality(inflight[p]) = Window

(***************************************************************************)
(* The dedup budget holds, the re-insertion after a handler's await        *)
(* included, and the age order lists exactly the tracked producers, once   *)
(* (touch, evictForNewProducer, hasOutOfOrderRoom).                        *)
(***************************************************************************)
DedupBounded ==
    /\ Len(order) <= MaxProducers
    /\ \A p \in Producers : Tracked(p) <=> \E i \in 1..Len(order) : order[i] = p
    /\ \A i, j \in 1..Len(order) : order[i] = order[j] => i = j
    /\ \A p \in Producers : Tracked(p) => Cardinality(deduplication[p].above) <= MaxOutOfOrder

Drained(p) == inflight[p] = {} /\ pending[p] = 0

(***************************************************************************)
(* Every send is settled in the end, as long as the consumer keeps what it *)
(* recorded: an open gap stalls the producer, and its closing frees it.    *)
(***************************************************************************)
SendsSettle ==
    \A p \in Producers : <>[]Drained(p) \/ <>(\E t \in forgotten : t.producer = p)

=============================================================================
