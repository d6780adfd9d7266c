--------------------------- MODULE BoundedMailbox ---------------------------
(***************************************************************************)
(* The user lane of a mailbox: internal/Mailbox.ts (the queue itself) and  *)
(* mailbox/BoundedMailbox.ts (the bound and its overflow policy).          *)
(*                                                                         *)
(* An envelope is a record [id, undroppable]: a payload is told apart only *)
(* by its identity, and `undroppable` is the marker postSignalEnvelope     *)
(* puts on a lifecycle notification.  A queue is a sequence of envelopes,  *)
(* its head the next one to be dequeued.  Every operation that may shed    *)
(* returns a record                                                        *)
(*     queue   - the queue after the call,                                 *)
(*     dropped - the envelopes reported through reportDrop, in order,      *)
(*     refused - MailboxFullError was thrown (and nothing was changed).    *)
(***************************************************************************)
EXTENDS Integers, Sequences, FiniteSetsExt

Policies == {"drop-head", "drop-new", "reject"}

Droppable(env) == ~env.undroppable

DroppableAt(queue) == {i \in 1..Len(queue) : Droppable(queue[i])}
DroppableIn(queue) == Cardinality(DroppableAt(queue))

Accept(queue) == [queue |-> queue, dropped |-> <<>>, refused |-> FALSE]
Shed(queue, dropped) == [queue |-> queue, dropped |-> dropped, refused |-> FALSE]
Refuse(queue) == [queue |-> queue, dropped |-> <<>>, refused |-> TRUE]

(***************************************************************************)
(* removeOldest / removeNewest: the first (last) envelope that may be      *)
(* discarded, or none.  The ones passed over keep their places.            *)
(***************************************************************************)
\* Mutant: the head is evicted whatever it is.
OldestIndexAny(queue) == IF queue = <<>> THEN 0 ELSE 1

OldestIndex(queue) == IF DroppableAt(queue) = {} THEN 0 ELSE Min(DroppableAt(queue))
NewestIndex(queue) == IF DroppableAt(queue) = {} THEN 0 ELSE Max(DroppableAt(queue))

Without(queue, i) == SubSeq(queue, 1, i - 1) \o SubSeq(queue, i + 1, Len(queue))

\* enqueue: a full queue evicts, discards the arrival, or throws.  A queue
\* that holds nothing it may discard still takes the arrival.
EnqueueDropHead(queue, env) ==
    LET i == OldestIndex(queue)
    IN  IF i = 0 THEN Accept(Append(queue, env))
        ELSE Shed(Append(Without(queue, i), env), <<queue[i]>>)

Enqueue(queue, env, capacity, overflow) ==
    IF Len(queue) < capacity THEN Accept(Append(queue, env))
    ELSE CASE overflow = "drop-head" -> EnqueueDropHead(queue, env)
           [] overflow = "drop-new"  -> Shed(queue, <<env>>)
           [] overflow = "reject"    -> Refuse(queue)

\* enqueueSignal: the tail of the queue, whatever the bound says.
EnqueueSignal(queue, env) == Append(queue, env)

(***************************************************************************)
(* prependUser: envelopes go back to the FRONT in their order.  `reject`   *)
(* takes the batch whole or not at all; the other two policies decide one  *)
(* envelope at a time, and drop-head makes room at the tail.               *)
(***************************************************************************)
PrependReject(queue, envs, capacity) ==
    LET room == IF capacity > Len(queue) THEN capacity - Len(queue) ELSE 0
    IN  IF DroppableIn(envs) > room THEN Refuse(queue) ELSE Accept(envs \o queue)

\* One turn of the loop of prependUser over a record [queue, admitted, dropped].
AdmitReplay(acc, env, capacity, overflow) ==
    LET i == NewestIndex(acc.queue)
    IN  IF env.undroppable \/ Len(acc.queue) + Len(acc.admitted) < capacity
        THEN [acc EXCEPT !.admitted = Append(@, env)]
        ELSE IF overflow = "drop-head" /\ i # 0
        THEN [queue    |-> Without(acc.queue, i),
              admitted |-> Append(acc.admitted, env),
              dropped  |-> Append(acc.dropped, acc.queue[i])]
        ELSE [acc EXCEPT !.dropped = Append(@, env)]

PrependShedding(queue, envs, capacity, overflow) ==
    LET acc[k \in 0..Len(envs)] ==
            IF k = 0 THEN [queue |-> queue, admitted |-> <<>>, dropped |-> <<>>]
                     ELSE AdmitReplay(acc[k - 1], envs[k], capacity, overflow)
        end == acc[Len(envs)]
    IN  Shed(end.admitted \o end.queue, end.dropped)

\* Mutants: a replay that goes to the tail; a replay no bound is asked about.
PrependAtTail(queue, envs, capacity, overflow) == Accept(queue \o envs)
PrependUnbounded(queue, envs, capacity, overflow) == Accept(envs \o queue)

PrependUser(queue, envs, capacity, overflow) ==
    IF envs = <<>> THEN Accept(queue)
    ELSE IF overflow = "reject" THEN PrependReject(queue, envs, capacity)
    ELSE PrependShedding(queue, envs, capacity, overflow)

=============================================================================
