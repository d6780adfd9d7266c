----------------------- MODULE ReliableDeliveryProofs -----------------------
(***************************************************************************)
(* Proofs about ReliableDelivery, for any finite set of producers, window  *)
(* and budgets of the deduplication map.  The producer's half rests on     *)
(* SendInv, the consumer's on DedupInv.                                    *)
(***************************************************************************)
EXTENDS ReliableDelivery, FiniteSetTheorems, SequenceTheorems, TLAPS

-----------------------------------------------------------------------------
(* The window and the outcome of every send *)

(***************************************************************************)
(* Numbers are handed out in order, so a new one is not in flight; what    *)
(* is confirmed in the present incarnation is no longer in flight, so no   *)
(* send is counted twice.                                                  *)
(***************************************************************************)
SendInv ==
    /\ incarnation \in [Producers -> Nat]
    /\ nextSeq \in [Producers -> Nat \ {0}]
    /\ inflight \in [Producers -> SUBSET (Nat \ {0})]
    /\ pending \in [Producers -> Nat]
    /\ submitted \in [Producers -> Nat] /\ stopped \in [Producers -> Nat]
    /\ \A p \in Producers : inflight[p] \subseteq 1..nextSeq[p] - 1
    /\ IsFiniteSet(confirmed)
    /\ \A t \in confirmed :
           /\ t.producer \in Producers /\ t.incarnation \in Nat
           /\ t.incarnation <= incarnation[t.producer]
           /\ t.incarnation = incarnation[t.producer] => t.seq \notin inflight[t.producer]
           /\ t.incarnation = incarnation[t.producer] => t.seq \in 1..nextSeq[t.producer] - 1
    /\ QueuedOnlyWhenFull
    /\ ToldOnce

(***************************************************************************)
(* The acknowledgments name producers.                                     *)
(***************************************************************************)
WireInv ==
    /\ deliveries \subseteq [producer : Producers, incarnation : Nat, seq : Nat \ {0}]
    /\ acks \subseteq [producer : Producers, incarnation : Nat, seq : Nat \ {0}]
    /\ handling # Nothing => handling.delivery \in [producer : Producers, incarnation : Nat, seq : Nat \ {0}]

\* What a batch of n new numbers does to the window (dispatch).
LEMMA BatchSize ==
    ASSUME NEW start \in Nat \ {0}, NEW n \in Nat, NEW flying, flying \subseteq 1..start - 1
    PROVE  /\ IsFiniteSet(flying)
           /\ Cardinality(flying) \in Nat
           /\ Cardinality(flying \cup (start..start + n - 1)) = Cardinality(flying) + n
           /\ flying \cup (start..start + n - 1) \subseteq 1..(start + n) - 1
<1>1. IsFiniteSet(1..start - 1)
  BY FS_Interval
<1>2. IsFiniteSet(flying) /\ Cardinality(flying) \in Nat
  BY <1>1, FS_Subset, FS_CardinalityType
<1>3. IsFiniteSet(start..start + n - 1) /\ Cardinality(start..start + n - 1) = n
  <2>1. start \in Int /\ start + n - 1 \in Int
    OBVIOUS
  <2>2. /\ IsFiniteSet(start..start + n - 1)
        /\ Cardinality(start..start + n - 1)
             = IF start > start + n - 1 THEN 0 ELSE (start + n - 1) - start + 1
    BY <2>1, FS_Interval
  <2> QED
    BY <2>2
<1>4. flying \cap (start..start + n - 1) = {}
  OBVIOUS
<1>5. Cardinality(flying \cup (start..start + n - 1))
        = Cardinality(flying) + Cardinality(start..start + n - 1)
          - Cardinality(flying \cap (start..start + n - 1))
  BY <1>2, <1>3, FS_Union
<1>6. Cardinality(flying \cup (start..start + n - 1)) = Cardinality(flying) + n
  <2>1. Cardinality(flying \cap (start..start + n - 1)) = 0
    BY <1>4, FS_EmptySet
  <2> QED
    BY <1>2, <1>3, <1>5, <2>1
<1>7. flying \cup (start..start + n - 1) \subseteq 1..(start + n) - 1
  OBVIOUS
<1> QED
  BY <1>2, <1>6, <1>7

\* The smaller of two numbers, as Refill takes it.
LEMMA MinOfTwo ==
    ASSUME NEW a \in Int, NEW b \in Int
    PROVE  /\ Min({a, b}) \in {a, b}
           /\ Min({a, b}) <= a /\ Min({a, b}) <= b
<1>1. \E x \in {a, b} : \A y \in {a, b} : x <= y
  OBVIOUS
<1> QED
  BY <1>1 DEF Min

-----------------------------------------------------------------------------
LEMMA SendInit == Init => SendInv
<1> SUFFICES ASSUME Init PROVE SendInv
  OBVIOUS
<1>1. IsFiniteSet({}) /\ Cardinality({}) = 0
  BY FS_EmptySet
<1>2. \A p \in Producers : {t \in confirmed : t.producer = p} = {}
  BY DEF Init
<1>3. QueuedOnlyWhenFull
  BY <1>1, DeliveryAssumption DEF Init, QueuedOnlyWhenFull
<1>4. ToldOnce
  BY <1>1, <1>2 DEF Init, ToldOnce
<1> QED
  BY <1>1, <1>3, <1>4 DEF Init, SendInv

\* A send that finds room takes the next number; one that does not is queued.
LEMMA SendStep ==
    ASSUME SendInv, NEW p \in Producers, OnSend(p)
    PROVE  SendInv'
<1> DEFINE size == Cardinality(inflight[p])
<1>1. /\ nextSeq[p] \in Nat \ {0} /\ inflight[p] \subseteq 1..nextSeq[p] - 1
      /\ pending[p] \in Nat /\ submitted[p] \in Nat /\ stopped[p] \in Nat
      /\ size <= Window /\ (pending[p] > 0 => size = Window)
  BY DEF SendInv, QueuedOnlyWhenFull
<1>2. size \in Nat
  BY <1>1, BatchSize, 0 \in Nat
<1>3. Cardinality({t \in confirmed : t.producer = p}) \in Nat
  <2>1. {t \in confirmed : t.producer = p} \in SUBSET confirmed
    OBVIOUS
  <2> QED
    BY <2>1, FS_Subset, FS_CardinalityType DEF SendInv
<1>4. submitted' = [submitted EXCEPT ![p] = @ + 1] /\ UNCHANGED <<incarnation, confirmed, stopped>>
  BY DEF OnSend
<1>5. CASE size >= Window
  <2>1. pending' = [pending EXCEPT ![p] = @ + 1] /\ UNCHANGED <<nextSeq, inflight>>
    BY <1>5 DEF OnSend
  <2>2. QueuedOnlyWhenFull'
    <3> SUFFICES ASSUME NEW q \in Producers
                 PROVE  /\ Cardinality(inflight[q]) <= Window
                        /\ pending'[q] > 0 => Cardinality(inflight[q]) = Window
      BY <2>1 DEF QueuedOnlyWhenFull
    <3>1. /\ Cardinality(inflight[q]) <= Window
          /\ pending[q] > 0 => Cardinality(inflight[q]) = Window
      BY DEF SendInv, QueuedOnlyWhenFull
    <3>2. CASE q = p
      BY <1>2, <1>5, <3>1, <3>2, DeliveryAssumption
    <3>3. CASE q # p
      <4>1. pending'[q] = pending[q]
        BY <2>1, <3>3 DEF SendInv
      <4> QED BY <3>1, <4>1
    <3> QED BY <3>2, <3>3
  <2>3. ToldOnce'
    <3> SUFFICES ASSUME NEW q \in Producers
                 PROVE  submitted'[q] = Cardinality({t \in confirmed : t.producer = q}) + stopped[q]
                                        + Cardinality(inflight'[q]) + pending'[q]
      BY <1>4 DEF ToldOnce
    <3>1. submitted[q] = Cardinality({t \in confirmed : t.producer = q}) + stopped[q]
                         + Cardinality(inflight[q]) + pending[q]
      BY DEF SendInv, ToldOnce
    <3>2. CASE q = p
      BY <1>1, <1>2, <1>3, <1>4, <2>1, <3>1, <3>2 DEF SendInv
    <3>3. CASE q # p
      BY <1>4, <2>1, <3>1, <3>3 DEF SendInv
    <3> QED
      BY <3>2, <3>3
  <2> QED
    BY <1>4, <2>1, <2>2, <2>3 DEF SendInv
<1>6. CASE ~(size >= Window)
  <2> DEFINE new == inflight[p] \cup (nextSeq[p]..nextSeq[p] + 1 - 1)
  <2>1. /\ nextSeq' = [nextSeq EXCEPT ![p] = @ + 1]
        /\ inflight' = [inflight EXCEPT ![p] = new]
        /\ UNCHANGED pending
    BY <1>6 DEF OnSend, Dispatch
  <2>2. Cardinality(new) = size + 1 /\ new \subseteq 1..(nextSeq[p] + 1) - 1
    BY <1>1, BatchSize, 1 \in Nat
  <2>3. nextSeq' \in [Producers -> Nat \ {0}] /\ inflight' \in [Producers -> SUBSET (Nat \ {0})]
    BY <1>1, <2>1, <2>2 DEF SendInv
  <2>4. \A q \in Producers : inflight'[q] \subseteq 1..nextSeq'[q] - 1
    BY <2>1, <2>2 DEF SendInv
  <2>5. \A t \in confirmed : t.incarnation = incarnation[t.producer]
            => t.seq \notin inflight'[t.producer] /\ t.seq \in 1..nextSeq'[t.producer] - 1
    BY <1>1, <2>1 DEF SendInv
  <2>6. QueuedOnlyWhenFull'
    BY <1>1, <1>2, <1>6, <2>1, <2>2, DeliveryAssumption DEF SendInv, QueuedOnlyWhenFull
  <2>7. ToldOnce'
    <3> SUFFICES ASSUME NEW q \in Producers
                 PROVE  submitted'[q] = Cardinality({t \in confirmed : t.producer = q}) + stopped[q]
                                        + Cardinality(inflight'[q]) + pending'[q]
      BY <1>4 DEF ToldOnce
    <3>1. submitted[q] = Cardinality({t \in confirmed : t.producer = q}) + stopped[q]
                         + Cardinality(inflight[q]) + pending[q]
      BY DEF SendInv, ToldOnce
    <3>2. CASE q = p
      BY <1>1, <1>2, <1>3, <1>4, <2>1, <2>2, <3>1, <3>2 DEF SendInv
    <3>3. CASE q # p
      BY <1>4, <2>1, <2>2, <3>1, <3>3 DEF SendInv
    <3> QED
      BY <3>2, <3>3
  <2> QED
    BY <1>4, <2>1, <2>3, <2>4, <2>5, <2>6, <2>7 DEF SendInv
<1> QED
  BY <1>5, <1>6

\* An acknowledgment moves one send from the window to the confirmed ones,
\* and fills the window from the queue.
LEMMA AckStep ==
    ASSUME SendInv, WireInv, NEW a \in acks, OnAcknowledgment(a)
    PROVE  SendInv'
<1> DEFINE p == a.producer
           left == inflight[p] \ {a.seq}
           n == Refill(p, left)
           new == left \cup (nextSeq[p]..nextSeq[p] + n - 1)
           t0 == This(p, a.seq)
<1>0. p \in Producers
  BY DEF WireInv
<1>1. UNCHANGED <<incarnation, submitted, stopped>>
  BY DEF OnAcknowledgment
<1>2. CASE ~Settles(a)
  <2>1. UNCHANGED <<confirmed, nextSeq, inflight, pending>>
    BY <1>2 DEF OnAcknowledgment
  <2> QED
    BY <1>1, <2>1 DEF SendInv, QueuedOnlyWhenFull, ToldOnce
<1>3. CASE Settles(a)
  <2>1. /\ confirmed' = confirmed \cup {t0}
        /\ nextSeq' = [nextSeq EXCEPT ![p] = @ + n]
        /\ inflight' = [inflight EXCEPT ![p] = new]
        /\ pending' = [pending EXCEPT ![p] = @ - n]
    BY <1>3 DEF OnAcknowledgment, Dispatch
  <2>2. /\ a.seq \in inflight[p]
        /\ nextSeq[p] \in Nat \ {0} /\ inflight[p] \subseteq 1..nextSeq[p] - 1
        /\ pending[p] \in Nat /\ submitted[p] \in Nat /\ stopped[p] \in Nat
        /\ Cardinality(inflight[p]) <= Window
        /\ pending[p] > 0 => Cardinality(inflight[p]) = Window
    BY <1>0, <1>3 DEF SendInv, QueuedOnlyWhenFull, Settles
  <2>3. IsFiniteSet(inflight[p]) /\ Cardinality(inflight[p]) \in Nat
    BY <2>2, BatchSize, 0 \in Nat
  <2>4. Cardinality(left) = Cardinality(inflight[p]) - 1
    BY <2>2, <2>3, FS_RemoveElement
  <2>5. Cardinality(left) \in Nat
    BY <2>3, FS_RemoveElement, FS_CardinalityType
  <2> DEFINE room == Window - Cardinality(left)
  <2>6. n \in {pending[p], room} /\ n <= pending[p] /\ n <= room
    <3>1. n = Min({pending[p], room})
      BY DEF Refill
    <3>2. pending[p] \in Int /\ room \in Int
      BY <2>2, <2>5, DeliveryAssumption
    <3> HIDE DEF n, room
    <3> QED
      BY <3>1, <3>2, MinOfTwo
  <2>7. n \in Nat
    <3>1. room \in Nat
      BY <2>2, <2>3, <2>4, DeliveryAssumption
    <3> HIDE DEF n, room
    <3> QED
      BY <2>2, <2>6, <3>1
  <2> HIDE DEF n
  <2>8. Cardinality(new) = Cardinality(left) + n /\ new \subseteq 1..(nextSeq[p] + n) - 1
    <3>1. left \subseteq 1..nextSeq[p] - 1
      BY <2>2
    <3> HIDE DEF left
    <3> QED
      BY <2>2, <2>7, <3>1, BatchSize
  <2>9. a.seq \notin new
    BY <2>2, <2>7
  <2> HIDE DEF new, left
  <2>10. /\ nextSeq' \in [Producers -> Nat \ {0}] /\ inflight' \in [Producers -> SUBSET (Nat \ {0})]
         /\ pending' \in [Producers -> Nat]
    <3>1. new \subseteq Nat \ {0}
      BY <2>2, <2>7, <2>8
    <3>2. pending[p] - n \in Nat /\ nextSeq[p] + n \in Nat \ {0}
      BY <2>2, <2>6, <2>7
    <3> QED
      BY <1>0, <2>1, <3>1, <3>2 DEF SendInv
  <2>11. \A q \in Producers : inflight'[q] \subseteq 1..nextSeq'[q] - 1
    BY <1>0, <2>1, <2>8 DEF SendInv
  <2>12. t0.producer = p /\ t0.incarnation = incarnation[p] /\ t0.seq = a.seq
    BY DEF This
  <2>13. t0 \notin confirmed
    BY <2>2, <2>12 DEF SendInv
  <2> HIDE DEF t0
  <2>14. IsFiniteSet(confirmed')
    BY <2>1, FS_AddElement DEF SendInv
  <2>15. \A t \in confirmed' :
           /\ t.producer \in Producers /\ t.incarnation \in Nat
           /\ t.incarnation <= incarnation[t.producer]
           /\ t.incarnation = incarnation[t.producer] => t.seq \notin inflight'[t.producer]
           /\ t.incarnation = incarnation[t.producer] => t.seq \in 1..nextSeq'[t.producer] - 1
    <3> SUFFICES ASSUME NEW t \in confirmed'
                 PROVE  /\ t.producer \in Producers /\ t.incarnation \in Nat
                        /\ t.incarnation <= incarnation[t.producer]
                        /\ t.incarnation = incarnation[t.producer]
                             => /\ t.seq \notin inflight'[t.producer]
                                /\ t.seq \in 1..nextSeq'[t.producer] - 1
      OBVIOUS
    <3>1. CASE t = t0
      <4>1. a.seq \in 1..(nextSeq[p] + n) - 1
        BY <2>2, <2>7
      <4>2. incarnation[p] \in Nat
        BY <1>0 DEF SendInv
      <4>3. inflight'[p] = new /\ nextSeq'[p] = nextSeq[p] + n
        BY <1>0, <2>1 DEF SendInv
      <4> QED
        BY <1>0, <2>9, <2>12, <3>1, <4>1, <4>2, <4>3
    <3>2. CASE t \in confirmed /\ t.producer = p
      <4>1. t.incarnation = incarnation[p] => t.seq \notin new /\ t.seq \in 1..(nextSeq[p] + n) - 1
        BY <2>2, <2>7, <3>2 DEF SendInv, new, left
      <4>2. inflight'[p] = new /\ nextSeq'[p] = nextSeq[p] + n
        BY <1>0, <2>1 DEF SendInv
      <4> QED
        BY <3>2, <4>1, <4>2 DEF SendInv
    <3>3. CASE t \in confirmed /\ t.producer # p
      <4>1. t.producer \in Producers
        BY <3>3 DEF SendInv
      <4>2. inflight'[t.producer] = inflight[t.producer] /\ nextSeq'[t.producer] = nextSeq[t.producer]
        BY <2>1, <3>3, <4>1 DEF SendInv
      <4> QED
        BY <3>3, <4>1, <4>2 DEF SendInv
    <3> QED
      BY <2>1, <3>1, <3>2, <3>3
  <2>16. QueuedOnlyWhenFull'
    <3> SUFFICES ASSUME NEW q \in Producers
                 PROVE  /\ Cardinality(inflight'[q]) <= Window
                        /\ pending'[q] > 0 => Cardinality(inflight'[q]) = Window
      BY DEF QueuedOnlyWhenFull
    <3>1. CASE q = p
      <4>1. inflight'[q] = new /\ pending'[q] = pending[p] - n
        BY <1>0, <2>1, <3>1 DEF SendInv
      <4>2. n = pending[p] \/ n = Window - Cardinality(left)
        BY <2>6
      <4> QED
        BY <2>2, <2>5, <2>6, <2>7, <2>8, <4>1, <4>2, DeliveryAssumption
    <3>2. CASE q # p
      BY <2>1, <3>2 DEF SendInv, QueuedOnlyWhenFull
    <3> QED
      BY <3>1, <3>2
  <2>17. ToldOnce'
    <3> SUFFICES ASSUME NEW q \in Producers
                 PROVE  submitted[q] = Cardinality({t \in confirmed' : t.producer = q}) + stopped[q]
                                       + Cardinality(inflight'[q]) + pending'[q]
      BY <1>1 DEF ToldOnce
    <3> DEFINE before == {t \in confirmed : t.producer = q}
               after == {t \in confirmed' : t.producer = q}
    <3>1. submitted[q] = Cardinality(before) + stopped[q] + Cardinality(inflight[q]) + pending[q]
      BY DEF SendInv, ToldOnce
    <3>2. IsFiniteSet(before) /\ Cardinality(before) \in Nat
      <4>1. before \in SUBSET confirmed
        OBVIOUS
      <4> QED
        BY <4>1, FS_Subset, FS_CardinalityType DEF SendInv
    <3>3. CASE q = p
      <4>1. after = before \cup {t0} /\ t0 \notin before
        BY <2>1, <2>12, <2>13, <3>3
      <4> HIDE DEF before, after
      <4>2. Cardinality(after) = Cardinality(before) + 1
        BY <3>2, <4>1, FS_AddElement
      <4>3. inflight'[q] = new /\ pending'[q] = pending[p] - n
        BY <1>0, <2>1, <3>3 DEF SendInv
      <4>4. Cardinality(new) = Cardinality(inflight[p]) - 1 + n
        BY <2>4, <2>8
      <4>5. submitted[q] = Cardinality(after) + stopped[q] + Cardinality(new) + (pending[p] - n)
        BY <2>2, <2>3, <2>7, <3>1, <3>2, <3>3, <4>2, <4>4
      <4> QED
        BY <4>3, <4>5 DEF after
    <3>4. CASE q # p
      <4>1. after = before
        BY <2>1, <2>12, <3>4
      <4>2. inflight'[q] = inflight[q] /\ pending'[q] = pending[q]
        BY <2>1, <3>4 DEF SendInv
      <4> QED
        BY <3>1, <4>1, <4>2
    <3> QED
      BY <3>3, <3>4
  <2> QED
    BY <1>1, <2>10, <2>11, <2>14, <2>15, <2>16, <2>17 DEF SendInv
<1> QED
  BY <1>2, <1>3

\* postStop tells the window and the queue, and the next incarnation starts
\* with neither.
LEMMA RestartStep ==
    ASSUME SendInv, NEW p \in Producers, RestartProducer(p)
    PROVE  SendInv'
<1> DEFINE size == Cardinality(inflight[p])
<1>1. /\ nextSeq[p] \in Nat \ {0} /\ inflight[p] \subseteq 1..nextSeq[p] - 1
      /\ pending[p] \in Nat /\ submitted[p] \in Nat /\ stopped[p] \in Nat /\ incarnation[p] \in Nat
  BY DEF SendInv
<1>2. size \in Nat
  BY <1>1, BatchSize, 0 \in Nat
<1>3. IsFiniteSet({}) /\ Cardinality({}) = 0
  BY FS_EmptySet
<1>4. /\ stopped' = [stopped EXCEPT ![p] = @ + size + pending[p]]
      /\ inflight' = [inflight EXCEPT ![p] = {}]
      /\ pending' = [pending EXCEPT ![p] = 0]
      /\ nextSeq' = [nextSeq EXCEPT ![p] = 1]
      /\ incarnation' = [incarnation EXCEPT ![p] = @ + 1]
      /\ UNCHANGED <<submitted, confirmed>>
  BY DEF RestartProducer
<1>5. /\ incarnation' \in [Producers -> Nat] /\ nextSeq' \in [Producers -> Nat \ {0}]
      /\ inflight' \in [Producers -> SUBSET (Nat \ {0})] /\ pending' \in [Producers -> Nat]
      /\ stopped' \in [Producers -> Nat]
  <2>1. stopped[p] + size + pending[p] \in Nat
    BY <1>1, <1>2
  <2> HIDE DEF size
  <2> QED
    BY <1>1, <1>4, <2>1 DEF SendInv
<1>6. \A q \in Producers : inflight'[q] \subseteq 1..nextSeq'[q] - 1
  BY <1>4 DEF SendInv
<1>7. \A t \in confirmed' :
         /\ t.producer \in Producers /\ t.incarnation \in Nat
         /\ t.incarnation <= incarnation'[t.producer]
         /\ t.incarnation = incarnation'[t.producer] => t.seq \notin inflight'[t.producer]
         /\ t.incarnation = incarnation'[t.producer] => t.seq \in 1..nextSeq'[t.producer] - 1
  BY <1>1, <1>4 DEF SendInv
<1>8. QueuedOnlyWhenFull'
  BY <1>3, <1>4, DeliveryAssumption DEF SendInv, QueuedOnlyWhenFull
<1>9. ToldOnce'
  <2> SUFFICES ASSUME NEW q \in Producers
               PROVE  submitted[q] = Cardinality({t \in confirmed : t.producer = q}) + stopped'[q]
                                     + Cardinality(inflight'[q]) + pending'[q]
    BY <1>4 DEF ToldOnce
  <2> DEFINE told == Cardinality({t \in confirmed : t.producer = q})
  <2>1. submitted[q] = told + stopped[q] + Cardinality(inflight[q]) + pending[q]
    BY DEF SendInv, ToldOnce
  <2>2. told \in Nat
    <3>1. {t \in confirmed : t.producer = q} \in SUBSET confirmed
      OBVIOUS
    <3> QED
      BY <3>1, FS_Subset, FS_CardinalityType DEF SendInv
  <2> HIDE DEF told
  <2>3. CASE q = p
    <3>1. stopped'[q] = stopped[p] + size + pending[p] /\ inflight'[q] = {} /\ pending'[q] = 0
      BY <1>4, <2>3 DEF SendInv
    <3>2. submitted[q] = told + (stopped[p] + size + pending[p]) + 0 + 0
      BY <1>1, <1>2, <2>1, <2>2, <2>3
    <3> QED
      BY <1>3, <3>1, <3>2 DEF told
  <2>4. CASE q # p
    BY <1>4, <2>1, <2>4 DEF SendInv, told
  <2> QED
    BY <2>3, <2>4
<1> QED
  BY <1>4, <1>5, <1>6, <1>7, <1>8, <1>9 DEF SendInv

LEMMA SendStays ==
    ASSUME SendInv, UNCHANGED producerVars
    PROVE  SendInv'
BY DEF SendInv, producerVars, QueuedOnlyWhenFull, ToldOnce

LEMMA WireInit == Init => WireInv
BY DEF Init, WireInv

LEMMA WireNext ==
    ASSUME SendInv, WireInv, [Next]_vars
    PROVE  WireInv'
<1> DEFINE S == [producer : Producers, incarnation : Nat, seq : Nat \ {0}]
<1>0. \A p \in Producers, s \in Nat \ {0} : This(p, s) \in S
  BY DEF This, SendInv
<1>1. ASSUME NEW p \in Producers, NEW n, NEW flying, Dispatch(p, flying, n)
      PROVE  deliveries' \subseteq S
  <2>1. \A s \in nextSeq[p]..nextSeq[p] + n - 1 : s \in Nat \ {0}
    BY DEF SendInv
  <2> QED
    BY <1>0, <1>1, <2>1 DEF Dispatch, WireInv
<1>2. CASE \E p \in Producers : OnSend(p)
  BY <1>1, <1>2 DEF OnSend, WireInv
<1>3. CASE \E p \in Producers : RestartProducer(p)
  BY <1>3 DEF RestartProducer, WireInv
<1>4. CASE \E p \in Producers : \E s \in inflight[p] : Retransmit(p, s)
  <2>1. PICK p \in Producers : \E s \in inflight[p] : Retransmit(p, s)
    BY <1>4
  <2>2. PICK s \in inflight[p] : Retransmit(p, s)
    BY <2>1
  <2>3. This(p, s) \in S
    BY <1>0 DEF SendInv
  <2> QED
    BY <2>2, <2>3 DEF Retransmit, WireInv
<1>5. ASSUME NEW a \in acks, OnAcknowledgment(a)
      PROVE  WireInv'
  <2>1. a.producer \in Producers
    BY DEF WireInv
  <2>2. deliveries' \subseteq S
    <3>1. CASE Settles(a)
      BY <1>1, <1>5, <2>1, <3>1 DEF OnAcknowledgment
    <3>2. CASE ~Settles(a)
      BY <1>5, <3>2 DEF OnAcknowledgment, WireInv
    <3> QED
      BY <3>1, <3>2
  <2> QED
    BY <1>5, <2>2 DEF OnAcknowledgment, WireInv
<1>6. CASE \E a \in acks : LoseAck(a)
  BY <1>6 DEF LoseAck, WireInv
<1>7. CASE \E d \in deliveries : HandleDelivery(d)
  BY <1>7 DEF HandleDelivery, WireInv
<1>8. CASE \E d \in deliveries : LoseDelivery(d)
  BY <1>8 DEF LoseDelivery, WireInv
<1>9. CASE HandlerReturns \/ HandlerThrows
  BY <1>9 DEF HandlerReturns, HandlerThrows, WireInv
<1>10. CASE \E n \in 1..Len(order) : SweepIdleProducers(n)
  BY <1>10 DEF SweepIdleProducers, WireInv
<1>11. CASE RestartConsumer
  BY <1>11 DEF RestartConsumer, WireInv
<1>12. CASE UNCHANGED vars
  BY <1>12 DEF vars, WireInv
<1> QED
  BY <1>2, <1>3, <1>4, <1>5, <1>6, <1>7, <1>8, <1>9, <1>10, <1>11, <1>12 DEF Next

LEMMA SendNext ==
    ASSUME SendInv, WireInv, [Next]_vars
    PROVE  SendInv'
<1>1. CASE \E p \in Producers : OnSend(p)
  BY <1>1, SendStep
<1>2. CASE \E p \in Producers : RestartProducer(p)
  BY <1>2, RestartStep
<1>3. CASE \E a \in acks : OnAcknowledgment(a)
  BY <1>3, AckStep
<1>4. CASE UNCHANGED producerVars
  BY <1>4, SendStays
<1>5. \/ \E p \in Producers : OnSend(p)
      \/ \E p \in Producers : RestartProducer(p)
      \/ \E a \in acks : OnAcknowledgment(a)
      \/ UNCHANGED producerVars
  BY DEF Next, vars, Retransmit, LoseAck, HandleDelivery, LoseDelivery, HandlerReturns,
         HandlerThrows, SweepIdleProducers, RestartConsumer
<1> QED
  BY <1>1, <1>2, <1>3, <1>4, <1>5

(***************************************************************************)
(* Every send handed to a producer controller is told exactly one outcome  *)
(* or is still held, whatever is lost, duplicated or restarted.            *)
(***************************************************************************)
THEOREM EverySendToldOnce == Spec => []ToldOnce
<1>1. Init => SendInv /\ WireInv
  BY SendInit, WireInit
<1>2. SendInv /\ WireInv /\ [Next]_vars => (SendInv /\ WireInv)'
  BY SendNext, WireNext
<1>3. SendInv => ToldOnce
  BY DEF SendInv
<1> QED
  BY <1>1, <1>2, <1>3, PTL DEF Spec

(***************************************************************************)
(* The window of a producer controller is never exceeded, and nothing      *)
(* waits in its queue while the window has room.                           *)
(***************************************************************************)
THEOREM QueueOnlyBehindFullWindow == Spec => []QueuedOnlyWhenFull
<1>1. Init => SendInv /\ WireInv
  BY SendInit, WireInit
<1>2. SendInv /\ WireInv /\ [Next]_vars => (SendInv /\ WireInv)'
  BY SendNext, WireNext
<1>3. SendInv => QueuedOnlyWhenFull
  BY DEF SendInv
<1> QED
  BY <1>1, <1>2, <1>3, PTL DEF Spec

-----------------------------------------------------------------------------
(* What the consumer remembers *)

Sent == [producer : Producers, incarnation : Nat, seq : Nat \ {0}]
Dedup == {st \in [incarnation : Nat, contiguous : Nat, above : SUBSET Nat] : IsFiniteSet(st.above)}

\* t is recorded in the map, or in the state an awaited handler holds.
Remembered(t) ==
    \/ Tracked(t.producer) /\ Records(deduplication[t.producer], t)
    \/ handling # Nothing /\ handling.delivery.producer = t.producer /\ Records(handling.state, t)

\* The state an awaited handler holds.
HandlerHolds ==
    handling # Nothing =>
           /\ handling.state \in Dedup
           /\ handling.state.incarnation = handling.delivery.incarnation
           /\ ~Known(handling.state, handling.delivery.seq)
           /\ Tracked(handling.delivery.producer)
                => deduplication[handling.delivery.producer] = handling.state

(***************************************************************************)
(* The consumer remembers only what its handler succeeded on, and what it  *)
(* succeeded on is remembered or forgotten; while a handler is awaited,    *)
(* the state it holds is the one in the map unless the sweep has taken it. *)
(***************************************************************************)
DedupInv ==
    /\ \A p \in Producers : Tracked(p) => deduplication[p] \in Dedup
    /\ HandlerHolds
    /\ handled \subseteq Sent
    /\ acks \subseteq handled /\ confirmed \subseteq handled
    /\ \A t \in Sent : Remembered(t) => t \in handled
    /\ \A t \in handled : t \in forgotten \/ Remembered(t)
    /\ twice \subseteq forgotten

\* A set of consecutive numbers from low on is an interval of its size, which
\* is why markDelivered's loop and the cardinality of the run agree.
LEMMA RunIsInterval ==
    ASSUME NEW low \in Nat, NEW run \in SUBSET Nat, IsFiniteSet(run),
           \A n \in run : n > low /\ low + 1..n \subseteq run
    PROVE  Cardinality(run) \in Nat /\ run = low + 1..low + Cardinality(run)
<1> DEFINE k == Cardinality(run)
<1>1. k \in Nat
  BY FS_CardinalityType
<1>2. ASSUME NEW a \in Int, NEW b \in Int
      PROVE  IsFiniteSet(a..b) /\ Cardinality(a..b) = IF a > b THEN 0 ELSE b - a + 1
  BY FS_Interval
<1>3. k > 0 => low + k \in run
  <2> SUFFICES ASSUME k > 0, low + k \notin run PROVE FALSE
    OBVIOUS
  <2>1. run \subseteq low + 1..low + k - 1
    <3> SUFFICES ASSUME NEW n \in run PROVE n \in low + 1..low + k - 1
      OBVIOUS
    <3>1. n \in Nat /\ n > low /\ low + 1..n \subseteq run
      OBVIOUS
    <3>2. CASE n >= low + k
      <4>1. low + k \in low + 1..n
        BY <1>1, <3>1, <3>2
      <4> QED
        BY <3>1, <4>1
    <3>3. CASE n < low + k
      BY <1>1, <3>1, <3>3
    <3> QED
      BY <1>1, <3>1, <3>2, <3>3
  <2> DEFINE I == low + 1..low + k - 1
  <2>2. IsFiniteSet(I) /\ Cardinality(I) = k - 1
    <3>1. low + 1 \in Int /\ low + k - 1 \in Int
      BY <1>1
    <3>2. /\ IsFiniteSet(I)
          /\ Cardinality(I) = IF low + 1 > low + k - 1 THEN 0 ELSE (low + k - 1) - (low + 1) + 1
      BY <1>2, <3>1
    <3> QED
      BY <1>1, <3>2
  <2>3. Cardinality(run) <= Cardinality(I)
    BY <2>1, <2>2, FS_Subset
  <2> QED
    BY <1>1, <2>2, <2>3
<1>4. low + 1..low + k \subseteq run
  <2>1. CASE k = 0
    BY <2>1
  <2>2. CASE k > 0
    BY <1>3, <2>2
  <2> QED
    BY <1>1, <2>1, <2>2
<1>5. Cardinality(low + 1..low + k) = k
  <2>1. low + 1 \in Int /\ low + k \in Int
    BY <1>1
  <2>2. Cardinality(low + 1..low + k) = IF low + 1 > low + k THEN 0 ELSE (low + k) - (low + 1) + 1
    BY <1>2, <2>1
  <2> QED
    BY <1>1, <2>2
<1>6. low + 1..low + k = run
  <2>1. low + 1..low + k \in SUBSET run
    BY <1>4
  <2> QED
    BY <1>5, <2>1, FS_Subset
<1> QED
  BY <1>1, <1>6

\* markDelivered records the sequence it is given, and nothing else changes.
LEMMA MarkRecords ==
    ASSUME NEW st \in Dedup, NEW seq \in Nat \ {0}, ~Known(st, seq)
    PROVE  /\ MarkDelivered(st, seq) \in Dedup
           /\ MarkDelivered(st, seq).incarnation = st.incarnation
           /\ \A s \in Nat : Known(MarkDelivered(st, seq), s) <=> Known(st, s) \/ s = seq
<1>0. /\ st \in [incarnation : Nat, contiguous : Nat, above : SUBSET Nat]
      /\ IsFiniteSet(st.above)
  BY DEF Dedup
<1>1. CASE seq # st.contiguous + 1
  <2> DEFINE new == [st EXCEPT !.above = @ \cup {seq}]
  <2>1. MarkDelivered(st, seq) = new
    BY <1>1 DEF MarkDelivered
  <2>2. new \in [incarnation : Nat, contiguous : Nat, above : SUBSET Nat]
        /\ new.incarnation = st.incarnation /\ new.contiguous = st.contiguous
        /\ new.above = st.above \cup {seq}
    BY <1>0
  <2>3. IsFiniteSet(new.above)
    BY <1>0, <2>2, FS_AddElement
  <2> HIDE DEF new
  <2> QED
    BY <2>1, <2>2, <2>3 DEF Known, Dedup
<1>2. CASE seq = st.contiguous + 1
  <2> DEFINE run == {n \in st.above : n > seq /\ seq + 1..n \subseteq st.above}
             new == [st EXCEPT !.contiguous = seq + Cardinality(run), !.above = @ \ run]
  <2>1. MarkDelivered(st, seq) = new
    BY <1>2 DEF MarkDelivered
  <2>2. run \in SUBSET st.above /\ run \in SUBSET Nat
    BY <1>0
  <2>3. IsFiniteSet(run)
    BY <1>0, <2>2, FS_Subset
  <2>4. \A n \in run : n > seq /\ seq + 1..n \subseteq run
    <3> SUFFICES ASSUME NEW n \in run, NEW m \in seq + 1..n PROVE m \in run
      OBVIOUS
    <3>1. n \in Nat /\ seq + 1..n \subseteq st.above
      BY <1>0
    <3>2. m \in st.above /\ m > seq /\ seq + 1..m \subseteq seq + 1..n
      BY <3>1
    <3> QED
      BY <3>1, <3>2
  <2>5. Cardinality(run) \in Nat /\ run = seq + 1..seq + Cardinality(run)
    <3> HIDE DEF run
    <3> QED
      BY <2>2, <2>3, <2>4, RunIsInterval
  <2>6. IsFiniteSet(st.above \ run)
    <3>1. st.above \ run \in SUBSET st.above
      OBVIOUS
    <3> QED
      BY <1>0, <3>1, FS_Subset
  <2> HIDE DEF run
  <2>7. new \in [incarnation : Nat, contiguous : Nat, above : SUBSET Nat]
        /\ new.incarnation = st.incarnation /\ new.contiguous = seq + Cardinality(run)
        /\ new.above = st.above \ run
    <3> DEFINE top == seq + Cardinality(run)
               rest == st.above \ run
    <3>1. top \in Nat /\ rest \in SUBSET Nat
      BY <1>0, <2>5
    <3>2. new = [st EXCEPT !.contiguous = top, !.above = rest]
      OBVIOUS
    <3> HIDE DEF top, rest, new
    <3>3. new \in [incarnation : Nat, contiguous : Nat, above : SUBSET Nat]
          /\ new.incarnation = st.incarnation /\ new.contiguous = top /\ new.above = rest
      BY <1>0, <3>1, <3>2
    <3> QED
      BY <3>3 DEF top, rest
  <2> HIDE DEF new
  <2>8. ASSUME NEW s \in Nat
        PROVE  (s <= new.contiguous \/ s \in new.above) <=> (s <= st.contiguous \/ s \in st.above \/ s = seq)
    <3> DEFINE k == Cardinality(run)
    <3>1. k \in Nat /\ st.contiguous \in Nat /\ seq = st.contiguous + 1
      BY <1>0, <1>2, <2>5
    <3>2. s <= seq + k <=> s <= st.contiguous \/ s = seq \/ s \in seq + 1..seq + k
      BY <3>1
    <3> HIDE DEF k
    <3> QED
      BY <2>2, <2>5, <2>7, <3>2 DEF k
  <2> QED
    BY <2>1, <2>6, <2>7, <2>8 DEF Known, Dedup
<1> QED
  BY <1>1, <1>2

LEMMA DedupTracked ==
    ASSUME NEW st \in Dedup
    PROVE  st # Untracked
<1>1. "kind" \notin DOMAIN st
  BY DEF Dedup
<1>2. "kind" \in DOMAIN Untracked
  BY DEF Untracked
<1> QED
  BY <1>1, <1>2

LEMMA DedupInit == Init => DedupInv
<1> SUFFICES ASSUME Init PROVE DedupInv
  OBVIOUS
<1>1. \A p \in Producers : ~Tracked(p)
  BY DEF Init, Tracked
<1>2. handling = Nothing /\ handled = {} /\ acks = {} /\ confirmed = {} /\ twice = {}
  BY DEF Init
<1>3. \A t \in Sent : ~Remembered(t)
  BY <1>1, <1>2 DEF Remembered, Sent
<1> QED
  BY <1>1, <1>2, <1>3 DEF DedupInv, HandlerHolds

\* The producer and the wire add no record and no acknowledgment, and what an
\* acknowledgment confirms was handled.
LEMMA DedupWire ==
    ASSUME DedupInv, WireInv, [Next]_vars,
           UNCHANGED <<deduplication, handling, forgotten, handled, twice>>, acks' \subseteq acks
    PROVE  DedupInv'
<1>1. confirmed' \subseteq handled
  <2>1. CASE confirmed' = confirmed
    BY <2>1 DEF DedupInv
  <2>2. CASE \E a \in acks : OnAcknowledgment(a) /\ Settles(a)
    <3>1. PICK a \in acks : OnAcknowledgment(a) /\ Settles(a)
      BY <2>2
    <3>2. a \in Sent
      BY DEF WireInv, Sent
    <3>3. This(a.producer, a.seq) = a
      BY <3>1, <3>2 DEF This, Settles, Sent
    <3> QED
      BY <3>1, <3>3 DEF OnAcknowledgment, DedupInv
  <2>3. confirmed' = confirmed \/ \E a \in acks : OnAcknowledgment(a) /\ Settles(a)
    BY DEF Next, vars, producerVars, OnSend, RestartProducer, Retransmit, OnAcknowledgment, LoseAck,
           HandleDelivery, LoseDelivery, HandlerReturns, HandlerThrows, SweepIdleProducers, RestartConsumer
  <2> QED
    BY <2>1, <2>2, <2>3
<1> QED
  BY <1>1 DEF DedupInv, HandlerHolds, Remembered, Tracked

\* A delivery is admitted: it is acknowledged again, refused, or handed to the
\* handler with the state that is now in the map.
LEMMA DeliveryStep ==
    ASSUME DedupInv, WireInv, NEW d \in deliveries, HandleDelivery(d)
    PROVE  DedupInv'
<1> DEFINE p == d.producer
           st == StateFor(p, d.incarnation)
           evicted == Oldest(IF Tracked(p) THEN 0 ELSE Evictions)
           replaced == Tracked(p) /\ deduplication[p].incarnation # d.incarnation
           gone == IF replaced THEN {p} ELSE evicted
<1>1. d \in Sent
  BY DEF WireInv, Sent
<1>2. p \in Producers /\ d.incarnation \in Nat /\ d.seq \in Nat \ {0}
  BY <1>1 DEF Sent
<1>3. /\ handling = Nothing
      /\ deduplication' = [q \in Producers |-> IF q = p THEN st
                              ELSE IF q \in evicted THEN Untracked ELSE deduplication[q]]
      /\ forgotten' = forgotten \cup Recorded(gone)
      /\ UNCHANGED <<confirmed, handled, twice>>
  BY DEF HandleDelivery, Admit, Touch, handlerVars, producerVars
<1>4. /\ Known(st, d.seq) => acks' = acks \cup {d} /\ handling' = handling
      /\ ~Known(st, d.seq) => /\ acks' = acks
                              /\ handling' \in {[kind |-> "delivery", delivery |-> d, state |-> st], Nothing}
  BY DEF HandleDelivery
<1>5. st \in Dedup /\ st.incarnation = d.incarnation
  <2>1. CASE Tracked(p) /\ deduplication[p].incarnation = d.incarnation
    BY <1>2, <2>1 DEF StateFor, DedupInv
  <2>2. CASE ~(Tracked(p) /\ deduplication[p].incarnation = d.incarnation)
    <3>1. st = State(d.incarnation, 0, {})
      BY <2>2 DEF StateFor
    <3>2. IsFiniteSet({})
      BY FS_EmptySet
    <3> QED
      BY <1>2, <3>1, <3>2 DEF State, Dedup
  <2> QED
    BY <2>1, <2>2
<1>6. \A t \in Sent : t.producer = p /\ Records(st, t)
                        => Tracked(p) /\ deduplication[p].incarnation = d.incarnation /\ st = deduplication[p]
  <2>1. CASE Tracked(p) /\ deduplication[p].incarnation = d.incarnation
    BY <2>1 DEF StateFor
  <2>2. CASE ~(Tracked(p) /\ deduplication[p].incarnation = d.incarnation)
    <3>1. st = State(d.incarnation, 0, {})
      BY <2>2 DEF StateFor
    <3>2. st.contiguous = 0 /\ st.above = {}
      BY <3>1 DEF State
    <3>3. \A t \in Sent : ~Known(st, t.seq)
      BY <3>2 DEF Known, Sent
    <3> QED
      BY <3>3 DEF Records
  <2> QED
    BY <2>1, <2>2
<1>7. Tracked(p)' /\ deduplication'[p] = st
  BY <1>2, <1>3, <1>5, DedupTracked DEF Tracked
<1>14. Tracked(p) => evicted = {}
  BY DEF Oldest
<1> HIDE DEF st, gone, evicted
<1>8. \A q \in Producers : Tracked(q)' => deduplication'[q] \in Dedup
  BY <1>3, <1>5 DEF DedupInv, Tracked
<1>9. handling' # Nothing => /\ handling'.delivery = d /\ handling'.state = st
                             /\ ~Known(st, d.seq)
  BY <1>3, <1>4
<1>10. \A t \in Sent : Remembered(t)' => Remembered(t)
  <2> SUFFICES ASSUME NEW t \in Sent, Remembered(t)' PROVE Remembered(t)
    OBVIOUS
  <2>1. CASE t.producer = p
    <3>1. Records(st, t)
      BY <1>7, <1>9, <2>1 DEF Remembered, Records, Known
    <3> QED
      BY <1>6, <2>1, <3>1 DEF Remembered
  <2>2. CASE t.producer # p
    <3>1. Tracked(t.producer)' /\ Records(deduplication'[t.producer], t)
      BY <1>9, <2>2 DEF Remembered, Records, Known
    <3>2. t.producer \in Producers
      BY DEF Sent
    <3>3. deduplication'[t.producer] = deduplication[t.producer]
      BY <1>3, <2>2, <3>1, <3>2 DEF Tracked
    <3> QED
      BY <3>1, <3>3 DEF Remembered, Tracked
  <2> QED
    BY <2>1, <2>2
<1>11. acks' \subseteq handled
  <2>1. CASE Known(st, d.seq)
    <3>1. Records(st, d)
      BY <1>5, <2>1 DEF Records
    <3>2. Remembered(d)
      BY <1>1, <1>6, <3>1 DEF Remembered
    <3> QED
      BY <1>1, <1>4, <2>1, <3>2 DEF DedupInv
  <2>2. CASE ~Known(st, d.seq)
    BY <1>4, <2>2 DEF DedupInv
  <2> QED
    BY <2>1, <2>2
<1>12. \A t \in handled : t \in forgotten' \/ Remembered(t)'
  <2> SUFFICES ASSUME NEW t \in handled, t \notin forgotten'
               PROVE  Remembered(t)'
    OBVIOUS
  <2>1. t \in Sent /\ t.producer \in Producers
    BY DEF DedupInv, Sent
  <2>2. Tracked(t.producer) /\ Records(deduplication[t.producer], t)
    BY <1>3 DEF DedupInv, Remembered
  <2>3. t.producer \notin gone
    BY <1>3, <2>2 DEF Recorded
  <2>4. deduplication'[t.producer] = deduplication[t.producer]
    <3>1. CASE t.producer = p
      BY <1>7, <2>2, <2>3, <3>1 DEF gone, st, StateFor
    <3>2. CASE t.producer # p
      <4>1. t.producer \notin evicted
        BY <1>14, <2>3 DEF gone
      <4> QED
        BY <1>3, <2>1, <3>2, <4>1
    <3> QED
      BY <3>1, <3>2
  <2> QED
    BY <2>2, <2>4 DEF Remembered, Tracked, Records, Known
<1>13. HandlerHolds'
  BY <1>5, <1>7, <1>9 DEF HandlerHolds, Tracked, Known
<1> QED
  BY <1>3, <1>8, <1>10, <1>11, <1>12, <1>13 DEF DedupInv

\* The handler succeeded: its delivery is recorded on top of the state it
\* held, whether or not the sweep took that state from the map meanwhile.
LEMMA ReturnsStep ==
    ASSUME DedupInv, WireInv, HandlerReturns
    PROVE  DedupInv'
<1> DEFINE d == handling.delivery
           p == d.producer
           st == MarkDelivered(handling.state, d.seq)
<1>1. /\ handling # Nothing /\ handling' = Nothing
      /\ handled' = handled \cup {d} /\ acks' = acks \cup {d}
      /\ twice' = IF d \in handled THEN twice \cup {d} ELSE twice
      /\ UNCHANGED <<confirmed, forgotten>>
  BY DEF HandlerReturns, producerVars
<1>2. deduplication' = [q \in Producers |-> IF q = p THEN st ELSE deduplication[q]]
  <2>1. Oldest(0) = {}
    BY DEF Oldest
  <2> QED
    BY <2>1 DEF HandlerReturns, Touch
<1>3. d \in Sent /\ p \in Producers /\ d.seq \in Nat \ {0}
  BY <1>1 DEF WireInv, Sent
<1>4. /\ handling.state \in Dedup /\ handling.state.incarnation = d.incarnation
      /\ ~Known(handling.state, d.seq)
      /\ Tracked(p) => deduplication[p] = handling.state
  BY <1>1 DEF DedupInv, HandlerHolds
<1>5. /\ st \in Dedup /\ st.incarnation = handling.state.incarnation
      /\ \A s \in Nat : Known(st, s) <=> Known(handling.state, s) \/ s = d.seq
  BY <1>3, <1>4, MarkRecords
<1> HIDE DEF st
<1>6. deduplication'[p] = st /\ st # Untracked
  BY <1>2, <1>3, <1>5, DedupTracked
<1>7. \A t \in Sent : t.producer = p /\ Records(st, t)
                        <=> t = d \/ (t.producer = p /\ Records(handling.state, t))
  <2> SUFFICES ASSUME NEW t \in Sent, t.producer = p
               PROVE  Records(st, t) <=> t = d \/ Records(handling.state, t)
    BY <1>3
  <2>1. t.seq \in Nat
    BY DEF Sent
  <2>2. t = d <=> t.incarnation = d.incarnation /\ t.seq = d.seq
    BY <1>3 DEF Sent
  <2>3. Known(st, t.seq) <=> Known(handling.state, t.seq) \/ t.seq = d.seq
    BY <1>5, <2>1
  <2> QED
    BY <1>4, <1>5, <2>2, <2>3 DEF Records
<1>8. ASSUME NEW t \in Sent
      PROVE  Remembered(t)' <=> t = d \/ Remembered(t)
  <2>1. CASE t.producer = p
    <3>1. Remembered(t)' <=> Records(st, t)
      BY <1>1, <1>6, <2>1 DEF Remembered, Tracked, Records, Known
    <3>2. Remembered(t) <=> Records(handling.state, t)
      <4>1. CASE Tracked(p)
        BY <1>1, <1>4, <2>1, <4>1 DEF Remembered
      <4>2. CASE ~Tracked(p)
        BY <1>1, <2>1, <4>2 DEF Remembered
      <4> QED
        BY <4>1, <4>2
    <3> QED
      BY <1>7, <2>1, <3>1, <3>2
  <2>2. CASE t.producer # p
    <3>1. t.producer \in Producers
      BY DEF Sent
    <3>2. deduplication'[t.producer] = deduplication[t.producer]
      BY <1>2, <2>2, <3>1
    <3> QED
      BY <1>1, <2>2, <3>2 DEF Remembered, Tracked, Records, Known
  <2> QED
    BY <2>1, <2>2
<1>9. twice' \subseteq forgotten'
  <2>1. ~Remembered(d)
    BY <1>4 DEF Remembered, Records
  <2>2. d \in handled => d \in forgotten
    BY <2>1 DEF DedupInv
  <2> QED
    BY <1>1, <2>2 DEF DedupInv
<1>10. \A q \in Producers : Tracked(q)' => deduplication'[q] \in Dedup
  BY <1>2, <1>5 DEF DedupInv, Tracked
<1>11. HandlerHolds'
  BY <1>1 DEF HandlerHolds
<1>12. handled' \subseteq Sent /\ acks' \subseteq handled' /\ confirmed' \subseteq handled'
  BY <1>1, <1>3 DEF DedupInv
<1>13. \A t \in Sent : Remembered(t)' => t \in handled'
  BY <1>1, <1>8 DEF DedupInv
<1>14. \A t \in handled' : t \in forgotten' \/ Remembered(t)'
  BY <1>1, <1>8, <1>12 DEF DedupInv
<1> QED
  BY <1>9, <1>10, <1>11, <1>12, <1>13, <1>14 DEF DedupInv

\* Entries are dropped, and what they recorded alone is forgotten: the steps
\* that lose records share this shape.
LEMMA DropStep ==
    ASSUME DedupInv, NEW gone, UNCHANGED <<handled, twice, acks, confirmed>>,
           deduplication' = [q \in Producers |-> IF q \in gone THEN Untracked ELSE deduplication[q]],
           forgotten \subseteq forgotten',
           HandlerHolds',
           \A t \in Sent : Remembered(t)' => Remembered(t),
           \A t \in handled : Remembered(t) => t \in forgotten' \/ Remembered(t)'
    PROVE  DedupInv'
<1>1. \A q \in Producers : Tracked(q)' => deduplication'[q] \in Dedup
  BY DEF DedupInv, Tracked
<1>2. \A t \in Sent : Remembered(t)' => t \in handled'
  BY DEF DedupInv
<1>3. \A t \in handled' : t \in forgotten' \/ Remembered(t)'
  BY DEF DedupInv
<1> QED
  BY <1>1, <1>2, <1>3 DEF DedupInv

LEMMA SweepStep ==
    ASSUME DedupInv, WireInv, NEW n, SweepIdleProducers(n)
    PROVE  DedupInv'
<1> DEFINE swept == Oldest(n)
<1>1. /\ UNCHANGED <<handled, twice, acks, confirmed, handling>>
      /\ deduplication' = [q \in Producers |-> IF q \in swept THEN Untracked ELSE deduplication[q]]
      /\ forgotten' = forgotten \cup Recorded(swept \ Awaited)
  BY DEF SweepIdleProducers, handlerVars, producerVars
<1> HIDE DEF swept
<1>2. \A q \in Producers : Tracked(q)' => Tracked(q) /\ deduplication'[q] = deduplication[q]
  BY <1>1 DEF Tracked
<1>3. HandlerHolds'
  <2>1. handling # Nothing => handling.delivery.producer \in Producers
    BY DEF WireInv
  <2> QED
    BY <1>1, <1>2, <2>1 DEF DedupInv, HandlerHolds, Tracked, Known
<1>4. \A t \in Sent : Remembered(t)' => Remembered(t)
  BY <1>1, <1>2 DEF Remembered, Sent, Tracked, Records, Known
<1>5. ASSUME NEW t \in handled, Remembered(t)
      PROVE  t \in forgotten' \/ Remembered(t)'
  <2>1. t.producer \in Producers
    BY DEF DedupInv, Sent
  <2>2. CASE handling # Nothing /\ handling.delivery.producer = t.producer /\ Records(handling.state, t)
    BY <1>1, <2>2 DEF Remembered, Records, Known
  <2>3. CASE Tracked(t.producer) /\ Records(deduplication[t.producer], t)
    <3>1. CASE t.producer \notin swept
      BY <1>1, <2>1, <2>3, <3>1 DEF Remembered, Tracked, Records, Known
    <3>2. CASE t.producer \in swept \ Awaited
      BY <1>1, <2>3, <3>2 DEF Recorded
    <3>3. CASE t.producer \in Awaited
      <4>1. handling # Nothing /\ handling.delivery.producer = t.producer
        BY <3>3 DEF Awaited
      <4>2. deduplication[t.producer] = handling.state
        BY <2>3, <4>1 DEF DedupInv, HandlerHolds
      <4> QED
        BY <2>2, <2>3, <4>1, <4>2
    <3> QED
      BY <3>1, <3>2, <3>3
  <2> QED
    BY <1>5, <2>2, <2>3 DEF Remembered
<1> QED
  BY <1>1, <1>3, <1>4, <1>5, DropStep

LEMMA ThrowsStep ==
    ASSUME DedupInv, HandlerThrows
    PROVE  DedupInv'
<1> DEFINE p == handling.delivery.producer
<1>1. /\ handling # Nothing /\ handling' = Nothing
      /\ UNCHANGED <<handled, twice, acks, confirmed, deduplication>>
      /\ forgotten' = IF Tracked(p) THEN forgotten
                      ELSE forgotten \cup {t \in handled : t.producer = p /\ Records(handling.state, t)}
  BY DEF HandlerThrows, handlerVars, producerVars
<1>2. \A t \in Sent : Remembered(t)' => Remembered(t)
  BY <1>1 DEF Remembered, Tracked, Records, Known
<1>3. ASSUME NEW t \in handled, Remembered(t)
      PROVE  t \in forgotten' \/ Remembered(t)'
  <2>1. CASE Tracked(t.producer) /\ Records(deduplication[t.producer], t)
    BY <1>1, <2>1 DEF Remembered, Tracked, Records, Known
  <2>2. CASE t.producer = p /\ Records(handling.state, t)
    <3>1. CASE Tracked(p)
      <4>1. deduplication[t.producer] = handling.state
        BY <1>1, <2>2, <3>1 DEF DedupInv, HandlerHolds
      <4> QED
        BY <2>1, <2>2, <3>1, <4>1
    <3>2. CASE ~Tracked(p)
      BY <1>1, <2>2, <3>2
    <3> QED
      BY <3>1, <3>2
  <2> QED
    BY <1>3, <2>1, <2>2 DEF Remembered
<1>4. HandlerHolds' /\ forgotten \subseteq forgotten'
  BY <1>1 DEF HandlerHolds
<1>5. \A q \in Producers : Tracked(q)' => deduplication'[q] \in Dedup
  BY <1>1 DEF DedupInv, Tracked
<1>6. \A t \in Sent : Remembered(t)' => t \in handled'
  BY <1>1, <1>2 DEF DedupInv
<1>7. \A t \in handled' : t \in forgotten' \/ Remembered(t)'
  BY <1>1, <1>3, <1>4 DEF DedupInv
<1> QED
  BY <1>1, <1>4, <1>5, <1>6, <1>7 DEF DedupInv

LEMMA ConsumerRestartStep ==
    ASSUME DedupInv, RestartConsumer
    PROVE  DedupInv'
<1>1. /\ handling = Nothing /\ handling' = Nothing
      /\ UNCHANGED <<handled, twice, acks, confirmed>>
      /\ deduplication' = [q \in Producers |-> Untracked]
      /\ forgotten' = forgotten \cup Recorded(Producers)
  BY DEF RestartConsumer, handlerVars, producerVars
<1>2. deduplication' = [q \in Producers |-> IF q \in Producers THEN Untracked ELSE deduplication[q]]
  BY <1>1
<1>3. \A t \in Sent : ~Remembered(t)'
  BY <1>1 DEF Remembered, Tracked, Sent
<1>4. \A t \in handled : Remembered(t) => t \in forgotten'
  BY <1>1 DEF Remembered, Recorded, DedupInv, Sent
<1>5. HandlerHolds'
  BY <1>1 DEF HandlerHolds
<1> QED
  BY <1>1, <1>2, <1>3, <1>4, <1>5, DropStep

LEMMA DedupNext ==
    ASSUME DedupInv, WireInv, [Next]_vars
    PROVE  DedupInv'
<1>1. CASE \E d \in deliveries : HandleDelivery(d)
  BY <1>1, DeliveryStep
<1>2. CASE HandlerReturns
  BY <1>2, ReturnsStep
<1>3. CASE HandlerThrows
  BY <1>3, ThrowsStep
<1>4. CASE \E n \in 1..Len(order) : SweepIdleProducers(n)
  BY <1>4, SweepStep
<1>5. CASE RestartConsumer
  BY <1>5, ConsumerRestartStep
<1>6. CASE UNCHANGED <<deduplication, handling, forgotten, handled, twice>> /\ acks' \subseteq acks
  BY <1>6, DedupWire
<1>7. \/ \E d \in deliveries : HandleDelivery(d)
      \/ HandlerReturns \/ HandlerThrows
      \/ \E n \in 1..Len(order) : SweepIdleProducers(n)
      \/ RestartConsumer
      \/ UNCHANGED <<deduplication, handling, forgotten, handled, twice>> /\ acks' \subseteq acks
  BY DEF Next, vars, dedupVars, handlerVars, OnSend, RestartProducer, Retransmit,
         OnAcknowledgment, LoseAck, LoseDelivery
<1> QED
  BY <1>1, <1>2, <1>3, <1>4, <1>5, <1>6, <1>7

LEMMA DedupAlways == Spec => []DedupInv
<1>1. Init => SendInv /\ WireInv /\ DedupInv
  BY SendInit, WireInit, DedupInit
<1>2. SendInv /\ WireInv /\ DedupInv /\ [Next]_vars => (SendInv /\ WireInv /\ DedupInv)'
  BY SendNext, WireNext, DedupNext
<1> QED
  BY <1>1, <1>2, PTL DEF Spec

-----------------------------------------------------------------------------
(* The budget of the dedup map *)

\* keys lists the producers ps, each of them once.
Lists(keys, ps) ==
    /\ keys \in Seq(Producers) /\ ps \subseteq Producers
    /\ \A i, j \in 1..Len(keys) : keys[i] = keys[j] => i = j
    /\ \A p \in Producers : p \in ps <=> \E i \in 1..Len(keys) : keys[i] = p

\* Dropping the n oldest keys (evictForNewProducer, sweepIdleProducers).
LEMMA DropLists ==
    ASSUME NEW keys, NEW ps, Lists(keys, ps), NEW n \in 0..Len(keys)
    PROVE  /\ Lists(SubSeq(keys, n + 1, Len(keys)), ps \ {keys[i] : i \in 1..n})
           /\ Len(SubSeq(keys, n + 1, Len(keys))) = Len(keys) - n
<1> DEFINE rest == SubSeq(keys, n + 1, Len(keys))
           left == ps \ {keys[i] : i \in 1..n}
<1>1. /\ keys \in Seq(Producers) /\ Len(keys) \in Nat /\ n \in Nat /\ n <= Len(keys)
      /\ \A i \in 1..Len(keys) : keys[i] \in Producers
      /\ \A i, j \in 1..Len(keys) : keys[i] = keys[j] => i = j
      /\ \A p \in Producers : p \in ps <=> \E i \in 1..Len(keys) : keys[i] = p
  BY LenProperties, ElementOfSeq DEF Lists
<1>2. n + 1 \in Int /\ Len(keys) \in Int /\ \A i \in n + 1..Len(keys) : keys[i] \in Producers
  BY <1>1
<1>3. /\ rest \in Seq(Producers)
      /\ Len(rest) = IF n + 1 <= Len(keys) THEN Len(keys) - (n + 1) + 1 ELSE 0
      /\ \A i \in 1..Len(keys) - (n + 1) + 1 : rest[i] = keys[n + 1 + i - 1]
  BY <1>2, SubSeqProperties
<1>4. Len(rest) = Len(keys) - n /\ \A i \in 1..Len(keys) - n : rest[i] = keys[n + i]
  BY <1>1, <1>3
<1> HIDE DEF rest
<1>5. \A i, j \in 1..Len(rest) : rest[i] = rest[j] => i = j
  <2> SUFFICES ASSUME NEW i \in 1..Len(rest), NEW j \in 1..Len(rest), rest[i] = rest[j]
               PROVE  i = j
    OBVIOUS
  <2>1. /\ n + i \in 1..Len(keys) /\ n + j \in 1..Len(keys)
        /\ i \in 1..Len(keys) - n /\ j \in 1..Len(keys) - n
    BY <1>1, <1>4
  <2>2. keys[n + i] = keys[n + j]
    BY <1>4, <2>1
  <2>3. n + i = n + j
    BY <1>1, <2>1, <2>2
  <2> QED
    BY <1>1, <2>3
<1>6. ASSUME NEW p \in Producers
      PROVE  p \in left <=> \E i \in 1..Len(rest) : rest[i] = p
  <2>1. ASSUME p \in left
        PROVE  \E i \in 1..Len(rest) : rest[i] = p
    <3>1. PICK k \in 1..Len(keys) : keys[k] = p
      BY <1>1, <2>1
    <3>2. k \notin 1..n
      BY <2>1, <3>1
    <3>3. k - n \in 1..Len(rest) /\ n + (k - n) = k
      BY <1>1, <1>4, <3>2
    <3> QED
      BY <1>4, <3>1, <3>3
  <2>2. ASSUME NEW i \in 1..Len(rest), rest[i] = p
        PROVE  p \in left
    <3>1. n + i \in 1..Len(keys) /\ keys[n + i] = p
      BY <1>1, <1>4, <2>2
    <3>2. \A j \in 1..n : keys[j] # p
      BY <1>1, <3>1
    <3> QED
      BY <1>1, <3>1, <3>2
  <2> QED
    BY <2>1, <2>2
<1>7. Lists(rest, left)
  BY <1>3, <1>5, <1>6 DEF Lists
<1> QED
  BY <1>4, <1>7 DEF rest

\* Map.delete removes exactly the key.
LEMMA DeleteLists ==
    ASSUME NEW keys, NEW ps, Lists(keys, ps), NEW p \in Producers
    PROVE  /\ Lists(Delete(keys, p), ps \ {p})
           /\ Len(Delete(keys, p)) = IF p \in ps THEN Len(keys) - 1 ELSE Len(keys)
<1> DEFINE at == {i \in 1..Len(keys) : keys[i] = p}
<1>1. /\ keys \in Seq(Producers) /\ Len(keys) \in Nat
      /\ \A i \in 1..Len(keys) : keys[i] \in Producers
      /\ \A i, j \in 1..Len(keys) : keys[i] = keys[j] => i = j
      /\ \A q \in Producers : q \in ps <=> \E i \in 1..Len(keys) : keys[i] = q
      /\ ps \subseteq Producers
  BY LenProperties, ElementOfSeq DEF Lists
<1>2. CASE p \notin ps
  <2>1. at = {}
    BY <1>1, <1>2
  <2>2. Delete(keys, p) = keys /\ ps \ {p} = ps
    BY <1>2, <2>1 DEF Delete
  <2> QED
    BY <1>2, <2>2
<1>3. CASE p \in ps
  <2>1. PICK k \in 1..Len(keys) : keys[k] = p
    BY <1>1, <1>3
  <2>2. at = {k}
    BY <1>1, <2>1
  <2>3. Min(at) = k
    BY <2>2 DEF Min
  <2> DEFINE front == SubSeq(keys, 1, k - 1)
             back == SubSeq(keys, k + 1, Len(keys))
             new == front \o back
  <2>4. Delete(keys, p) = new
    BY <2>2, <2>3 DEF Delete
  <2>5. /\ 1 \in Int /\ k - 1 \in Int /\ k + 1 \in Int /\ Len(keys) \in Int
        /\ \A i \in 1..k - 1 : keys[i] \in Producers
        /\ \A i \in k + 1..Len(keys) : keys[i] \in Producers
    BY <1>1
  <2>6. /\ front \in Seq(Producers)
        /\ Len(front) = IF 1 <= k - 1 THEN k - 1 - 1 + 1 ELSE 0
        /\ \A i \in 1..(k - 1 - 1 + 1) : front[i] = keys[1 + i - 1]
    BY <2>5, SubSeqProperties
  <2>7. /\ back \in Seq(Producers)
        /\ Len(back) = IF k + 1 <= Len(keys) THEN Len(keys) - (k + 1) + 1 ELSE 0
        /\ \A i \in 1..(Len(keys) - (k + 1) + 1) : back[i] = keys[k + 1 + i - 1]
    BY <2>5, SubSeqProperties
  <2>8. /\ Len(front) = k - 1 /\ \A i \in 1..k - 1 : front[i] = keys[i]
        /\ Len(back) = Len(keys) - k /\ \A i \in 1..Len(keys) - k : back[i] = keys[k + i]
    BY <1>1, <2>6, <2>7
  <2> HIDE DEF front, back
  <2>9. /\ new \in Seq(Producers) /\ Len(new) = Len(front) + Len(back)
        /\ \A i \in 1..Len(front) + Len(back) :
               new[i] = IF i <= Len(front) THEN front[i] ELSE back[i - Len(front)]
    BY <2>6, <2>7, ConcatProperties
  <2>10. /\ Len(new) = Len(keys) - 1
         /\ \A i \in 1..k - 1 : new[i] = keys[i]
         /\ \A i \in k..Len(keys) - 1 : new[i] = keys[i + 1]
    <3>1. Len(new) = Len(keys) - 1
      BY <1>1, <2>8, <2>9
    <3>2. \A i \in 1..k - 1 : new[i] = keys[i]
      BY <1>1, <2>8, <2>9
    <3>3. ASSUME NEW i \in k..Len(keys) - 1
          PROVE  new[i] = keys[i + 1]
      <4>1. i \in 1..Len(front) + Len(back) /\ ~(i <= Len(front))
        BY <1>1, <2>8
      <4>2. i - Len(front) \in 1..Len(keys) - k /\ k + (i - Len(front)) = i + 1
        BY <1>1, <2>8
      <4>3. new[i] = back[i - Len(front)]
        BY <2>9, <4>1
      <4> QED
        BY <2>8, <4>2, <4>3
    <3> QED
      BY <3>1, <3>2, <3>3
  <2> HIDE DEF new
  <2> DEFINE from(i) == IF i < k THEN i ELSE i + 1
  <2>11. \A i \in 1..Len(new) : from(i) \in 1..Len(keys) /\ from(i) # k /\ new[i] = keys[from(i)]
    <3> SUFFICES ASSUME NEW i \in 1..Len(new)
                 PROVE  from(i) \in 1..Len(keys) /\ from(i) # k /\ new[i] = keys[from(i)]
      OBVIOUS
    <3>1. CASE i < k
      <4>1. i \in 1..k - 1 /\ i \in 1..Len(keys) /\ i # k /\ from(i) = i
        BY <1>1, <2>10, <3>1
      <4> QED
        BY <2>10, <4>1
    <3>2. CASE ~(i < k)
      <4>1. i \in k..Len(keys) - 1 /\ i + 1 \in 1..Len(keys) /\ i + 1 # k /\ from(i) = i + 1
        BY <1>1, <2>10, <3>2
      <4> QED
        BY <2>10, <4>1
    <3> QED
      BY <3>1, <3>2
  <2>12. \A i, j \in 1..Len(new) : new[i] = new[j] => i = j
    <3> SUFFICES ASSUME NEW i \in 1..Len(new), NEW j \in 1..Len(new), new[i] = new[j]
                 PROVE  i = j
      OBVIOUS
    <3>1. from(i) = from(j)
      <4> HIDE DEF from
      <4> QED
        BY <1>1, <2>11
    <3> QED
      BY <1>1, <2>10, <3>1
  <2>13. ASSUME NEW q \in Producers
         PROVE  q \in ps \ {p} <=> \E i \in 1..Len(new) : new[i] = q
    <3>1. ASSUME q \in ps, q # p
          PROVE  \E i \in 1..Len(new) : new[i] = q
      <4>1. PICK m \in 1..Len(keys) : keys[m] = q
        BY <1>1, <3>1
      <4>2. CASE m < k
        <5>1. m \in 1..k - 1 /\ m \in 1..Len(new)
          BY <1>1, <2>10, <4>2
        <5> QED
          BY <2>10, <4>1, <5>1
      <4>3. CASE m > k
        <5>1. m - 1 \in k..Len(keys) - 1 /\ m - 1 \in 1..Len(new) /\ (m - 1) + 1 = m
          BY <1>1, <2>10, <4>3
        <5> QED
          BY <2>10, <4>1, <5>1
      <4> QED
        BY <1>1, <2>1, <3>1, <4>1, <4>2, <4>3
    <3>2. ASSUME NEW i \in 1..Len(new), new[i] = q
          PROVE  q \in ps /\ q # p
      <4>1. from(i) \in 1..Len(keys) /\ from(i) # k /\ keys[from(i)] = q
        BY <2>11, <3>2
      <4> HIDE DEF from
      <4> QED
        BY <1>1, <2>1, <4>1
    <3> QED
      BY <3>1, <3>2
  <2>14. Lists(new, ps \ {p})
    BY <1>1, <2>9, <2>12, <2>13 DEF Lists
  <2> QED
    BY <1>3, <2>4, <2>10, <2>14
<1> QED
  BY <1>2, <1>3

LEMMA AppendLists ==
    ASSUME NEW keys, NEW ps, Lists(keys, ps), NEW p \in Producers, p \notin ps
    PROVE  /\ Lists(Append(keys, p), ps \cup {p})
           /\ Len(Append(keys, p)) = Len(keys) + 1
<1> DEFINE new == Append(keys, p)
<1>1. /\ keys \in Seq(Producers) /\ Len(keys) \in Nat
      /\ \A i, j \in 1..Len(keys) : keys[i] = keys[j] => i = j
      /\ \A q \in Producers : q \in ps <=> \E i \in 1..Len(keys) : keys[i] = q
      /\ ps \subseteq Producers
  BY LenProperties DEF Lists
<1>2. /\ new \in Seq(Producers) /\ Len(new) = Len(keys) + 1
      /\ \A i \in 1..Len(keys) : new[i] = keys[i]
      /\ new[Len(keys) + 1] = p
  BY <1>1, AppendProperties
<1> HIDE DEF new
<1>3. \A i \in 1..Len(keys) : new[i] # p
  BY <1>1, <1>2
<1>4. \A i, j \in 1..Len(new) : new[i] = new[j] => i = j
  <2> SUFFICES ASSUME NEW i \in 1..Len(new), NEW j \in 1..Len(new), new[i] = new[j]
               PROVE  i = j
    OBVIOUS
  <2>1. i \in 1..Len(keys) \/ i = Len(keys) + 1
    BY <1>1, <1>2
  <2>2. j \in 1..Len(keys) \/ j = Len(keys) + 1
    BY <1>1, <1>2
  <2> QED
    BY <1>1, <1>2, <1>3, <2>1, <2>2
<1>5. \A i \in 1..Len(keys) : i \in 1..Len(new)
  BY <1>1, <1>2
<1>6. Len(keys) + 1 \in 1..Len(new)
  BY <1>1, <1>2
<1>7. ASSUME NEW q \in Producers
      PROVE  q \in ps \cup {p} <=> \E i \in 1..Len(new) : new[i] = q
  <2>1. ASSUME q \in ps \cup {p}
        PROVE  \E i \in 1..Len(new) : new[i] = q
    BY <1>1, <1>2, <1>5, <1>6, <2>1
  <2>2. ASSUME NEW i \in 1..Len(new), new[i] = q
        PROVE  q \in ps \cup {p}
    <3>1. i \in 1..Len(keys) \/ i = Len(keys) + 1
      BY <1>1, <1>2
    <3> QED
      BY <1>1, <1>2, <2>2, <3>1
  <2> QED
    BY <2>1, <2>2
<1>8. Lists(new, ps \cup {p})
  BY <1>1, <1>2, <1>4, <1>7 DEF Lists
<1> QED
  BY <1>2, <1>8 DEF new

\* The keys of the map, and what its entries and the awaited handler may still
\* add to it.
TrackedSet == {p \in Producers : Tracked(p)}

HandlerFits ==
    handling # Nothing =>
        /\ Tracked(handling.delivery.producer) \/ Len(order) < MaxProducers
        /\ Cardinality(handling.state.above) <= MaxOutOfOrder
        /\ HasOutOfOrderRoom(handling.state, handling.delivery.seq)

(***************************************************************************)
(* Only the sweep touches the map while a handler is awaited, so when it   *)
(* took the awaited producer's entry it left room for that entry to come   *)
(* back; and the room above the gap was checked before the await.          *)
(***************************************************************************)
OrderInv ==
    /\ Lists(order, TrackedSet)
    /\ Len(order) <= MaxProducers
    /\ \A p \in Producers : Tracked(p) => Cardinality(deduplication[p].above) <= MaxOutOfOrder
    /\ HandlerFits

LEMMA OrderSize ==
    OrderInv => Len(order) \in Nat /\ Len(order) <= MaxProducers /\ Lists(order, TrackedSet)
<1> SUFFICES ASSUME OrderInv
             PROVE  Len(order) \in Nat /\ Len(order) <= MaxProducers /\ Lists(order, TrackedSet)
  OBVIOUS
<1>1. order \in Seq(Producers)
  BY DEF OrderInv, Lists
<1>2. Len(order) \in Nat
  BY <1>1, LenProperties
<1> QED
  BY <1>2 DEF OrderInv

\* touch, after the n oldest keys are gone.
LEMMA TouchLists ==
    ASSUME NEW n \in 0..Len(order), NEW p \in Producers, Lists(order, TrackedSet)
    PROVE  LET new == Append(Delete(WithoutOldest(n), p), p)
               kept == TrackedSet \ Oldest(n)
           IN  /\ Lists(new, kept \cup {p})
               /\ Len(new) = IF p \in kept THEN Len(order) - n ELSE Len(order) - n + 1
<1> DEFINE rest == WithoutOldest(n)
           kept == TrackedSet \ Oldest(n)
           cut == Delete(rest, p)
           new == Append(cut, p)
<1>1. Len(order) \in Nat
  BY LenProperties DEF Lists
<1>2. Lists(rest, kept) /\ Len(rest) = Len(order) - n
  BY DropLists DEF WithoutOldest, Oldest
<1> HIDE DEF rest, kept
<1>3. Lists(cut, kept \ {p}) /\ Len(cut) = IF p \in kept THEN Len(rest) - 1 ELSE Len(rest)
  BY <1>2, DeleteLists
<1> HIDE DEF cut
<1>4. Lists(new, (kept \ {p}) \cup {p}) /\ Len(new) = Len(cut) + 1
  BY <1>3, AppendLists
<1>5. (kept \ {p}) \cup {p} = kept \cup {p}
  OBVIOUS
<1>6. Len(new) = IF p \in kept THEN Len(order) - n ELSE Len(order) - n + 1
  BY <1>1, <1>2, <1>3, <1>4
<1> QED
  BY <1>4, <1>5, <1>6 DEF rest, kept, cut

\* markDelivered stays within the room hasOutOfOrderRoom found.
LEMMA MarkBounded ==
    ASSUME NEW st \in Dedup, NEW seq \in Nat \ {0},
           Cardinality(st.above) <= MaxOutOfOrder, HasOutOfOrderRoom(st, seq)
    PROVE  Cardinality(MarkDelivered(st, seq).above) <= MaxOutOfOrder
<1>1. /\ st \in [incarnation : Nat, contiguous : Nat, above : SUBSET Nat]
      /\ IsFiniteSet(st.above) /\ Cardinality(st.above) \in Nat
  BY FS_CardinalityType DEF Dedup
<1>2. CASE seq # st.contiguous + 1
  <2>1. MarkDelivered(st, seq).above = st.above \cup {seq}
    BY <1>1, <1>2 DEF MarkDelivered
  <2>2. Cardinality(st.above) < MaxOutOfOrder
    BY <1>2 DEF HasOutOfOrderRoom
  <2> DEFINE size == Cardinality(st.above)
  <2>3. Cardinality(st.above \cup {seq}) \in {size, size + 1}
    BY <1>1, FS_AddElement
  <2>4. Cardinality(st.above \cup {seq}) \in Nat
    BY <1>1, FS_AddElement, FS_CardinalityType
  <2> QED
    BY <1>1, <2>1, <2>2, <2>3, <2>4, DeliveryAssumption
<1>3. CASE seq = st.contiguous + 1
  <2> DEFINE run == {n \in st.above : n > seq /\ seq + 1..n \subseteq st.above}
             rest == st.above \ run
             top == seq + Cardinality(run)
  <2>1. MarkDelivered(st, seq) = [st EXCEPT !.contiguous = top, !.above = rest]
    BY <1>3 DEF MarkDelivered
  <2>2. rest \in SUBSET st.above
    OBVIOUS
  <2> HIDE DEF rest, top
  <2>3. MarkDelivered(st, seq).above = rest
    BY <1>1, <2>1
  <2>4. Cardinality(rest) <= Cardinality(st.above) /\ Cardinality(rest) \in Nat
    BY <1>1, <2>2, FS_Subset, FS_CardinalityType
  <2> QED
    BY <1>1, <2>3, <2>4, DeliveryAssumption
<1> QED
  BY <1>2, <1>3

LEMMA OrderInit == Init => OrderInv
<1> SUFFICES ASSUME Init PROVE OrderInv
  OBVIOUS
<1>1. order = <<>> /\ handling = Nothing /\ TrackedSet = {}
  BY DEF Init, TrackedSet, Tracked
<1>2. order \in Seq(Producers) /\ Len(order) = 0
  BY <1>1
<1>3. Lists(order, TrackedSet)
  BY <1>1, <1>2 DEF Lists
<1> QED
  BY <1>1, <1>2, <1>3, DeliveryAssumption DEF OrderInv, HandlerFits, TrackedSet

LEMMA OrderDelivery ==
    ASSUME OrderInv, DedupInv, WireInv, NEW d \in deliveries, HandleDelivery(d)
    PROVE  OrderInv'
<1> DEFINE p == d.producer
           st == StateFor(p, d.incarnation)
           n == IF Tracked(p) THEN 0 ELSE Evictions
<1>1. p \in Producers /\ d.incarnation \in Nat /\ d.seq \in Nat \ {0}
  BY DEF WireInv
<1>2. /\ handling = Nothing
      /\ order' = Append(Delete(WithoutOldest(n), p), p)
      /\ deduplication' = [q \in Producers |-> IF q = p THEN st
                              ELSE IF q \in Oldest(n) THEN Untracked ELSE deduplication[q]]
      /\ \/ handling' = Nothing
         \/ /\ handling' = [kind |-> "delivery", delivery |-> d, state |-> st]
            /\ HasOutOfOrderRoom(st, d.seq)
  BY DEF HandleDelivery, Admit, Touch
<1>3. Len(order) \in Nat /\ Len(order) <= MaxProducers /\ Lists(order, TrackedSet)
  BY OrderSize
<1>4. /\ n \in 0..Len(order)
      /\ Tracked(p) => n = 0
      /\ ~Tracked(p) => Len(order) - n + 1 <= MaxProducers
  BY <1>3, DeliveryAssumption DEF Evictions
<1>5. st # Untracked /\ Cardinality(st.above) <= MaxOutOfOrder
  <2>1. CASE Tracked(p) /\ deduplication[p].incarnation = d.incarnation
    BY <1>1, <2>1 DEF StateFor, OrderInv, Tracked
  <2>2. CASE ~(Tracked(p) /\ deduplication[p].incarnation = d.incarnation)
    <3>1. st = State(d.incarnation, 0, {})
      BY <2>2 DEF StateFor
    <3>2. st.above = {} /\ "kind" \notin DOMAIN st
      BY <3>1 DEF State
    <3>3. Cardinality(st.above) = 0
      BY <3>2, FS_EmptySet
    <3> QED
      BY <3>2, <3>3, DeliveryAssumption DEF Untracked
  <2> QED
    BY <2>1, <2>2
<1> HIDE DEF st, n
<1>6. /\ Lists(order', (TrackedSet \ Oldest(n)) \cup {p})
      /\ Len(order') = IF p \in TrackedSet \ Oldest(n) THEN Len(order) - n ELSE Len(order) - n + 1
  BY <1>1, <1>2, <1>3, <1>4, TouchLists
<1>7. TrackedSet' = (TrackedSet \ Oldest(n)) \cup {p}
  BY <1>1, <1>2, <1>5 DEF TrackedSet, Tracked
<1>8. Len(order') <= MaxProducers
  <2>1. CASE Tracked(p)
    <3>1. Oldest(n) = {} /\ n = 0
      BY <1>4, <2>1 DEF Oldest
    <3>2. p \in TrackedSet \ Oldest(n)
      BY <1>1, <2>1, <3>1 DEF TrackedSet
    <3> QED
      BY <1>3, <1>6, <3>1, <3>2
  <2>2. CASE ~Tracked(p)
    <3>1. p \notin TrackedSet \ Oldest(n)
      BY <2>2 DEF TrackedSet
    <3> QED
      BY <1>4, <1>6, <2>2, <3>1
  <2> QED
    BY <2>1, <2>2
<1>9. Lists(order, TrackedSet)'
  BY <1>6, <1>7 DEF Lists
<1>10. ASSUME NEW q \in Producers, Tracked(q)'
       PROVE  Cardinality(deduplication'[q].above) <= MaxOutOfOrder
  BY <1>2, <1>5, <1>10 DEF Tracked, OrderInv
<1>11. HandlerFits'
  <2> SUFFICES ASSUME handling' # Nothing PROVE HandlerFits'
    BY DEF HandlerFits
  <2>0. /\ handling' = [kind |-> "delivery", delivery |-> d, state |-> st]
        /\ HasOutOfOrderRoom(st, d.seq)
    <3> HIDE DEF HandlerFits
    <3> QED
      BY <1>2
  <2>1. /\ handling'.delivery = d /\ handling'.state = st
        /\ HasOutOfOrderRoom(st, d.seq)
    BY <2>0
  <2>2. Tracked(p)'
    BY <1>1, <1>2, <1>5 DEF Tracked
  <2> QED
    BY <1>5, <2>1, <2>2 DEF HandlerFits, Tracked, HasOutOfOrderRoom
<1> QED
  BY <1>8, <1>9, <1>10, <1>11 DEF OrderInv

\* The entry comes back after the await, and there is room for it.
LEMMA OrderReturns ==
    ASSUME OrderInv, DedupInv, WireInv, HandlerReturns
    PROVE  OrderInv'
<1> DEFINE d == handling.delivery
           p == d.producer
           st == MarkDelivered(handling.state, d.seq)
<1>1. p \in Producers /\ d.seq \in Nat \ {0} /\ handling # Nothing
  BY DEF WireInv, HandlerReturns
<1>2. /\ handling' = Nothing
      /\ order' = Append(Delete(WithoutOldest(0), p), p)
      /\ deduplication' = [q \in Producers |-> IF q = p THEN st
                              ELSE IF q \in Oldest(0) THEN Untracked ELSE deduplication[q]]
  BY DEF HandlerReturns, Touch
<1>3. /\ Len(order) \in Nat /\ Len(order) <= MaxProducers /\ Lists(order, TrackedSet)
      /\ 0 \in 0..Len(order) /\ Oldest(0) = {}
  <2>1. Oldest(0) = {}
    BY DEF Oldest
  <2> QED
    BY <2>1, OrderSize
<1>4. /\ handling.state \in Dedup /\ ~Known(handling.state, d.seq)
      /\ Tracked(p) \/ Len(order) < MaxProducers
      /\ Cardinality(handling.state.above) <= MaxOutOfOrder
      /\ HasOutOfOrderRoom(handling.state, d.seq)
  BY <1>1 DEF DedupInv, HandlerHolds, OrderInv, HandlerFits
<1>5. st \in Dedup /\ Cardinality(st.above) <= MaxOutOfOrder
  BY <1>1, <1>4, MarkRecords, MarkBounded
<1>6. st # Untracked
  BY <1>5, DedupTracked
<1> HIDE DEF st, d
<1>7. /\ Lists(order', (TrackedSet \ Oldest(0)) \cup {p})
      /\ Len(order') = IF p \in TrackedSet \ Oldest(0) THEN Len(order) - 0 ELSE Len(order) - 0 + 1
  BY <1>1, <1>2, <1>3, TouchLists
<1>8. TrackedSet' = (TrackedSet \ Oldest(0)) \cup {p}
  BY <1>1, <1>2, <1>6 DEF TrackedSet, Tracked
<1>9. Len(order') <= MaxProducers
  <2>1. p \in TrackedSet \ Oldest(0) <=> Tracked(p)
    BY <1>1, <1>3 DEF TrackedSet
  <2> QED
    BY <1>3, <1>4, <1>7, <2>1, DeliveryAssumption
<1>10. Lists(order, TrackedSet)'
  BY <1>7, <1>8 DEF Lists
<1>11. ASSUME NEW q \in Producers, Tracked(q)'
       PROVE  Cardinality(deduplication'[q].above) <= MaxOutOfOrder
  BY <1>2, <1>3, <1>5, <1>11 DEF Tracked, OrderInv
<1> QED
  BY <1>2, <1>9, <1>10, <1>11 DEF OrderInv, HandlerFits

\* The sweep leaves room for every entry it takes.
LEMMA OrderSweep ==
    ASSUME OrderInv, WireInv, NEW n \in 1..Len(order), SweepIdleProducers(n)
    PROVE  OrderInv'
<1>1. /\ order' = WithoutOldest(n) /\ handling' = handling
      /\ deduplication' = [q \in Producers |-> IF q \in Oldest(n) THEN Untracked ELSE deduplication[q]]
  BY DEF SweepIdleProducers
<1>2. /\ Len(order) \in Nat /\ Len(order) <= MaxProducers /\ Lists(order, TrackedSet)
      /\ n \in 0..Len(order)
  BY OrderSize
<1>3. Lists(order', TrackedSet \ Oldest(n)) /\ Len(order') = Len(order) - n
  BY <1>1, <1>2, DropLists DEF WithoutOldest, Oldest
<1>4. TrackedSet' = TrackedSet \ Oldest(n)
  BY <1>1 DEF TrackedSet, Tracked
<1>5. Lists(order, TrackedSet)'
  BY <1>3, <1>4 DEF Lists
<1>6. Len(order') < MaxProducers
  BY <1>2, <1>3, DeliveryAssumption
<1>7. ASSUME NEW q \in Producers, Tracked(q)'
      PROVE  Cardinality(deduplication'[q].above) <= MaxOutOfOrder
  BY <1>1, <1>7 DEF Tracked, OrderInv
<1>8. HandlerFits'
  BY <1>1, <1>6 DEF OrderInv, HandlerFits, HasOutOfOrderRoom
<1> QED
  BY <1>2, <1>3, <1>5, <1>6, <1>7, <1>8, DeliveryAssumption DEF OrderInv

LEMMA OrderNext ==
    ASSUME OrderInv, DedupInv, WireInv, [Next]_vars
    PROVE  OrderInv'
<1>1. CASE \E d \in deliveries : HandleDelivery(d)
  BY <1>1, OrderDelivery
<1>2. CASE HandlerReturns
  BY <1>2, OrderReturns
<1>3. CASE \E n \in 1..Len(order) : SweepIdleProducers(n)
  BY <1>3, OrderSweep
<1>4. CASE RestartConsumer
  <2>1. handling' = Nothing /\ order' = <<>> /\ deduplication' = [q \in Producers |-> Untracked]
    BY <1>4 DEF RestartConsumer
  <2>2. TrackedSet' = {} /\ order' \in Seq(Producers) /\ Len(order') = 0
    BY <2>1 DEF TrackedSet, Tracked
  <2>3. Lists(order, TrackedSet)'
    BY <2>1, <2>2 DEF Lists
  <2> QED
    BY <2>1, <2>2, <2>3, DeliveryAssumption DEF OrderInv, HandlerFits, Tracked
<1>5. CASE UNCHANGED <<deduplication, order>> /\ handling' \in {handling, Nothing}
  <2>1. TrackedSet' = TrackedSet /\ HandlerFits'
    BY <1>5 DEF TrackedSet, Tracked, HandlerFits, OrderInv, HasOutOfOrderRoom
  <2> QED
    BY <1>5, <2>1 DEF OrderInv, Lists, Tracked
<1>6. \/ \E d \in deliveries : HandleDelivery(d)
      \/ HandlerReturns
      \/ \E n \in 1..Len(order) : SweepIdleProducers(n)
      \/ RestartConsumer
      \/ UNCHANGED <<deduplication, order>> /\ handling' \in {handling, Nothing}
  BY DEF Next, vars, dedupVars, handlerVars, OnSend, RestartProducer, Retransmit,
         OnAcknowledgment, LoseAck, LoseDelivery, HandlerThrows
<1> QED
  BY <1>1, <1>2, <1>3, <1>4, <1>5, <1>6

(***************************************************************************)
(* The dedup map never outgrows maxProducers nor its sets maxOutOfOrder,   *)
(* the entry a handler puts back after its await included, and the age     *)
(* order lists the tracked producers once each.  (touch,                   *)
(* evictForNewProducer, sweepIdleProducers, hasOutOfOrderRoom)             *)
(***************************************************************************)
THEOREM DedupMapWithinBudget == Spec => []DedupBounded
<1>1. Init => SendInv /\ WireInv /\ DedupInv /\ OrderInv
  BY SendInit, WireInit, DedupInit, OrderInit
<1>2. SendInv /\ WireInv /\ DedupInv /\ OrderInv /\ [Next]_vars
        => (SendInv /\ WireInv /\ DedupInv /\ OrderInv)'
  BY SendNext, WireNext, DedupNext, OrderNext
<1>3. OrderInv => DedupBounded
  <2> SUFFICES ASSUME OrderInv PROVE DedupBounded
    OBVIOUS
  <2>1. \A p \in Producers : Tracked(p) <=> \E i \in 1..Len(order) : order[i] = p
    BY DEF OrderInv, Lists, TrackedSet
  <2> QED
    BY <2>1 DEF OrderInv, Lists, DedupBounded
<1> QED
  BY <1>1, <1>2, <1>3, PTL DEF Spec

(***************************************************************************)
(* confirm(null) is called only for a send the consumer's handler          *)
(* succeeded on, across every loss, duplicate, eviction and restart.       *)
(***************************************************************************)
THEOREM ConfirmationIsTrue == Spec => []ConfirmedWasHandled
<1>1. DedupInv => ConfirmedWasHandled
  BY DEF DedupInv, ConfirmedWasHandled
<1> QED
  BY <1>1, DedupAlways, PTL

(***************************************************************************)
(* The handler succeeds a second time on a send only after the consumer    *)
(* dropped its record of the first: a sweep during the handler's await is  *)
(* not such a loss.                                                        *)
(***************************************************************************)
THEOREM DuplicateNeedsLostRecord == Spec => []NoSilentDuplicate
<1>1. DedupInv => NoSilentDuplicate
  BY DEF DedupInv, NoSilentDuplicate
<1> QED
  BY <1>1, DedupAlways, PTL

-----------------------------------------------------------------------------
(* Everything keeps its type *)

(***************************************************************************)
(* The numbers given out and what waits for one are covered by the sends   *)
(* handed to the producer, and the incarnations by the restarts.           *)
(***************************************************************************)
Covered ==
    /\ restarts \in 0..MaxRestarts /\ sweeps \in 0..MaxSweeps
    /\ \A p \in Producers : /\ nextSeq[p] - 1 + pending[p] <= submitted[p]
                            /\ submitted[p] <= MaxSends
                            /\ incarnation[p] <= restarts

\* What travels, what is recorded of it, and what the awaited handler holds.
Carried ==
    /\ deliveries \subseteq Transmission /\ handled \subseteq Transmission
    /\ twice \subseteq handled /\ forgotten \subseteq handled
    /\ deduplication \in [Producers -> Entry \cup {Untracked}]
    /\ handling \in [kind : {"delivery"}, delivery : Transmission, state : Entry] \cup {Nothing}

\* A send is handed out only within the bound, so no producer exceeds it.
LEMMA RoomForSend ==
    ASSUME NEW p \in Producers, submitted[p] \in 0..MaxSends, Cardinality(Submissions) < MaxSends
    PROVE  submitted[p] < MaxSends
<1> SUFFICES ASSUME submitted[p] = MaxSends PROVE FALSE
  BY DeliveryAssumption
<1> DEFINE mine == {p} \X SeqNr
<1>1. IsFiniteSet(SeqNr) /\ Cardinality(SeqNr) = MaxSends
  <2>1. 1 \in Int /\ MaxSends \in Nat
    BY DeliveryAssumption
  <2>2. IsFiniteSet(1..MaxSends) /\ Cardinality(1..MaxSends) = IF 1 > MaxSends THEN 0 ELSE MaxSends - 1 + 1
    BY <2>1, FS_Interval
  <2> QED BY <2>1, <2>2 DEF SeqNr
<1>2. IsFiniteSet({p}) /\ Cardinality({p}) = 1
  BY FS_Singleton
<1>3. Cardinality(mine) = MaxSends
  <2>1. Cardinality(mine) = Cardinality({p}) * Cardinality(SeqNr)
    BY <1>1, <1>2, FS_Product
  <2> QED BY <1>1, <1>2, <2>1, DeliveryAssumption
<1>4. IsFiniteSet(Producers \X SeqNr)
  BY <1>1, DeliveryAssumption, FS_Product
<1>5. IsFiniteSet(Submissions) /\ Cardinality(Submissions) \in Nat
  <2>1. Submissions \in SUBSET (Producers \X SeqNr)
    BY DEF Submissions
  <2> QED BY <1>4, <2>1, FS_Subset, FS_CardinalityType
<1>6. mine \in SUBSET Submissions
  BY DeliveryAssumption DEF Submissions, SeqNr
<1>7. Cardinality(mine) <= Cardinality(Submissions)
  BY <1>5, <1>6, FS_Subset
<1> QED BY <1>3, <1>5, <1>7, DeliveryAssumption

\* markDelivered slides only over sequence numbers that were recorded.
LEMMA MarkTyped ==
    ASSUME NEW st \in Entry, NEW seq \in SeqNr
    PROVE  MarkDelivered(st, seq) \in Entry
<1>0. /\ st.incarnation \in 0..MaxRestarts /\ st.contiguous \in 0..MaxSends /\ st.above \subseteq SeqNr
      /\ st = [incarnation |-> st.incarnation, contiguous |-> st.contiguous, above |-> st.above]
      /\ seq \in 1..MaxSends /\ MaxSends \in Nat
  BY DeliveryAssumption DEF Entry, SeqNr
<1>1. CASE seq # st.contiguous + 1
  BY <1>0, <1>1 DEF MarkDelivered, Entry
<1>2. CASE seq = st.contiguous + 1
  <2> DEFINE run == {n \in st.above : n > seq /\ seq + 1..n \subseteq st.above}
             top == seq + Cardinality(run)
             rest == st.above \ run
  <2>1. MarkDelivered(st, seq) = [st EXCEPT !.contiguous = top, !.above = rest]
    BY <1>2 DEF MarkDelivered
  <2>2. run \in SUBSET st.above /\ run \in SUBSET Nat /\ run \in SUBSET (1..MaxSends)
    BY <1>0 DEF SeqNr
  <2>3. IsFiniteSet(run)
    <3>1. 1 \in Int /\ MaxSends \in Int
      BY <1>0
    <3>2. IsFiniteSet(1..MaxSends)
      BY <3>1, FS_Interval
    <3> HIDE DEF run
    <3> QED BY <2>2, <3>2, FS_Subset
  <2>4. \A n \in run : n > seq /\ seq + 1..n \subseteq run
    <3> SUFFICES ASSUME NEW n \in run, NEW m \in seq + 1..n PROVE m \in run
      OBVIOUS
    <3>1. n \in Nat /\ seq + 1..n \subseteq st.above /\ seq \in Nat
      BY <1>0 DEF SeqNr
    <3>2. m \in st.above /\ m > seq /\ seq + 1..m \subseteq seq + 1..n
      BY <3>1
    <3> QED BY <3>1, <3>2
  <2>5. Cardinality(run) \in Nat /\ run = seq + 1..seq + Cardinality(run)
    <3> HIDE DEF run
    <3>1. seq \in Nat
      BY <1>0
    <3> QED BY <2>2, <2>3, <2>4, <3>1, RunIsInterval
  <2> DEFINE k == Cardinality(run)
  <2> HIDE DEF run, k
  <2>6. seq + k \in 0..MaxSends
    <3>1. k \in Nat /\ run = seq + 1..seq + k
      BY <2>5 DEF k
    <3>2. CASE k = 0
      BY <1>0, <3>2
    <3>3. CASE k > 0
      <4>1. seq + k \in seq + 1..seq + k
        BY <1>0, <3>1, <3>3
      <4>2. seq + k \in 1..MaxSends
        BY <2>2, <3>1, <4>1
      <4> QED BY <4>2
    <3> QED BY <3>1, <3>2, <3>3
  <2>7. top \in 0..MaxSends /\ rest \in SUBSET SeqNr
    BY <1>0, <2>6 DEF k
  <2> HIDE DEF top, rest
  <2> QED BY <1>0, <2>1, <2>7 DEF Entry
<1> QED BY <1>1, <1>2

LEMMA CoveredInit == Init => Covered /\ Carried
BY DeliveryAssumption DEF Init, Covered, Carried

\* Every step keeps the account: dispatch gives out as many numbers as it takes
\* from the queue, and a restart of the producer begins a new count.
LEMMA CoveredNext ==
    ASSUME SendInv, WireInv, Covered, [Next]_vars
    PROVE  Covered'
<1>0. /\ MaxSends \in Nat /\ MaxRestarts \in Nat /\ MaxSweeps \in Nat
      /\ restarts \in 0..MaxRestarts /\ sweeps \in 0..MaxSweeps
  BY DeliveryAssumption DEF Covered
<1>1. ASSUME NEW p \in Producers
      PROVE  /\ nextSeq[p] \in Nat \ {0} /\ pending[p] \in Nat /\ submitted[p] \in Nat
             /\ incarnation[p] \in Nat
             /\ nextSeq[p] - 1 + pending[p] <= submitted[p]
             /\ submitted[p] <= MaxSends /\ incarnation[p] <= restarts
  BY DEF SendInv, Covered
<1>2. ASSUME NEW p \in Producers, OnSend(p) PROVE Covered'
  <2>1. submitted[p] < MaxSends
    <3>1. submitted[p] \in 0..MaxSends /\ Cardinality(Submissions) < MaxSends
      BY <1>0, <1>1, <1>2 DEF OnSend
    <3> QED BY <3>1, RoomForSend
  <2>2. /\ UNCHANGED <<incarnation, restarts, sweeps>>
        /\ submitted' = [submitted EXCEPT ![p] = @ + 1]
        /\ \/ pending' = [pending EXCEPT ![p] = @ + 1] /\ nextSeq' = nextSeq
           \/ pending' = pending /\ nextSeq' = [nextSeq EXCEPT ![p] = @ + 1]
    BY <1>2 DEF OnSend, Dispatch
  <2>3. ASSUME NEW q \in Producers
        PROVE  /\ nextSeq'[q] - 1 + pending'[q] <= submitted'[q]
               /\ submitted'[q] <= MaxSends /\ incarnation'[q] <= restarts'
    <3>1. CASE q = p
      <4>1. /\ submitted'[p] = submitted[p] + 1 /\ incarnation'[p] = incarnation[p]
            /\ \/ pending'[p] = pending[p] + 1 /\ nextSeq'[p] = nextSeq[p]
               \/ pending'[p] = pending[p] /\ nextSeq'[p] = nextSeq[p] + 1
        BY <2>2 DEF SendInv
      <4> QED BY <1>0, <1>1, <2>1, <2>2, <3>1, <4>1
    <3>2. CASE q # p
      <4>1. /\ submitted'[q] = submitted[q] /\ incarnation'[q] = incarnation[q]
            /\ pending'[q] = pending[q] /\ nextSeq'[q] = nextSeq[q]
        BY <2>2, <3>2 DEF SendInv
      <4> QED BY <1>1, <2>2, <4>1
    <3> QED BY <3>1, <3>2
  <2> QED BY <1>0, <2>2, <2>3 DEF Covered
<1>3. ASSUME NEW p \in Producers, RestartProducer(p) PROVE Covered'
  <2>1. /\ restarts < MaxRestarts /\ restarts' = restarts + 1
        /\ UNCHANGED <<submitted, sweeps>>
        /\ pending' = [pending EXCEPT ![p] = 0] /\ nextSeq' = [nextSeq EXCEPT ![p] = 1]
        /\ incarnation' = [incarnation EXCEPT ![p] = @ + 1]
    BY <1>3 DEF RestartProducer
  <2>2. ASSUME NEW q \in Producers
        PROVE  /\ nextSeq'[q] - 1 + pending'[q] <= submitted'[q]
               /\ submitted'[q] <= MaxSends /\ incarnation'[q] <= restarts'
    <3>1. CASE q = p
      <4>1. /\ submitted'[p] = submitted[p] /\ incarnation'[p] = incarnation[p] + 1
            /\ pending'[p] = 0 /\ nextSeq'[p] = 1
        BY <2>1 DEF SendInv
      <4> QED BY <1>0, <1>1, <2>1, <3>1, <4>1
    <3>2. CASE q # p
      <4>1. /\ submitted'[q] = submitted[q] /\ incarnation'[q] = incarnation[q]
            /\ pending'[q] = pending[q] /\ nextSeq'[q] = nextSeq[q]
        BY <2>1, <3>2 DEF SendInv
      <4> QED BY <1>0, <1>1, <2>1, <4>1
    <3> QED BY <3>1, <3>2
  <2>3. restarts' \in 0..MaxRestarts /\ sweeps' \in 0..MaxSweeps
    BY <1>0, <2>1
  <2> QED BY <2>2, <2>3 DEF Covered
<1>4. ASSUME NEW a \in acks, OnAcknowledgment(a), Settles(a) PROVE Covered'
  <2> DEFINE p == a.producer
             left == inflight[p] \ {a.seq}
             n == Refill(p, left)
  <2>1. p \in Producers
    BY DEF WireInv
  <2>2. /\ UNCHANGED <<submitted, incarnation, restarts, sweeps>>
        /\ pending' = [pending EXCEPT ![p] = @ - n] /\ nextSeq' = [nextSeq EXCEPT ![p] = @ + n]
    BY <1>4 DEF OnAcknowledgment, Dispatch
  <2>3. n \in Int
    <3>1. left \subseteq 1..nextSeq[p] - 1 /\ nextSeq[p] \in Nat \ {0} /\ 0 \in Nat
      BY <2>1 DEF SendInv
    <3>2. Cardinality(left) \in Nat
      <4> HIDE DEF left, p
      <4> QED BY <3>1, BatchSize
    <3>3. pending[p] \in Int /\ Window - Cardinality(left) \in Int
      BY <1>1, <2>1, <3>2, DeliveryAssumption
    <3> QED BY <3>3, MinOfTwo DEF Refill
  <2> HIDE DEF n, left, p
  <2>4. ASSUME NEW q \in Producers
        PROVE  nextSeq'[q] - 1 + pending'[q] <= submitted'[q]
    <3>1. CASE q = p
      <4>1. pending'[p] = pending[p] - n /\ nextSeq'[p] = nextSeq[p] + n
        BY <2>1, <2>2 DEF SendInv
      <4> QED BY <1>1, <2>1, <2>2, <2>3, <3>1, <4>1
    <3>2. CASE q # p
      <4>1. pending'[q] = pending[q] /\ nextSeq'[q] = nextSeq[q]
        BY <2>1, <2>2, <3>2 DEF SendInv
      <4> QED BY <1>1, <2>2, <4>1
    <3> QED BY <3>1, <3>2
  <2> QED BY <2>2, <2>4 DEF Covered
<1>5. CASE UNCHANGED <<incarnation, nextSeq, pending, submitted>>
  <2>1. restarts' \in 0..MaxRestarts /\ sweeps' \in 0..MaxSweeps /\ restarts <= restarts'
    <3>1. CASE RestartConsumer
      BY <1>0, <3>1 DEF RestartConsumer
    <3>2. CASE \E n \in 1..Len(order) : SweepIdleProducers(n)
      BY <1>0, <3>2 DEF SweepIdleProducers
    <3>3. CASE UNCHANGED <<restarts, sweeps>>
      BY <1>0, <3>3
    <3>4. CASE \E p \in Producers : RestartProducer(p)
      BY <1>0, <3>4 DEF RestartProducer
    <3> QED
      BY <3>1, <3>2, <3>3, <3>4 DEF Next, vars, OnSend, Retransmit, OnAcknowledgment, LoseAck,
         HandleDelivery, LoseDelivery, HandlerReturns, HandlerThrows
  <2>2. \A p \in Producers : incarnation[p] <= restarts'
    BY <1>0, <1>1, <2>1
  <2> QED BY <1>5, <2>1, <2>2 DEF Covered
<1>6. \/ \E p \in Producers : OnSend(p) \/ RestartProducer(p)
      \/ \E a \in acks : OnAcknowledgment(a) /\ Settles(a)
      \/ UNCHANGED <<incarnation, nextSeq, pending, submitted>>
  BY DEF Next, vars, producerVars, Retransmit, OnAcknowledgment, LoseAck, HandleDelivery, LoseDelivery,
         HandlerReturns, HandlerThrows, SweepIdleProducers, RestartConsumer
<1> QED BY <1>2, <1>3, <1>4, <1>5, <1>6

\* What dispatch transmits carries a number given out and an incarnation begun.
LEMMA SentTyped ==
    ASSUME SendInv, Covered, NEW p \in Producers, NEW s \in SeqNr
    PROVE  This(p, s) \in Transmission
<1>1. incarnation[p] \in Nat /\ incarnation[p] <= restarts /\ restarts \in 0..MaxRestarts
      /\ MaxRestarts \in Nat
  BY DeliveryAssumption DEF SendInv, Covered
<1>2. incarnation[p] \in 0..MaxRestarts
  BY <1>1
<1> QED BY <1>2 DEF This, Transmission

LEMMA DispatchTyped ==
    ASSUME SendInv, SendInv', Covered, Covered', deliveries \subseteq Transmission,
           NEW p \in Producers, NEW flying, NEW n \in Int, Dispatch(p, flying, n)
    PROVE  deliveries' \subseteq Transmission
<1>1. nextSeq[p] \in Nat \ {0} /\ nextSeq'[p] = nextSeq[p] + n
  BY DEF SendInv, Dispatch
<1>2. /\ nextSeq'[p] \in Nat \ {0} /\ pending'[p] \in Nat /\ submitted'[p] \in Nat
      /\ nextSeq'[p] - 1 + pending'[p] <= submitted'[p] /\ submitted'[p] <= MaxSends
  BY DEF SendInv, Covered
<1>3. \A s \in nextSeq[p]..nextSeq[p] + n - 1 : s \in SeqNr
  BY <1>1, <1>2, DeliveryAssumption DEF SeqNr
<1>4. \A s \in nextSeq[p]..nextSeq[p] + n - 1 : This(p, s) \in Transmission
  BY <1>3, SentTyped
<1> QED BY <1>4 DEF Dispatch

\* deduplicationStateFor gives the state in the map or an empty one.
LEMMA StateForTyped ==
    ASSUME Carried, NEW d \in Transmission
    PROVE  StateFor(d.producer, d.incarnation) \in Entry
<1>1. deduplication[d.producer] \in Entry \cup {Untracked} /\ d.incarnation \in 0..MaxRestarts
  BY DEF Carried, Transmission
<1>2. 0 \in 0..MaxSends /\ {} \subseteq SeqNr
  BY DeliveryAssumption
<1> QED BY <1>1, <1>2 DEF StateFor, State, Entry, Tracked

\* touch puts a typed state into a typed map.
LEMMA TouchTyped ==
    ASSUME deduplication \in [Producers -> Entry \cup {Untracked}], NEW p \in Producers,
           NEW st \in Entry, NEW n, Touch(p, st, n)
    PROVE  deduplication' \in [Producers -> Entry \cup {Untracked}]
BY DEF Touch

\* What travels and what is recorded of it keep their types.
LEMMA CarriedNext ==
    ASSUME SendInv, SendInv', WireInv, DedupInv, Covered, Covered', Carried, [Next]_vars
    PROVE  Carried'
<1> DEFINE Held == [kind : {"delivery"}, delivery : Transmission, state : Entry]
<1>0. /\ deliveries \subseteq Transmission /\ handled \subseteq Transmission
      /\ twice \subseteq handled /\ forgotten \subseteq handled
      /\ deduplication \in [Producers -> Entry \cup {Untracked}] /\ handling \in Held \cup {Nothing}
  BY DEF Carried
<1>1. CASE UNCHANGED <<dedupVars, handling, handlerVars>>
  <2>1. deliveries' \subseteq Transmission
    <3>1. ASSUME NEW p \in Producers, OnSend(p) PROVE deliveries' \subseteq Transmission
      <4>1. 1 \in Int /\ (UNCHANGED deliveries \/ Dispatch(p, inflight[p], 1))
        BY <3>1 DEF OnSend
      <4> QED BY <1>0, <4>1, DispatchTyped
    <3>2. ASSUME NEW p \in Producers, NEW s \in inflight[p], Retransmit(p, s)
          PROVE  deliveries' \subseteq Transmission
      <4>1. /\ nextSeq[p] \in Nat \ {0} /\ pending[p] \in Nat /\ submitted[p] \in Nat
            /\ nextSeq[p] - 1 + pending[p] <= submitted[p] /\ submitted[p] <= MaxSends
            /\ s \in 1..nextSeq[p] - 1
        BY DEF SendInv, Covered
      <4>2. s \in SeqNr
        BY <4>1, DeliveryAssumption DEF SeqNr
      <4> QED BY <1>0, <3>2, <4>2, SentTyped DEF Retransmit
    <3>3. ASSUME NEW a \in acks, OnAcknowledgment(a) PROVE deliveries' \subseteq Transmission
      <4> DEFINE p == a.producer
                 left == inflight[p] \ {a.seq}
                 n == Refill(p, left)
      <4>1. p \in Producers
        BY DEF WireInv
      <4>2. n \in Int
        <5>1. left \subseteq 1..nextSeq[p] - 1 /\ nextSeq[p] \in Nat \ {0} /\ 0 \in Nat
          BY <4>1 DEF SendInv
        <5>2. Cardinality(left) \in Nat
          <6> HIDE DEF left, p
          <6> QED BY <5>1, BatchSize
        <5>3. pending[p] \in Int /\ Window - Cardinality(left) \in Int
          BY <4>1, <5>2, DeliveryAssumption DEF SendInv
        <5> QED BY <5>3, MinOfTwo DEF Refill
      <4>3. UNCHANGED deliveries \/ Dispatch(p, left, n)
        BY <3>3 DEF OnAcknowledgment
      <4> HIDE DEF n, left, p
      <4> QED BY <1>0, <4>1, <4>2, <4>3, DispatchTyped
    <3>4. deliveries' \subseteq deliveries \/ (\E p \in Producers : OnSend(p))
          \/ (\E p \in Producers : \E s \in inflight[p] : Retransmit(p, s))
          \/ (\E a \in acks : OnAcknowledgment(a))
      BY DEF Next, vars, RestartProducer, LoseAck, HandleDelivery, LoseDelivery,
             HandlerReturns, HandlerThrows, SweepIdleProducers, RestartConsumer
    <3> QED BY <1>0, <3>1, <3>2, <3>3, <3>4
  <2> QED BY <1>0, <1>1, <2>1 DEF Carried, dedupVars, handlerVars
<1>2. ASSUME NEW d \in deliveries, HandleDelivery(d) PROVE Carried'
  <2> DEFINE st == StateFor(d.producer, d.incarnation)
  <2>1. d \in Transmission /\ d.producer \in Producers
    BY <1>0 DEF Transmission
  <2>2. st \in Entry
    BY <2>1, StateForTyped
  <2>3. /\ deliveries' \subseteq deliveries /\ UNCHANGED <<handled, twice>>
        /\ handling' \in {handling, Nothing, [kind |-> "delivery", delivery |-> d, state |-> st]}
        /\ \E n : Touch(d.producer, st, n)
        /\ \E ps : forgotten' = forgotten \cup Recorded(ps)
    BY <1>2 DEF HandleDelivery, Admit, handlerVars
  <2> HIDE DEF st
  <2>4. deduplication' \in [Producers -> Entry \cup {Untracked}]
    BY <1>0, <2>1, <2>2, <2>3, TouchTyped
  <2>5. handling' \in Held \cup {Nothing}
    BY <1>0, <2>1, <2>2, <2>3
  <2>6. forgotten' \subseteq handled
    BY <1>0, <2>3 DEF Recorded
  <2> QED BY <1>0, <2>3, <2>4, <2>5, <2>6 DEF Carried
<1>3. CASE HandlerReturns
  <2> DEFINE d == handling.delivery
             st == MarkDelivered(handling.state, d.seq)
  <2>1. handling \in Held
    BY <1>0, <1>3 DEF HandlerReturns
  <2>2. d \in Transmission /\ d.producer \in Producers /\ d.seq \in SeqNr /\ handling.state \in Entry
    BY <2>1 DEF Transmission
  <2>3. st \in Entry
    BY <2>2, MarkTyped
  <2>4. /\ handled' = handled \cup {d} /\ twice' \subseteq twice \cup {d} /\ handling' = Nothing
        /\ UNCHANGED <<forgotten, deliveries>> /\ Touch(d.producer, st, 0)
    BY <1>3 DEF HandlerReturns
  <2> HIDE DEF st, d
  <2>5. deduplication' \in [Producers -> Entry \cup {Untracked}]
    BY <1>0, <2>2, <2>3, <2>4, TouchTyped
  <2> QED BY <1>0, <2>2, <2>4, <2>5 DEF Carried
<1>4. CASE HandlerThrows
  <2>1. /\ handling' = Nothing /\ UNCHANGED <<deduplication, deliveries, handled, twice>>
        /\ forgotten' \subseteq forgotten \cup handled
    BY <1>4 DEF HandlerThrows, handlerVars
  <2> QED BY <1>0, <2>1 DEF Carried
<1>5. ASSUME NEW n, SweepIdleProducers(n) PROVE Carried'
  <2>1. /\ UNCHANGED <<handling, deliveries, handled, twice>>
        /\ deduplication' \in [Producers -> Entry \cup {Untracked}]
        /\ forgotten' \subseteq forgotten \cup handled
    BY <1>0, <1>5 DEF SweepIdleProducers, handlerVars, Recorded
  <2> QED BY <1>0, <2>1 DEF Carried
<1>6. CASE RestartConsumer
  <2>1. /\ UNCHANGED <<handling, deliveries, handled, twice>>
        /\ deduplication' \in [Producers -> Entry \cup {Untracked}]
        /\ forgotten' \subseteq forgotten \cup handled
    BY <1>6 DEF RestartConsumer, handlerVars, Recorded
  <2> QED BY <1>0, <2>1 DEF Carried
<1>7. \/ UNCHANGED <<dedupVars, handling, handlerVars>>
      \/ \E d \in deliveries : HandleDelivery(d)
      \/ HandlerReturns \/ HandlerThrows
      \/ \E n \in 1..Len(order) : SweepIdleProducers(n)
      \/ RestartConsumer
  BY DEF Next, vars, OnSend, RestartProducer, Retransmit, OnAcknowledgment, LoseAck, LoseDelivery
<1> QED BY <1>1, <1>2, <1>3, <1>4, <1>5, <1>6, <1>7

\* The account and what travels give every variable its type.
LEMMA TypesFollow ==
    ASSUME SendInv, DedupInv, OrderInv, Covered, Carried
    PROVE  TypeOK
<1>0. MaxSends \in Nat /\ MaxRestarts \in Nat /\ restarts \in 0..MaxRestarts
  BY DeliveryAssumption DEF Covered
<1>1. ASSUME NEW p \in Producers
      PROVE  /\ incarnation[p] \in 0..MaxRestarts /\ nextSeq[p] \in 1..MaxSends + 1
             /\ inflight[p] \subseteq SeqNr /\ pending[p] \in 0..MaxSends
             /\ submitted[p] \in 0..MaxSends /\ stopped[p] \in 0..MaxSends
  <2>1. /\ nextSeq[p] \in Nat \ {0} /\ pending[p] \in Nat /\ submitted[p] \in Nat
        /\ incarnation[p] \in Nat /\ stopped[p] \in Nat
        /\ nextSeq[p] - 1 + pending[p] <= submitted[p]
        /\ submitted[p] <= MaxSends /\ incarnation[p] <= restarts
        /\ inflight[p] \subseteq 1..nextSeq[p] - 1
    BY DEF SendInv, Covered
  <2>2. stopped[p] <= submitted[p]
    <3>1. Cardinality(inflight[p]) \in Nat
      BY <2>1, BatchSize, 0 \in Nat
    <3>2. Cardinality({t \in confirmed : t.producer = p}) \in Nat
      <4>1. {t \in confirmed : t.producer = p} \in SUBSET confirmed
        OBVIOUS
      <4> QED BY <4>1, FS_Subset, FS_CardinalityType DEF SendInv
    <3>3. submitted[p] = Cardinality({t \in confirmed : t.producer = p}) + stopped[p]
                         + Cardinality(inflight[p]) + pending[p]
      BY DEF SendInv, ToldOnce
    <3> QED BY <2>1, <3>1, <3>2, <3>3
  <2> QED BY <1>0, <2>1, <2>2 DEF SeqNr
<1>2. /\ incarnation \in [Producers -> 0..MaxRestarts] /\ nextSeq \in [Producers -> 1..MaxSends + 1]
      /\ inflight \in [Producers -> SUBSET SeqNr] /\ pending \in [Producers -> 0..MaxSends]
      /\ submitted \in [Producers -> 0..MaxSends] /\ stopped \in [Producers -> 0..MaxSends]
  BY <1>1 DEF SendInv
<1>3. acks \subseteq Transmission /\ confirmed \subseteq Transmission
  BY DEF DedupInv, Carried
<1>4. order \in Seq(Producers)
  BY DEF OrderInv, Lists
<1> QED BY <1>2, <1>3, <1>4 DEF TypeOK, Covered, Carried

(***************************************************************************)
(* For every set of producers and every bound: the fields of both          *)
(* controllers and the frames on the wire keep their types.  In particular *)
(* a sequence number is one that was given out to a send (dispatch), and   *)
(* markDelivered never slides the contiguous mark past it.                 *)
(***************************************************************************)
THEOREM DeliveryStaysTyped == Spec => []TypeOK
<1> DEFINE Inv == SendInv /\ WireInv /\ DedupInv /\ OrderInv /\ Covered /\ Carried
<1>1. Init => Inv
  BY SendInit, WireInit, DedupInit, OrderInit, CoveredInit
<1>2. Inv /\ [Next]_vars => Inv'
  <2> SUFFICES ASSUME Inv, [Next]_vars PROVE Inv'
    OBVIOUS
  <2>1. SendInv' /\ WireInv' /\ DedupInv' /\ OrderInv'
    BY SendNext, WireNext, DedupNext, OrderNext
  <2>2. Covered'
    BY CoveredNext
  <2>3. Carried'
    BY <2>1, <2>2, CarriedNext
  <2> QED BY <2>1, <2>2, <2>3
<1>3. Inv => TypeOK
  BY TypesFollow
<1> QED BY <1>1, <1>2, <1>3, PTL DEF Spec

=============================================================================
