------------------------- MODULE PersistentActorProofs -------------------------
(* What an entity recovers and appends to, in every sound deployment.           *)
EXTENDS PersistentActor, FiniteSetTheorems, SequenceTheorems, WellFoundedInduction, TLAPS

-----------------------------------------------------------------------------
(* Numbers and sequences.                                                       *)

\* Every non-empty set of naturals has a least element.
LEMMA LeastNatural ==
    ASSUME NEW T, T \subseteq Nat, T # {}
    PROVE  \E n \in T : \A m \in T : n <= m
<1> DEFINE R == OpToRel(<, Nat)
<1>1. IsWellFoundedOn(R, Nat)
    BY NatLessThanWellFounded
<1>2. \E x \in T : \A y \in T : ~(<<y, x>> \in R)
    <2> HIDE DEF R
    <2> QED
        BY <1>1, WFMin
<1>3. PICK x \in T : \A y \in T : ~(<<y, x>> \in R)
    BY <1>2
<1>4. \A y \in T : ~(y < x)
    BY <1>3 DEF OpToRel
<1>5. \A y \in T : x \in Nat /\ y \in Nat
    OBVIOUS
<1>6. \A y \in T : x <= y
    BY <1>4, <1>5
<1> QED
    BY <1>6

\* Max of a non-empty set of sequence numbers (loadLatest) is its newest member.
LEMMA MaxOfBounded ==
    ASSUME NEW n \in Nat, NEW S, S \subseteq 0..n, S # {}
    PROVE  /\ Max(S) \in S
           /\ \A s \in S : s <= Max(S)
<1> DEFINE T == {n - s : s \in S}
<1>1. T \subseteq Nat
    OBVIOUS
<1>2. T # {}
    OBVIOUS
<1>3. PICK t \in T : \A m \in T : t <= m
    BY <1>1, <1>2, LeastNatural
<1>4. PICK x \in S : t = n - x
    OBVIOUS
<1>5. \A y \in S : x >= y
    BY <1>3, <1>4
<1> QED
    BY <1>5 DEF Max

\* A state is a bounded sequence of events.
LEMMA StateIsSeq ==
    ASSUME NEW s
    PROVE  s \in State <=> s \in Seq(Instance) /\ Len(s) <= MaxSeq
<1> USE PersistenceAssumption
<1>1. ASSUME s \in State
      PROVE  s \in Seq(Instance) /\ Len(s) <= MaxSeq
    <2>1. PICK n \in 0..MaxSeq : s \in [1..n -> Instance]
        BY <1>1 DEF State
    <2>2. n \in Nat
        OBVIOUS
    <2>3. s \in Seq(Instance)
        BY <2>1, <2>2, SeqDef
    <2>4. Len(s) = n
        BY <2>1, <2>2, <2>3, LenProperties
    <2> QED
        BY <2>3, <2>4
<1>2. ASSUME s \in Seq(Instance), Len(s) <= MaxSeq
      PROVE  s \in State
    <2>1. Len(s) \in 0..MaxSeq /\ s \in [1..Len(s) -> Instance]
        BY <1>2, LenProperties
    <2> QED
        BY <2>1 DEF State
<1> QED BY <1>1, <1>2

\* g is h with events appended.
Grows(h, g) ==
    /\ h \in State /\ g \in State
    /\ Len(h) <= Len(g)
    /\ \A n \in 0..Len(h) : SubSeq(h, 1, n) = SubSeq(g, 1, n)

LEMMA GrowsReflexive ==
    ASSUME NEW h \in State
    PROVE  Grows(h, h)
BY StateIsSeq, LenProperties DEF Grows

\* A prefix of a state is a state.
LEMMA PrefixIsState ==
    ASSUME NEW h \in State, NEW n \in 0..Len(h)
    PROVE  /\ SubSeq(h, 1, n) \in State
           /\ Len(SubSeq(h, 1, n)) = n
<1> USE PersistenceAssumption
<1>1. h \in Seq(Instance) /\ Len(h) <= MaxSeq /\ Len(h) \in Nat
    BY StateIsSeq, LenProperties
<1>2. \A i \in 1..n : h[i] \in Instance
    BY <1>1, ElementOfSeq
<1>3. SubSeq(h, 1, n) \in Seq(Instance) /\ Len(SubSeq(h, 1, n)) = IF 1 <= n THEN n - 1 + 1 ELSE 0
    BY <1>1, <1>2, SubSeqProperties, 1 \in Int, n \in Int
<1>4. Len(SubSeq(h, 1, n)) = n
    BY <1>1, <1>3
<1>5. Len(SubSeq(h, 1, n)) <= MaxSeq
    BY <1>1, <1>4
<1>6. SubSeq(h, 1, n) \in State
    BY <1>3, <1>5, StateIsSeq
<1> QED BY <1>4, <1>6

LEMMA WholePrefix ==
    ASSUME NEW h \in State
    PROVE  SubSeq(h, 1, Len(h)) = h /\ SubSeq(h, 1, 0) = <<>> /\ Len(h) \in 0..MaxSeq
<1>1. h \in Seq(Instance) /\ Len(h) <= MaxSeq /\ Len(h) \in Nat
    BY StateIsSeq, LenProperties
<1>2. SubSeq(h, 1, 0) = <<>>
    BY SubSeqEmpty, 1 \in Int, 0 \in Int
<1> QED BY <1>1, <1>2, SubSeqFull, PersistenceAssumption

\* The journal's append extends the history and keeps its prefixes.
LEMMA AppendedGrows ==
    ASSUME NEW h \in State, NEW call, call.by \in Instance, call.count \in Nat,
           Len(h) + call.count <= MaxSeq
    PROVE  /\ Grows(h, Appended(h, call))
           /\ Len(Appended(h, call)) = Len(h) + call.count
<1> DEFINE e == [k \in 1..call.count |-> call.by]
           g == h \o e
<1>1. h \in Seq(Instance) /\ Len(h) \in Nat
    BY StateIsSeq, LenProperties
<1>2. e \in [1..call.count -> Instance]
    OBVIOUS
<1>3. e \in Seq(Instance) /\ Len(e) = call.count
    BY <1>2, SeqDef, LenProperties
<1> HIDE DEF e
<1>4. /\ g \in Seq(Instance) /\ Len(g) = Len(h) + call.count
      /\ \A i \in 1..Len(h) : g[i] = h[i]
    BY <1>1, <1>3, ConcatProperties
<1>5. g \in State
    BY <1>4, StateIsSeq
<1> HIDE DEF g
<1>6. ASSUME NEW n \in 0..Len(h)
      PROVE  SubSeq(h, 1, n) = SubSeq(g, 1, n)
    <2>1. \A i \in 1..n : h[i] \in Instance /\ g[i] = h[i]
        BY <1>1, <1>4, ElementOfSeq
    <2>2. n \in Int /\ 1 \in Int
        BY <1>1
    <2>3. /\ SubSeq(h, 1, n) \in Seq(Instance)
          /\ Len(SubSeq(h, 1, n)) = IF 1 <= n THEN n - 1 + 1 ELSE 0
          /\ \A i \in 1..(n - 1 + 1) : SubSeq(h, 1, n)[i] = h[1 + i - 1]
        BY <2>1, <2>2, SubSeqProperties
    <2>4. /\ SubSeq(g, 1, n) \in Seq(Instance)
          /\ Len(SubSeq(g, 1, n)) = IF 1 <= n THEN n - 1 + 1 ELSE 0
          /\ \A i \in 1..(n - 1 + 1) : SubSeq(g, 1, n)[i] = g[1 + i - 1]
        BY <2>1, <2>2, SubSeqProperties
    <2>5. \A i \in 1..n : SubSeq(h, 1, n)[i] = SubSeq(g, 1, n)[i]
        BY <2>1, <2>3, <2>4
    <2>6. Len(SubSeq(h, 1, n)) = Len(SubSeq(g, 1, n)) /\ Len(SubSeq(h, 1, n)) = n
        BY <2>3, <2>4
    <2> QED
        BY <2>3, <2>4, <2>5, <2>6, SeqEqual
<1>7. Len(h) <= Len(g)
    BY <1>1, <1>4
<1>8. Grows(h, g)
    BY <1>5, <1>6, <1>7 DEF Grows
<1> QED
    BY <1>4, <1>8 DEF g, e, Appended

-----------------------------------------------------------------------------
(* The stores.                                                                  *)

LEMMA EmptyFunction ==
    ASSUME NEW f, f = [s \in DOMAIN f |-> f[s]], DOMAIN f = {}
    PROVE  f = <<>>
<1>1. DOMAIN f = 1..0
    OBVIOUS
<1>2. f \in [1..0 -> Nat]
    BY <1>1
<1>3. f \in Seq(Nat)
    BY <1>2, SeqDef, 0 \in Nat
<1>4. Len(f) = 0
    BY <1>1, <1>3, LenProperties
<1> QED
    BY <1>3, <1>4, EmptySeq

Newest(f) == IF f = <<>> THEN 0 ELSE Max(DOMAIN f)

\* A snapshot store whose every snapshot is a prefix of the history h.
IsStore(f, h) ==
    /\ f = [s \in DOMAIN f |-> f[s]]
    /\ DOMAIN f \subseteq 1..Len(h)
    /\ \A s \in DOMAIN f : f[s] = SubSeq(h, 1, s)

LEMMA NewestOfStore ==
    ASSUME NEW h \in State, NEW f, IsStore(f, h)
    PROVE  /\ Newest(f) \in 0..Len(h)
           /\ \A s \in DOMAIN f : s <= Newest(f)
           /\ Newest(f) # 0 => Newest(f) \in DOMAIN f
           /\ f = <<>> => DOMAIN f = {}
<1>1. Len(h) \in Nat
    BY StateIsSeq, LenProperties
<1>2. CASE f = <<>>
    <2>1. DOMAIN f = {}
        BY <1>2
    <2> QED
        BY <1>1, <1>2, <2>1 DEF Newest
<1>3. CASE f # <<>>
    <2>1. DOMAIN f # {}
        BY <1>3, EmptyFunction DEF IsStore
    <2>2. DOMAIN f \subseteq 0..Len(h) /\ DOMAIN f \subseteq 1..Len(h)
        BY <1>1 DEF IsStore
    <2>3. Max(DOMAIN f) \in DOMAIN f /\ \A s \in DOMAIN f : s <= Max(DOMAIN f)
        BY <1>1, <2>1, <2>2, MaxOfBounded
    <2>4. Newest(f) = Max(DOMAIN f)
        BY <1>3 DEF Newest
    <2> QED
        BY <1>1, <1>3, <2>2, <2>3, <2>4
<1> QED
    BY <1>2, <1>3

\* A save keeps the newest snapshot, whichever save is executed late.
LEMMA SaveKeepsNewest ==
    ASSUME NEW h \in State, NEW f, IsStore(f, h), options.keepN \in Nat,
           NEW seq \in 1..Len(h)
    PROVE  /\ IsStore(Save(f, seq, SubSeq(h, 1, seq)), h)
           /\ Newest(f) <= Newest(Save(f, seq, SubSeq(h, 1, seq)))
           /\ seq <= Newest(Save(f, seq, SubSeq(h, 1, seq)))
<1> DEFINE all == DOMAIN f \cup {seq}
           kept == {s \in all : options.keepN = 0 \/ Cardinality({t \in all : t > s}) < options.keepN}
           g == [s \in kept |-> IF s = seq THEN SubSeq(h, 1, seq) ELSE f[s]]
<1>1. Len(h) \in Nat
    BY StateIsSeq, LenProperties
<1>2. all \subseteq 1..Len(h) /\ all \subseteq 0..Len(h) /\ all # {}
    BY <1>1 DEF IsStore
<1> HIDE DEF all
<1>3. PICK top \in all : \A s \in all : s <= top
    BY <1>1, <1>2, MaxOfBounded
<1>4. {t \in all : t > top} = {}
    <2>1. \A t \in all : t \in Nat
        BY <1>1, <1>2
    <2>2. \A t \in all : ~(t > top)
        BY <1>3, <2>1
    <2> QED
        BY <2>2
<1>5. Cardinality({t \in all : t > top}) = 0
    BY <1>4, FS_EmptySet
<1>6. top \in kept
    BY <1>5
<1>7. DOMAIN g = kept /\ kept \subseteq all
    OBVIOUS
<1>8. \A s \in kept : g[s] = SubSeq(h, 1, s)
    BY DEF IsStore, all
<1>9. IsStore(g, h)
    <2>1. g = [s \in DOMAIN g |-> g[s]]
        OBVIOUS
    <2>2. DOMAIN g \subseteq 1..Len(h)
        BY <1>2, <1>7
    <2> QED
        BY <1>7, <1>8, <2>1, <2>2 DEF IsStore
<1> HIDE DEF kept, g
<1>10. top <= Newest(g)
    BY <1>6, <1>7, <1>9, NewestOfStore
<1>11. Newest(f) <= top
    <2>1. Newest(f) \in all \/ Newest(f) = 0
        BY NewestOfStore DEF all
    <2>2. top \in 1..Len(h)
        BY <1>2
    <2>3. 0 <= top
        BY <1>1, <2>2
    <2> QED
        BY <1>3, <2>1, <2>3
<1>12. seq <= top
    BY <1>3 DEF all
<1>13. Newest(g) \in Nat /\ Newest(f) \in Nat /\ top \in Nat
    BY <1>1, <1>2, <1>9, NewestOfStore
<1>14. Newest(f) <= Newest(g) /\ seq <= Newest(g)
    BY <1>1, <1>10, <1>11, <1>12, <1>13
<1>15. Save(f, seq, SubSeq(h, 1, seq)) = g
    BY DEF Save, all, kept, g
<1> QED
    BY <1>9, <1>14, <1>15

\* Deleting the snapshots below a newer one keeps the newest.
LEMMA DeleteKeepsNewest ==
    ASSUME NEW h \in State, NEW f, IsStore(f, h), NEW to \in Nat, to < Newest(f)
    PROVE  /\ IsStore(DeleteSnapshots(f, to), h)
           /\ Newest(f) <= Newest(DeleteSnapshots(f, to))
<1> DEFINE g == DeleteSnapshots(f, to)
<1>1. Newest(f) \in DOMAIN f /\ Newest(f) \in Nat
    BY NewestOfStore, StateIsSeq, LenProperties
<1>2. DOMAIN g = {s \in DOMAIN f : s > to} /\ \A s \in DOMAIN g : g[s] = f[s]
    BY DEF DeleteSnapshots
<1>3. IsStore(g, h)
    BY <1>2 DEF IsStore, DeleteSnapshots
<1>4. Newest(f) \in DOMAIN g
    BY <1>1, <1>2
<1> QED
    BY <1>3, <1>4, NewestOfStore

-----------------------------------------------------------------------------
(* The calls outstanding, and what executing one does.                          *)

\* A call is right whenever it executes: an append carries the state it was
\* decided on, a save the state its number names, and a delete leaves the newest
\* snapshot and every event after it.
SoundCall(c, h, newest, o) ==
    \/ /\ c.op = "append" /\ c.by \in Instance /\ c.count \in 1..MaxBatch
       /\ c.expected \in 0..Len(h) /\ c.base = SubSeq(h, 1, c.expected)
    \/ c.op = "save" /\ c.seq \in 1..Len(h) /\ c.state = SubSeq(h, 1, c.seq)
    \/ c.op = "deleteSnapshots" /\ o.compacts /\ c.to \in Nat /\ c.to < newest
    \/ c.op = "deleteEvents" /\ o.compacts /\ c.to \in Nat /\ c.to <= newest

LEMMA CallStaysSound ==
    ASSUME NEW h, NEW g, Grows(h, g), NEW m \in Nat, NEW n \in Nat, m <= n,
           NEW o, NEW p, p.compacts = o.compacts,
           NEW c, SoundCall(c, h, m, o)
    PROVE  SoundCall(c, g, n, p)
<1>1. Len(h) \in Nat /\ Len(g) \in Nat /\ Len(h) <= Len(g)
    BY StateIsSeq, LenProperties DEF Grows
<1>2. CASE c.op = "append"
    <2>1. c.by \in Instance /\ c.count \in 1..MaxBatch
        BY <1>2 DEF SoundCall
    <2>2. c.expected \in 0..Len(h) /\ c.base = SubSeq(h, 1, c.expected)
        BY <1>2 DEF SoundCall
    <2>3. c.expected \in 0..Len(g) /\ c.base = SubSeq(g, 1, c.expected)
        BY <1>1, <2>2 DEF Grows
    <2> QED
        BY <1>2, <2>1, <2>3 DEF SoundCall
<1>3. CASE c.op = "save"
    <2>1. c.seq \in 1..Len(h) /\ c.state = SubSeq(h, 1, c.seq)
        BY <1>3 DEF SoundCall
    <2>2. c.seq \in 1..Len(g) /\ c.state = SubSeq(g, 1, c.seq)
        BY <1>1, <2>1 DEF Grows
    <2> QED
        BY <1>3, <2>2 DEF SoundCall
<1>4. CASE c.op \in {"deleteSnapshots", "deleteEvents"}
    BY <1>4 DEF SoundCall
<1> QED
    BY <1>2, <1>3, <1>4 DEF SoundCall

\* The stores: the journal holds the events after the newest snapshot, and every
\* snapshot is a prefix of what the journal accepted.
StoreInv ==
    /\ history \in State
    /\ IsStore(snapshots, history)
    /\ deleted \in Nat /\ deleted <= LoadLatest
    /\ ~options.compacts => deleted = 0

LEMMA LatestIsNewest == LoadLatest = Newest(snapshots)
BY DEF LoadLatest, Newest

LEMMA LatestPrimeIsNewest == LoadLatest' = Newest(snapshots')
BY DEF LoadLatest, Newest

\* Executing a sound call, at whatever time, keeps the stores sound, loses no
\* event and never replaces the newest snapshot by an older one.
LEMMA ExecuteSound ==
    ASSUME StoreInv, options.keepN \in Nat,
           NEW c, SoundCall(c, history, LoadLatest, options),
           c.op = "append" /\ AppendAccepts(c) => Len(history) + c.count <= MaxSeq,
           Execute(c)
    PROVE  /\ Grows(history, history')
           /\ IsStore(snapshots', history')
           /\ LoadLatest \in Nat /\ LoadLatest' \in Nat /\ LoadLatest <= LoadLatest'
           /\ deleted' \in Nat /\ deleted' <= LoadLatest'
           /\ c.op # "deleteEvents" => deleted' = deleted
           /\ c.op = "deleteEvents" => deleted' = deleted \/ deleted' = c.to
           /\ ~options.compacts => deleted' = deleted
           /\ c.op # "append" => history' = history
           /\ c.op = "save" => c.seq <= LoadLatest'
<1>1. /\ history \in State /\ IsStore(snapshots, history)
      /\ deleted \in Nat /\ deleted <= LoadLatest
    BY DEF StoreInv
<1>2. LoadLatest \in Nat /\ Len(history) \in Nat
    BY <1>1, LatestIsNewest, NewestOfStore, StateIsSeq, LenProperties
<1>3. CASE c.op = "append"
    <2>1. snapshots' = snapshots /\ deleted' = deleted
        BY <1>3 DEF Execute
    <2>2. Grows(history, history')
        <3>1. CASE AppendAccepts(c)
            <4>1. history' = Appended(history, c)
                BY <1>3, <3>1 DEF Execute
            <4>2. c.by \in Instance /\ c.count \in Nat
                BY <1>3, PersistenceAssumption DEF SoundCall
            <4>3. Len(history) + c.count <= MaxSeq
                BY <1>3, <3>1
            <4> QED
                BY <1>1, <4>1, <4>2, <4>3, AppendedGrows
        <3>2. CASE ~AppendAccepts(c)
            BY <1>1, <1>3, <3>2, GrowsReflexive DEF Execute
        <3> QED
            BY <3>1, <3>2
    <2>3. IsStore(snapshots, history')
        <3>1. DOMAIN snapshots \subseteq 1..Len(history')
            <4>1. Len(history) <= Len(history') /\ Len(history') \in Nat
                BY <2>2, StateIsSeq, LenProperties DEF Grows
            <4> QED
                BY <1>1, <1>2, <4>1 DEF IsStore
        <3>2. \A n \in DOMAIN snapshots : snapshots[n] = SubSeq(history', 1, n)
            <4>1. \A n \in DOMAIN snapshots : n \in 0..Len(history)
                BY <1>1, <1>2 DEF IsStore
            <4> QED
                BY <1>1, <2>2, <4>1 DEF IsStore, Grows
        <3> QED
            BY <1>1, <3>1, <3>2 DEF IsStore
    <2>4. LoadLatest' = LoadLatest
        BY <2>1, LatestIsNewest, LatestPrimeIsNewest
    <2> QED
        BY <1>1, <1>2, <1>3, <2>1, <2>2, <2>3, <2>4
<1>4. CASE c.op # "append"
    <2>1. history' = history /\ Grows(history, history')
        BY <1>1, <1>4, GrowsReflexive DEF Execute
    <2>2. CASE c.op = "save"
        <3>1. c.seq \in 1..Len(history) /\ c.state = SubSeq(history, 1, c.seq)
            BY <2>2 DEF SoundCall
        <3>2. snapshots' = Save(snapshots, c.seq, SubSeq(history, 1, c.seq)) /\ deleted' = deleted
            BY <2>2, <3>1 DEF Execute
        <3>3. /\ IsStore(snapshots', history)
              /\ LoadLatest <= LoadLatest' /\ c.seq <= LoadLatest'
            BY <1>1, <3>1, <3>2, SaveKeepsNewest, LatestIsNewest, LatestPrimeIsNewest
        <3>4. LoadLatest' \in Nat
            BY <1>1, <1>2, <3>3, LatestPrimeIsNewest, NewestOfStore
        <3> QED
            BY <1>1, <1>2, <2>1, <2>2, <3>2, <3>3, <3>4
    <2>3. CASE c.op = "deleteSnapshots"
        <3>1. c.to \in Nat /\ c.to < LoadLatest
            BY <2>3 DEF SoundCall
        <3>2. snapshots' = DeleteSnapshots(snapshots, c.to) /\ deleted' = deleted
            BY <2>3 DEF Execute
        <3>3. /\ IsStore(snapshots', history)
              /\ LoadLatest <= LoadLatest'
            BY <1>1, <3>1, <3>2, DeleteKeepsNewest, LatestIsNewest, LatestPrimeIsNewest
        <3>4. LoadLatest' \in Nat
            BY <1>1, <1>2, <3>3, LatestPrimeIsNewest, NewestOfStore
        <3> QED
            BY <1>1, <1>2, <2>1, <2>3, <3>2, <3>3, <3>4
    <2>4. CASE c.op = "deleteEvents"
        <3>1. c.to \in Nat /\ c.to <= LoadLatest /\ options.compacts
            BY <2>4 DEF SoundCall
        <3>2. snapshots' = snapshots /\ deleted' = DeleteEvents(c.to)
            BY <2>4 DEF Execute
        <3>3. LoadLatest' = LoadLatest
            BY <3>2, LatestIsNewest, LatestPrimeIsNewest
        <3>4. deleted' = deleted \/ deleted' = c.to
            BY <3>2 DEF DeleteEvents
        <3> QED
            BY <1>1, <1>2, <2>1, <2>4, <3>1, <3>2, <3>3, <3>4
    <2> QED
        BY <1>4, <2>2, <2>3, <2>4 DEF SoundCall
<1> QED
    BY <1>3, <1>4

-----------------------------------------------------------------------------
(* The instances, and the inductive invariant.                                  *)

At == Recovering \cup Persisting \cup {"down", "idle"}

Record ==
    [at : At, state : State, seq : 0..MaxSeq, snap : 0..MaxSeq,
     batch : 0..MaxBatch, holder : BOOLEAN, stopping : BOOLEAN]

\* What an instance has folded, and the number it stands for: growth of the
\* history and newer snapshots leave it true.
Held(a, h, newest, o) ==
    /\ a.at \in {"down", "acquire", "load"} => a.state = <<>> /\ a.snap = 0
    /\ a.at \in {"check", "read"} => a.snap \in 0..Len(h) /\ a.state = SubSeq(h, 1, a.snap)
    /\ a.at = "probe" => a.state = <<>>
    /\ a.at \in Persisting \cup {"idle"} => a.seq \in 0..Len(h) /\ a.state = SubSeq(h, 1, a.seq)
    /\ a.at = "append" => a.batch \in 1..MaxBatch /\ a.seq + a.batch <= MaxSeq
    /\ a.at \in Persisting \ {"append"} => a.seq > 0
    /\ a.at \in {"deleteSnapshots", "deleteEvents"} => a.seq <= newest
    /\ a.at \in {"compactSave", "deleteSnapshots", "deleteEvents"} => o.compacts

\* What must not happen while an instance recovers: the deletion of an event it has
\* yet to read, and a first event between its replay and its probe.
Undisturbed(a, h, del, calls) ==
    /\ a.at \in {"check", "read"} =>
           /\ del <= a.snap
           /\ \A c \in calls : c.op = "deleteEvents" => c.to <= a.snap
    /\ a.at = "probe" => h = <<>>

OptionsInv ==
    /\ SoundDeployment(options)
    /\ options.past # <<>> => history # <<>>
    /\ options.past = <<>> => late = {}

OneAtATime ==
    options.writers = 1 =>
        \A i, j \in Instance : inst[i].at # "down" /\ inst[j].at # "down" => i = j

Inv ==
    /\ OptionsInv
    /\ StoreInv
    /\ \A c \in late : SoundCall(c, history, LoadLatest, options)
    /\ owner \in Instance \cup {NoOwner}
    /\ inst \in [Instance -> Record]
    /\ \A i \in Instance : Held(inst[i], history, LoadLatest, options)
    /\ \A i \in Instance : Undisturbed(inst[i], history, deleted, late)
    /\ OneAtATime

\* The deployment stays, and its budgets of faults and crashes only shrink.
Spends(o, p) ==
    /\ p \in Deployment
    /\ p.past = o.past /\ p.lease = o.lease /\ p.optional = o.optional
    /\ p.compacts = o.compacts /\ p.keepN = o.keepN /\ p.writers = o.writers
    /\ p.faults <= o.faults /\ p.crashes <= o.crashes

LEMMA SpendsNothing ==
    ASSUME NEW o \in Deployment
    PROVE  Spends(o, o)
BY DEF Spends, Deployment

LEMMA SpendsFault ==
    ASSUME NEW o \in Deployment, o.faults > 0
    PROVE  Spends(o, [o EXCEPT !.faults = @ - 1])
BY DEF Spends, Deployment

LEMMA SpendsCrash ==
    ASSUME NEW o \in Deployment, o.crashes > 0
    PROVE  Spends(o, [o EXCEPT !.crashes = @ - 1])
BY DEF Spends, Deployment

LEMMA StaysSoundDeployment ==
    ASSUME NEW o, NEW p, SoundDeployment(o), Spends(o, p)
    PROVE  SoundDeployment(p)
BY DEF Spends, SoundDeployment, Deployment

LEMMA DownIsRecord ==
    /\ Down \in Record /\ Down.at = "down" /\ Down.state = <<>> /\ Down.snap = 0
    /\ \A h, newest, o : Held(Down, h, newest, o)
    /\ \A h, del, calls : Undisturbed(Down, h, del, calls)
<1>1. <<>> \in State
    <2>1. <<>> \in Seq(Instance) /\ Len(<<>>) = 0
        BY EmptySeq
    <2>2. Len(<<>>) <= MaxSeq
        BY <2>1, PersistenceAssumption
    <2> QED
        BY <2>1, <2>2, StateIsSeq
<1>2. Down \in Record
    BY <1>1, PersistenceAssumption DEF Down, Record, At
<1> QED
    BY <1>2 DEF Down, Held, Undisturbed, Persisting

LEMMA HeldStays ==
    ASSUME NEW h, NEW g, Grows(h, g), NEW m \in Nat, NEW n \in Nat, m <= n,
           NEW o, NEW p, p.compacts = o.compacts,
           NEW a \in Record, Held(a, h, m, o)
    PROVE  Held(a, g, n, p)
<1>1. Len(h) \in Nat /\ Len(g) \in Nat /\ Len(h) <= Len(g)
    BY StateIsSeq, LenProperties DEF Grows
<1>2. a.at \in {"check", "read"} => a.snap \in 0..Len(g) /\ a.state = SubSeq(g, 1, a.snap)
    BY <1>1 DEF Held, Grows
<1>3. a.at \in Persisting \cup {"idle"} => a.seq \in 0..Len(g) /\ a.state = SubSeq(g, 1, a.seq)
    BY <1>1 DEF Held, Grows
<1>4. a.at \in {"deleteSnapshots", "deleteEvents"} => a.seq <= n
    BY DEF Held, Record
<1>5. /\ a.at \in {"down", "acquire", "load"} => a.state = <<>> /\ a.snap = 0
      /\ a.at = "probe" => a.state = <<>>
      /\ a.at = "append" => a.batch \in 1..MaxBatch /\ a.seq + a.batch <= MaxSeq
      /\ a.at \in Persisting \ {"append"} => a.seq > 0
    BY DEF Held
<1>6. a.at \in {"compactSave", "deleteSnapshots", "deleteEvents"} => p.compacts
    BY DEF Held
<1> QED
    BY <1>2, <1>3, <1>4, <1>5, <1>6 DEF Held

\* The call an instance awaits is sound, and an accepted append fits the bound.
LEMMA AwaitedCallSound ==
    ASSUME Inv, NEW i \in Instance, inst[i].at \in Persisting
    PROVE  /\ SoundCall(Call(i), history, LoadLatest, options)
           /\ Call(i).op = "append" <=> inst[i].at = "append"
           /\ Call(i).op = "append" =>
                  /\ Call(i).base = inst[i].state
                  /\ Call(i).by = i /\ Call(i).count = inst[i].batch
                  /\ Call(i).expected = inst[i].seq
                  /\ AppendAccepts(Call(i)) => Len(history) + Call(i).count <= MaxSeq
           /\ Call(i).op = "save" <=> inst[i].at \in {"save", "compactSave"}
           /\ Call(i).op = "save" => Call(i).seq = inst[i].seq
           /\ Call(i).op = "deleteEvents" => inst[i].at = "deleteEvents"
<1> DEFINE a == inst[i]
<1>1. a \in Record /\ Held(a, history, LoadLatest, options)
    BY DEF Inv
<1>2. a.seq \in 0..Len(history) /\ a.state = SubSeq(history, 1, a.seq)
    BY <1>1 DEF Held
<1>3. CASE a.at = "append"
    <2>1. Call(i) = [op |-> "append", by |-> i, count |-> a.batch, expected |-> a.seq, base |-> a.state]
        BY <1>3 DEF Call
    <2>2. a.batch \in 1..MaxBatch /\ a.seq + a.batch <= MaxSeq
        BY <1>1, <1>3 DEF Held
    <2>3. SoundCall(Call(i), history, LoadLatest, options)
        BY <1>2, <2>1, <2>2 DEF SoundCall
    <2>4. AppendAccepts(Call(i)) => Len(history) + Call(i).count <= MaxSeq
        BY <2>1, <2>2 DEF AppendAccepts
    <2> QED
        BY <1>3, <2>1, <2>3, <2>4
<1>4. CASE a.at \in {"save", "compactSave"}
    <2>1. Call(i) = [op |-> "save", seq |-> a.seq, state |-> a.state]
        BY <1>4 DEF Call
    <2>2. a.seq > 0
        BY <1>1, <1>4 DEF Held, Persisting
    <2>3. SoundCall(Call(i), history, LoadLatest, options)
        BY <1>2, <2>1, <2>2 DEF SoundCall
    <2> QED
        BY <1>4, <2>1, <2>3
<1>5. CASE a.at = "deleteSnapshots"
    <2>1. Call(i) = [op |-> "deleteSnapshots", to |-> a.seq - 1]
        BY <1>5 DEF Call
    <2>2. a.seq > 0 /\ a.seq <= LoadLatest /\ options.compacts
        BY <1>1, <1>5 DEF Held, Persisting
    <2>3. LoadLatest \in Nat
        BY LatestIsNewest, NewestOfStore, StateIsSeq, LenProperties DEF Inv, StoreInv
    <2>4. SoundCall(Call(i), history, LoadLatest, options)
        BY <1>2, <2>1, <2>2, <2>3 DEF SoundCall
    <2> QED
        BY <1>5, <2>1, <2>4
<1>6. CASE a.at = "deleteEvents"
    <2>1. Call(i) = [op |-> "deleteEvents", to |-> a.seq]
        BY <1>6 DEF Call
    <2>2. a.seq <= LoadLatest /\ options.compacts
        BY <1>1, <1>6 DEF Held, Persisting
    <2>3. SoundCall(Call(i), history, LoadLatest, options)
        BY <1>2, <2>1, <2>2 DEF SoundCall
    <2> QED
        BY <1>6, <2>1, <2>3
<1> QED
    BY <1>3, <1>4, <1>5, <1>6 DEF Persisting

\* A step of one instance that leaves the stores and the outstanding calls alone
\* keeps the invariant if the instance's own new record is sound.
LEMMA QuietStep ==
    ASSUME Inv, UNCHANGED storeVars, Spends(options, options'),
           owner' \in Instance \cup {NoOwner},
           NEW i \in Instance, NEW b \in Record, inst' = [inst EXCEPT ![i] = b],
           Held(b, history, LoadLatest, options),
           Undisturbed(b, history, deleted, late),
           \/ b.at = "down"
           \/ inst[i].at # "down"
           \/ options.writers = 1 => \A j \in Instance : inst[j].at = "down"
    PROVE  Inv'
<1>1. /\ history' = history /\ deleted' = deleted /\ snapshots' = snapshots /\ late' = late
      /\ LoadLatest' = LoadLatest
    BY LatestIsNewest, LatestPrimeIsNewest DEF storeVars
<1>2. SoundDeployment(options')
    BY StaysSoundDeployment DEF Inv, OptionsInv
<1>3. /\ options'.past = options.past /\ options'.compacts = options.compacts
      /\ options'.writers = options.writers
    BY DEF Spends
<1>4. history \in State /\ LoadLatest \in Nat
    BY LatestIsNewest, NewestOfStore, StateIsSeq, LenProperties DEF Inv, StoreInv
<1>5. Grows(history, history)
    BY <1>4, GrowsReflexive
<1>6. OptionsInv'
    BY <1>1, <1>2, <1>3 DEF Inv, OptionsInv
<1>7. StoreInv'
    BY <1>1, <1>3 DEF Inv, StoreInv
<1>8. \A c \in late' : SoundCall(c, history', LoadLatest', options')
    <2>1. \A c \in late : SoundCall(c, history, LoadLatest, options)
        BY DEF Inv
    <2>2. \A c \in late : SoundCall(c, history, LoadLatest, options')
        BY <1>3, <2>1 DEF SoundCall
    <2> QED
        BY <1>1, <2>2
<1>9. inst' \in [Instance -> Record] /\ inst'[i] = b /\ \A j \in Instance : j # i => inst'[j] = inst[j]
    BY DEF Inv
<1>10. \A j \in Instance : Held(inst'[j], history', LoadLatest', options')
    <2>1. \A j \in Instance : Held(inst'[j], history, LoadLatest, options)
        BY <1>9 DEF Inv
    <2>2. \A j \in Instance : Held(inst'[j], history, LoadLatest, options')
        BY <1>3, <2>1 DEF Held
    <2> QED
        BY <1>1, <2>2
<1>11. \A j \in Instance : Undisturbed(inst'[j], history', deleted', late')
    BY <1>1, <1>9 DEF Inv
<1>12. OneAtATime'
    <2> SUFFICES ASSUME options.writers = 1, NEW j \in Instance, NEW k \in Instance,
                        inst'[j].at # "down", inst'[k].at # "down", j # k
                 PROVE  FALSE
        BY <1>3 DEF OneAtATime
    <2>1. \A m, n \in Instance : inst[m].at # "down" /\ inst[n].at # "down" => m = n
        BY DEF Inv, OneAtATime
    <2>2. CASE j # i /\ k # i
        BY <1>9, <2>1, <2>2
    <2>3. CASE j = i \/ k = i
        BY <1>9, <2>1, <2>3
    <2> QED
        BY <2>2, <2>3
<1> QED
    BY <1>6, <1>7, <1>8, <1>9, <1>10, <1>11, <1>12 DEF Inv

\* Stopping an instance.
LEMMA StopKeepsInv ==
    ASSUME Inv, UNCHANGED storeVars, Spends(options, options'),
           NEW i \in Instance, NEW a, Stop(i, a)
    PROVE  Inv'
<1>1. inst' = [inst EXCEPT ![i] = Down]
    BY DEF Stop
<1>2. owner' \in Instance \cup {NoOwner}
    BY DEF Stop, Inv
<1> QED
    BY <1>1, <1>2, DownIsRecord, QuietStep

\* The record of an instance that moves on to await something else.
LEMMA Moved ==
    ASSUME Inv, NEW i \in Instance, NEW at \in At
    PROVE  /\ [inst EXCEPT ![i].at = at] = [inst EXCEPT ![i] = [inst[i] EXCEPT !.at = at]]
           /\ inst[i] \in Record
           /\ [inst[i] EXCEPT !.at = at] \in Record
           /\ [inst[i] EXCEPT !.at = at].at = at
           /\ [inst[i] EXCEPT !.at = at].state = inst[i].state
           /\ [inst[i] EXCEPT !.at = at].seq = inst[i].seq
           /\ [inst[i] EXCEPT !.at = at].snap = inst[i].snap
           /\ [inst[i] EXCEPT !.at = at].batch = inst[i].batch
<1>1. inst \in [Instance -> Record] /\ inst[i] \in Record
    BY DEF Inv
<1> QED
    BY <1>1 DEF Record

-----------------------------------------------------------------------------
(* Every action keeps the invariant: starting, stopping and recovering.         *)

LEMMA InvBasics ==
    ASSUME Inv
    PROVE  /\ options \in Deployment /\ Spends(options, options)
           /\ history \in State /\ Len(history) \in 0..MaxSeq
           /\ LoadLatest \in 0..Len(history)
           /\ IsStore(snapshots, history)
           /\ owner \in Instance \cup {NoOwner}
           /\ inst \in [Instance -> Record]
           /\ deleted \in Nat /\ deleted <= LoadLatest
<1>1. options \in Deployment
    BY DEF Inv, OptionsInv, SoundDeployment
<1>2. Spends(options, options)
    BY <1>1, SpendsNothing
<1>3. history \in State /\ IsStore(snapshots, history)
    BY DEF Inv, StoreInv
<1>4. LoadLatest \in 0..Len(history)
    BY <1>3, LatestIsNewest, NewestOfStore
<1>5. Len(history) \in 0..MaxSeq
    BY <1>3, WholePrefix
<1> QED
    BY <1>1, <1>2, <1>3, <1>4, <1>5 DEF Inv, StoreInv

LEMMA StartKeepsInv ==
    ASSUME Inv, NEW i \in Instance, Start(i)
    PROVE  Inv'
<1> DEFINE at == IF options.lease THEN "acquire" ELSE "load"
           b == [Down EXCEPT !.at = at]
<1>1. inst' = [inst EXCEPT ![i] = b] /\ UNCHANGED <<options, storeVars, owner>>
    BY DEF Start
<1>2. at \in {"acquire", "load"}
    OBVIOUS
<1> HIDE DEF at
<1>3. b \in Record /\ b.at = at /\ b.state = <<>> /\ b.snap = 0
    <2>1. at \in At
        BY <1>2 DEF At, Recovering
    <2> QED
        BY <2>1, DownIsRecord DEF Record, Down
<1> HIDE DEF b
<1>4. Held(b, history, LoadLatest, options) /\ Undisturbed(b, history, deleted, late)
    BY <1>2, <1>3 DEF Held, Undisturbed, Persisting
<1>5. options.writers = 1 => \A j \in Instance : inst[j].at = "down"
    <2>1. Live \subseteq Instance
        BY DEF Live
    <2>2. IsFiniteSet(Live) /\ Cardinality(Live) \in Nat
        BY <2>1, FS_Subset, FS_CardinalityType, PersistenceAssumption
    <2>3. options.writers = 1 => Cardinality(Live) = 0
        BY <2>2 DEF Start
    <2>4. options.writers = 1 => Live = {}
        BY <2>2, <2>3, FS_EmptySet
    <2> QED
        BY <2>4 DEF Live
<1>6. UNCHANGED storeVars /\ Spends(options, options') /\ owner' \in Instance \cup {NoOwner}
    BY <1>1, InvBasics
<1> QED
    BY <1>1, <1>3, <1>4, <1>5, <1>6, QuietStep

LEMMA AcquireKeepsInv ==
    ASSUME Inv, NEW i \in Instance, AcquireAnswers(i)
    PROVE  Inv'
<1> DEFINE got == owner \in {NoOwner, i}
           b == [inst[i] EXCEPT !.at = "load", !.holder = got]
<1>1. inst[i] \in Record /\ inst[i].at = "acquire" /\ Held(inst[i], history, LoadLatest, options)
    BY DEF Inv, AcquireAnswers
<1>2. inst' = [inst EXCEPT ![i] = b]
    BY <1>1 DEF AcquireAnswers, Record
<1>3. got \in BOOLEAN
    OBVIOUS
<1> HIDE DEF got
<1>4. b \in Record /\ b.at = "load" /\ b.state = inst[i].state /\ b.snap = inst[i].snap
    BY <1>1, <1>3 DEF Record, At, Recovering
<1> HIDE DEF b
<1>5. Held(b, history, LoadLatest, options) /\ Undisturbed(b, history, deleted, late)
    BY <1>1, <1>4 DEF Held, Undisturbed, Persisting
<1>6. UNCHANGED storeVars /\ Spends(options, options') /\ owner' \in Instance \cup {NoOwner}
    BY InvBasics DEF AcquireAnswers
<1> QED
    BY <1>1, <1>2, <1>4, <1>5, <1>6, QuietStep

LEMMA LeaseLostKeepsInv ==
    ASSUME Inv, NEW i \in Instance, LeaseLost(i)
    PROVE  Inv'
<1> DEFINE b == [inst[i] EXCEPT !.holder = FALSE, !.stopping = TRUE]
<1>1. /\ inst[i] \in Record /\ inst[i].at # "down"
      /\ Held(inst[i], history, LoadLatest, options) /\ Undisturbed(inst[i], history, deleted, late)
    BY DEF Inv, LeaseLost
<1>2. inst' = [inst EXCEPT ![i] = b]
    BY <1>1 DEF LeaseLost, Record
<1>3. /\ b \in Record /\ b.at = inst[i].at /\ b.state = inst[i].state /\ b.snap = inst[i].snap
      /\ b.seq = inst[i].seq /\ b.batch = inst[i].batch
    BY <1>1 DEF Record
<1> HIDE DEF b
<1>4. Held(b, history, LoadLatest, options)
    BY <1>1, <1>3 DEF Held
<1>5. Undisturbed(b, history, deleted, late)
    BY <1>1, <1>3 DEF Undisturbed
<1>6. UNCHANGED storeVars /\ Spends(options, options') /\ owner' \in Instance \cup {NoOwner}
    BY InvBasics DEF LeaseLost
<1> QED
    BY <1>1, <1>2, <1>3, <1>4, <1>5, <1>6, QuietStep

LEMMA LoadKeepsInv ==
    ASSUME Inv, NEW i \in Instance, LoadAnswers(i)
    PROVE  Inv'
<1> DEFINE n == LoadLatest
           at == IF n = 0 THEN "read" ELSE "check"
           st == IF n = 0 THEN <<>> ELSE snapshots[n]
           b == [inst[i] EXCEPT !.at = at, !.snap = n, !.state = st]
<1>1. inst[i] \in Record /\ inst[i].at = "load"
    BY DEF Inv, LoadAnswers
<1>2. inst' = [inst EXCEPT ![i] = b]
    BY <1>1 DEF LoadAnswers, Record
<1>3. n \in 0..Len(history) /\ n \in 0..MaxSeq /\ history \in State /\ deleted <= n
    BY InvBasics, PersistenceAssumption
<1>4. st = SubSeq(history, 1, n)
    <2>1. CASE n = 0
        BY <1>3, <2>1, WholePrefix
    <2>2. CASE n # 0
        BY <1>3, <2>2, LatestIsNewest, NewestOfStore, InvBasics DEF IsStore
    <2> QED
        BY <2>1, <2>2
<1>5. st \in State
    BY <1>3, <1>4, PrefixIsState
<1>6. at \in {"read", "check"} /\ at \in At
    BY DEF At, Recovering
<1>7. \A c \in late : c.op = "deleteEvents" => c.to <= n
    BY DEF Inv, SoundCall
<1> HIDE DEF n, at, st
<1>8. b \in Record /\ b.at = at /\ b.snap = n /\ b.state = st
    BY <1>1, <1>3, <1>5, <1>6 DEF Record
<1> HIDE DEF b
<1>9. Held(b, history, LoadLatest, options)
    BY <1>3, <1>4, <1>6, <1>8 DEF Held, Persisting
<1>10. Undisturbed(b, history, deleted, late)
    BY <1>3, <1>6, <1>7, <1>8 DEF Undisturbed
<1>11. UNCHANGED storeVars /\ Spends(options, options') /\ owner' \in Instance \cup {NoOwner}
    BY InvBasics DEF LoadAnswers
<1>12. inst[i].at # "down"
    BY <1>1
<1> QED
    BY <1>2, <1>8, <1>9, <1>10, <1>11, <1>12, QuietStep

LEMMA CheckKeepsInv ==
    ASSUME Inv, NEW i \in Instance, CheckAnswers(i)
    PROVE  Inv'
<1> DEFINE b == [inst[i] EXCEPT !.at = "read"]
<1>1. UNCHANGED <<options, storeVars>> /\ inst[i].at = "check" /\ UNCHANGED storeVars
      /\ Spends(options, options')
    BY InvBasics DEF CheckAnswers
<1>2. CASE SnapshotTrusted(inst[i].snap)
    <2>1. inst' = [inst EXCEPT ![i].at = "read"] /\ owner' = owner
        BY <1>2 DEF CheckAnswers, Go
    <2>2. "read" \in At
        BY DEF At, Recovering
    <2>3. /\ inst' = [inst EXCEPT ![i] = b] /\ b \in Record /\ b.at = "read"
          /\ b.state = inst[i].state /\ b.snap = inst[i].snap
        BY <2>1, <2>2, Moved
    <2>4. Held(inst[i], history, LoadLatest, options) /\ Undisturbed(inst[i], history, deleted, late)
        BY DEF Inv
    <2> HIDE DEF b
    <2>5. Held(b, history, LoadLatest, options)
        BY <1>1, <2>3, <2>4 DEF Held, Persisting
    <2>6. Undisturbed(b, history, deleted, late)
        BY <1>1, <2>3, <2>4 DEF Undisturbed
    <2>7. owner' \in Instance \cup {NoOwner} /\ inst[i].at # "down"
        BY <1>1, <2>1, InvBasics
    <2> QED
        BY <1>1, <2>3, <2>5, <2>6, <2>7, QuietStep
<1>3. CASE ~SnapshotTrusted(inst[i].snap)
    <2>1. Stop(i, inst[i])
        BY <1>3 DEF CheckAnswers, RecoveryFails
    <2> QED
        BY <1>1, <2>1, StopKeepsInv
<1> QED
    BY <1>2, <1>3

\* The events with the numbers ev, in order.
Events(h, ev) == [k \in 1..Cardinality(ev) |-> h[Min(ev) + k - 1]]

\* The events after a snapshot, folded into it, give the whole history.
LEMMA ReplayedTail ==
    ASSUME NEW h \in State, NEW from \in 0..Len(h), NEW ev, ev = (from + 1)..Len(h)
    PROVE  /\ SubSeq(h, 1, from) \o Events(h, ev) = h
           /\ from + Cardinality(ev) = Len(h)
           /\ ev = {} <=> from = Len(h)
<1> DEFINE e == [k \in 1..Cardinality(ev) |-> h[Min(ev) + k - 1]]
           t == SubSeq(h, from + 1, Len(h))
<1>1. h \in Seq(Instance) /\ Len(h) \in Nat
    BY StateIsSeq, LenProperties
<1>2. from + 1 \in Int /\ Len(h) \in Int /\ from \in Nat /\ from <= Len(h)
    BY <1>1
<1>3. Cardinality(ev) = Len(h) - from
    <2>1. Cardinality(ev) = IF from + 1 > Len(h) THEN 0 ELSE Len(h) - (from + 1) + 1
        BY <1>2, FS_Interval
    <2> QED
        BY <1>1, <1>2, <2>1
<1>4. ev # {} => Min(ev) = from + 1
    <2> SUFFICES ASSUME ev # {}
                 PROVE  Min(ev) = from + 1
        OBVIOUS
    <2>1. from + 1 \in ev /\ \A y \in ev : from + 1 <= y
        BY <1>1, <1>2
    <2>2. Min(ev) \in ev /\ \A y \in ev : Min(ev) <= y
        BY <2>1 DEF Min
    <2>3. Min(ev) <= from + 1 /\ from + 1 <= Min(ev) /\ Min(ev) \in Int
        BY <1>1, <1>2, <2>1, <2>2
    <2> QED
        BY <1>2, <2>3
<1>5. ev = {} <=> from = Len(h)
    <2>1. CASE from = Len(h)
        <3>1. \A k \in ev : FALSE
            BY <1>1, <2>1
        <3> QED
            BY <2>1, <3>1
    <2>2. CASE from # Len(h)
        <3>1. from + 1 \in ev
            BY <1>1, <1>2, <2>2
        <3> QED
            BY <2>2, <3>1
    <2> QED
        BY <2>1, <2>2
<1>6. \A k \in (from + 1)..Len(h) : h[k] \in Instance
    BY <1>1, <1>2, ElementOfSeq
<1>7. /\ t \in Seq(Instance)
      /\ Len(t) = IF from + 1 <= Len(h) THEN Len(h) - (from + 1) + 1 ELSE 0
      /\ \A k \in 1..(Len(h) - (from + 1) + 1) : t[k] = h[from + 1 + k - 1]
    BY <1>2, <1>6, SubSeqProperties
<1>8. Len(t) = Len(h) - from /\ \A k \in 1..(Len(h) - from) : t[k] = h[from + 1 + k - 1]
    BY <1>1, <1>2, <1>7
<1> HIDE DEF t
<1>9. e = [k \in 1..(Len(h) - from) |-> t[k]]
    <2>1. CASE ev = {}
        <3>1. 1..(Len(h) - from) = {}
            BY <1>1, <1>2, <1>5, <2>1
        <3> QED
            BY <1>3, <3>1
    <2>2. CASE ev # {}
        <3>1. \A k \in 1..(Len(h) - from) : h[Min(ev) + k - 1] = t[k]
            BY <1>4, <1>8, <2>2
        <3> QED
            BY <1>3, <3>1
    <2> QED
        BY <2>1, <2>2
<1>10. t = [k \in 1..(Len(h) - from) |-> t[k]]
    <2>1. DOMAIN t = 1..(Len(h) - from) /\ t \in [1..Len(t) -> Instance]
        BY <1>7, <1>8, LenProperties
    <2> QED
        BY <2>1
<1>11. e = t
    BY <1>9, <1>10
<1> HIDE DEF e
<1>12. SubSeq(h, 1, from) \o t = SubSeq(h, 1, Len(h))
    <2>1. 1 \in 1..Len(h) + 1 /\ from \in 1 - 1..Len(h) /\ Len(h) \in from..Len(h)
        BY <1>1, <1>2
    <2> QED
        BY <1>1, <2>1, ConcatAdjacentSubSeq DEF t
<1>13. SubSeq(h, 1, from) \o e = h
    BY <1>11, <1>12, WholePrefix
<1>14. from + Cardinality(ev) = Len(h)
    BY <1>1, <1>2, <1>3
<1> QED
    BY <1>5, <1>13, <1>14 DEF e, Events

LEMMA ReadKeepsInv ==
    ASSUME Inv, NEW i \in Instance, ReadAnswers(i)
    PROVE  Inv'
<1> DEFINE a == inst[i]
           from == a.snap
           events == Surviving(from)
           at == IF events = {} /\ from = 0 THEN "probe" ELSE "idle"
           st == a.state \o [k \in 1..Cardinality(events) |-> history[Min(events) + k - 1]]
           b == [a EXCEPT !.at = at, !.state = st, !.seq = from + Cardinality(events)]
<1>1. a \in Record /\ a.at = "read" /\ a.at # "down"
    BY DEF Inv, ReadAnswers
<1>2. UNCHANGED <<options, storeVars>> /\ UNCHANGED storeVars /\ Spends(options, options')
    BY InvBasics DEF ReadAnswers
<1>3. /\ from \in 0..Len(history) /\ a.state = SubSeq(history, 1, from)
      /\ deleted <= from
    BY <1>1 DEF Inv, Held, Undisturbed
<1>4. history \in State /\ Len(history) \in 0..MaxSeq /\ deleted \in Nat /\ Len(history) \in Nat
    BY InvBasics, PersistenceAssumption
<1>5. events = (from + 1)..Len(history)
    BY <1>3, <1>4 DEF Surviving
<1>6. CASE ~HistoryTrusted(from)
    <2>1. Stop(i, inst[i])
        BY <1>6 DEF ReadAnswers, RecoveryFails
    <2> QED
        BY <1>2, <2>1, StopKeepsInv
<1>7. CASE HistoryTrusted(from)
    <2>1. inst' = [inst EXCEPT ![i] = b] /\ owner' = owner
        BY <1>1, <1>7 DEF ReadAnswers, Record
    <2> HIDE DEF events
    <2>2. st = history /\ from + Cardinality(events) = Len(history) /\ (events = {} <=> from = Len(history))
        <3>1. st = SubSeq(history, 1, from) \o Events(history, events)
            BY <1>3 DEF Events
        <3> HIDE DEF st, from
        <3>2. /\ SubSeq(history, 1, from) \o Events(history, events) = history
              /\ from + Cardinality(events) = Len(history)
              /\ events = {} <=> from = Len(history)
            BY <1>3, <1>4, <1>5, ReplayedTail
        <3> QED
            BY <3>1, <3>2
    <2>3. at \in {"probe", "idle"} /\ at \in At /\ (at = "probe" => events = {} /\ from = 0)
        BY DEF At, Recovering
    <2> HIDE DEF st, at
    <2>4. b \in Record /\ b.at = at /\ b.state = history /\ b.seq = Len(history)
        BY <1>1, <1>4, <2>2, <2>3 DEF Record
    <2> HIDE DEF b
    <2>5. at = "probe" => history = <<>>
        <3>1. at = "probe" => Len(history) = 0
            BY <2>2, <2>3
        <3>2. Len(history) = 0 => history = <<>>
            BY <1>4, StateIsSeq, EmptySeq
        <3> QED
            BY <3>1, <3>2
    <2>6. Held(b, history, LoadLatest, options)
        <3>1. b.seq \in 0..Len(history) /\ b.state = SubSeq(history, 1, b.seq)
            BY <1>4, <2>4, WholePrefix
        <3> QED
            BY <2>3, <2>4, <2>5, <3>1 DEF Held, Persisting
    <2>7. Undisturbed(b, history, deleted, late)
        BY <2>3, <2>4, <2>5 DEF Undisturbed
    <2>8. owner' \in Instance \cup {NoOwner}
        BY <2>1, InvBasics
    <2> QED
        BY <1>1, <1>2, <2>1, <2>4, <2>6, <2>7, <2>8, QuietStep
<1> QED
    BY <1>6, <1>7

LEMMA ProbeKeepsInv ==
    ASSUME Inv, NEW i \in Instance, ProbeAnswers(i)
    PROVE  Inv'
<1> DEFINE b == [inst[i] EXCEPT !.at = "idle", !.seq = Len(history)]
<1>1. inst[i] \in Record /\ inst[i].at = "probe" /\ inst[i].at # "down"
    BY DEF Inv, ProbeAnswers
<1>2. history = <<>> /\ inst[i].state = <<>>
    BY <1>1 DEF Inv, Held, Undisturbed
<1>3. history \in State /\ Len(history) \in 0..MaxSeq /\ Len(history) \in Nat
    BY InvBasics, PersistenceAssumption
<1>4. inst' = [inst EXCEPT ![i] = b]
    BY <1>1 DEF ProbeAnswers, Record
<1>5. b \in Record /\ b.at = "idle" /\ b.seq = Len(history) /\ b.state = <<>>
    BY <1>1, <1>2, <1>3 DEF Record, At
<1> HIDE DEF b
<1>6. b.seq \in 0..Len(history) /\ b.state = SubSeq(history, 1, b.seq)
    <2>1. SubSeq(history, 1, Len(history)) = history
        BY <1>3, WholePrefix
    <2> QED
        BY <1>2, <1>3, <1>5, <2>1
<1>7. Held(b, history, LoadLatest, options)
    BY <1>5, <1>6 DEF Held, Persisting
<1>8. Undisturbed(b, history, deleted, late)
    BY <1>5 DEF Undisturbed
<1>9. UNCHANGED storeVars /\ Spends(options, options') /\ owner' \in Instance \cup {NoOwner}
    BY InvBasics DEF ProbeAnswers
<1> QED
    BY <1>1, <1>4, <1>5, <1>7, <1>8, <1>9, QuietStep

\* A failed load of an optional snapshot replays everything: nothing compacts, so
\* everything is there.
LEMMA RecoveryCallFailsKeepsInv ==
    ASSUME Inv, NEW i \in Instance, RecoveryCallFails(i)
    PROVE  Inv'
<1> DEFINE b == [inst[i] EXCEPT !.at = "read"]
<1>1. UNCHANGED storeVars /\ Spends(options, options')
    BY InvBasics, SpendsFault DEF RecoveryCallFails
<1>2. CASE inst[i].at = "load" /\ options.optional
    <2>1. inst' = [inst EXCEPT ![i].at = "read"] /\ owner' = owner
        BY <1>2 DEF RecoveryCallFails, Go
    <2>2. "read" \in At
        BY DEF At, Recovering
    <2>3. /\ inst' = [inst EXCEPT ![i] = b] /\ b \in Record /\ b.at = "read"
          /\ b.state = inst[i].state /\ b.snap = inst[i].snap
        BY <2>1, <2>2, Moved
    <2>4. inst[i].state = <<>> /\ inst[i].snap = 0
        BY <1>2 DEF Inv, Held
    <2>5. ~options.compacts
        BY <1>2 DEF Inv, OptionsInv, SoundDeployment
    <2>6. deleted = 0 /\ \A c \in late : c.op # "deleteEvents"
        BY <2>5 DEF Inv, StoreInv, SoundCall
    <2>7. history \in State /\ Len(history) \in 0..MaxSeq /\ SubSeq(history, 1, 0) = <<>>
        BY InvBasics, WholePrefix
    <2> HIDE DEF b
    <2>8. Held(b, history, LoadLatest, options)
        BY <2>3, <2>4, <2>7 DEF Held, Persisting
    <2>9. Undisturbed(b, history, deleted, late)
        BY <2>3, <2>4, <2>6 DEF Undisturbed
    <2>10. owner' \in Instance \cup {NoOwner} /\ inst[i].at # "down"
        BY <1>2, <2>1, InvBasics
    <2> QED
        BY <1>1, <2>3, <2>8, <2>9, <2>10, QuietStep
<1>3. CASE ~(inst[i].at = "load" /\ options.optional)
    <2>1. Stop(i, inst[i])
        BY <1>3 DEF RecoveryCallFails, RecoveryFails
    <2> QED
        BY <1>1, <2>1, StopKeepsInv
<1> QED
    BY <1>2, <1>3

-----------------------------------------------------------------------------
(* Commands.                                                                    *)

LEMMA PersistKeepsInv ==
    ASSUME Inv, NEW i \in Instance, Persist(i)
    PROVE  Inv'
<1>1. inst[i] \in Record /\ inst[i].at = "idle" /\ inst[i].at # "down"
    BY DEF Inv, Persist
<1>2. PICK n \in 1..MaxBatch :
          /\ Len(history) + n <= MaxSeq
          /\ inst' = [inst EXCEPT ![i].at = "append", ![i].batch = n]
    BY DEF Persist
<1> DEFINE b == [inst[i] EXCEPT !.at = "append", !.batch = n]
<1>3. inst' = [inst EXCEPT ![i] = b]
    BY <1>1, <1>2 DEF Record
<1>4. /\ b \in Record /\ b.at = "append" /\ b.batch = n
      /\ b.seq = inst[i].seq /\ b.state = inst[i].state
    <2>1. n \in 0..MaxBatch /\ "append" \in At
        BY PersistenceAssumption DEF At, Persisting
    <2> QED
        BY <1>1, <2>1 DEF Record
<1> HIDE DEF b
<1>5. inst[i].seq \in 0..Len(history) /\ inst[i].state = SubSeq(history, 1, inst[i].seq)
    BY <1>1 DEF Inv, Held
<1>6. Len(history) \in Nat
    BY InvBasics, PersistenceAssumption
<1>7. b.seq + b.batch <= MaxSeq
    BY <1>2, <1>4, <1>5, <1>6, PersistenceAssumption
<1>8. Held(b, history, LoadLatest, options)
    BY <1>4, <1>5, <1>7 DEF Held, Persisting
<1>9. Undisturbed(b, history, deleted, late)
    BY <1>4 DEF Undisturbed
<1>10. UNCHANGED storeVars /\ Spends(options, options') /\ owner' \in Instance \cup {NoOwner}
    BY InvBasics DEF Persist
<1> QED
    BY <1>1, <1>3, <1>4, <1>8, <1>9, <1>10, QuietStep

LEMMA CompactKeepsInv ==
    ASSUME Inv, NEW i \in Instance, Compact(i)
    PROVE  Inv'
<1> DEFINE b == [inst[i] EXCEPT !.at = "compactSave"]
<1>1. /\ inst[i].at = "idle" /\ inst[i].at # "down" /\ options.compacts /\ inst[i].seq > 0
      /\ inst' = [inst EXCEPT ![i].at = "compactSave"]
    BY DEF Compact, Go
<1>2. "compactSave" \in At
    BY DEF At, Persisting
<1>3. /\ inst' = [inst EXCEPT ![i] = b] /\ b \in Record /\ b.at = "compactSave"
      /\ b.state = inst[i].state /\ b.seq = inst[i].seq
    BY <1>1, <1>2, Moved
<1>4. inst[i].seq \in 0..Len(history) /\ inst[i].state = SubSeq(history, 1, inst[i].seq)
    BY <1>1 DEF Inv, Held
<1> HIDE DEF b
<1>5. Held(b, history, LoadLatest, options)
    BY <1>1, <1>3, <1>4 DEF Held, Persisting
<1>6. Undisturbed(b, history, deleted, late)
    BY <1>3 DEF Undisturbed
<1>7. UNCHANGED storeVars /\ Spends(options, options') /\ owner' \in Instance \cup {NoOwner}
    BY InvBasics DEF Compact
<1> QED
    BY <1>1, <1>3, <1>5, <1>6, <1>7, QuietStep

LEMMA StopsKeepInv ==
    ASSUME Inv, NEW i \in Instance, StopHandled(i) \/ PersistRefused(i)
    PROVE  Inv'
<1>1. Stop(i, inst[i]) /\ UNCHANGED storeVars /\ options' = options
    BY DEF StopHandled, PersistRefused
<1> QED
    BY <1>1, InvBasics, StopKeepsInv

LEMMA LeaseLapsesKeepsInv ==
    ASSUME Inv, LeaseLapses
    PROVE  Inv'
<1>1. UNCHANGED storeVars /\ Spends(options, options') /\ owner' \in Instance \cup {NoOwner}
    BY InvBasics, SpendsFault DEF LeaseLapses
<1>2. PICK i : i \in Instance
    BY InvBasics DEF LeaseLapses
<1>3. inst' = [inst EXCEPT ![i] = inst[i]] /\ inst[i] \in Record
    BY <1>2, InvBasics DEF LeaseLapses
<1>4. Held(inst[i], history, LoadLatest, options) /\ Undisturbed(inst[i], history, deleted, late)
    BY <1>2 DEF Inv
<1>5. inst[i].at = "down" \/ inst[i].at # "down"
    OBVIOUS
<1> QED
    BY <1>1, <1>2, <1>3, <1>4, <1>5, QuietStep

-----------------------------------------------------------------------------
(* Calls to the stores.                                                         *)

\* Executing a sound call keeps the invariant if the instances that move do so into
\* sound records, and if it disturbs no recovery.
LEMMA StoreStep ==
    ASSUME Inv, NEW c, SoundCall(c, history, LoadLatest, options),
           c.op = "append" /\ AppendAccepts(c) => Len(history) + c.count <= MaxSeq,
           Execute(c),
           options' = options, late' \subseteq late,
           owner' \in Instance \cup {NoOwner}, inst' \in [Instance -> Record],
           \A j \in Instance :
               \/ inst'[j] = inst[j]
               \/ /\ inst[j].at # "down" /\ inst'[j].at \notin {"check", "read", "probe"}
                  /\ Held(inst'[j], history', LoadLatest', options),
           c.op = "append" => \A j \in Instance : inst[j].at # "probe",
           c.op = "deleteEvents" =>
               \A j \in Instance : inst[j].at \in {"check", "read"} => c.to <= inst[j].snap
    PROVE  Inv'
<1>1. StoreInv /\ options.keepN \in Nat
    BY InvBasics DEF Inv, Deployment
<1>2. /\ Grows(history, history')
      /\ IsStore(snapshots', history')
      /\ LoadLatest \in Nat /\ LoadLatest' \in Nat /\ LoadLatest <= LoadLatest'
      /\ deleted' \in Nat /\ deleted' <= LoadLatest'
      /\ c.op # "deleteEvents" => deleted' = deleted
      /\ c.op = "deleteEvents" => deleted' = deleted \/ deleted' = c.to
      /\ ~options.compacts => deleted' = deleted
      /\ c.op # "append" => history' = history
    BY <1>1, ExecuteSound
<1>3. history' \in State /\ (history # <<>> => history' # <<>>)
    <2>1. history \in Seq(Instance) /\ history' \in Seq(Instance) /\ Len(history) <= Len(history')
        BY <1>2, StateIsSeq DEF Grows
    <2>2. history # <<>> => Len(history) \in Nat \ {0}
        BY <2>1, EmptySeq
    <2>3. Len(<<>>) = 0
        BY EmptySeq
    <2> QED
        BY <1>2, <2>1, <2>2, <2>3 DEF Grows
<1>4. OptionsInv'
    BY <1>3 DEF Inv, OptionsInv
<1>5. StoreInv'
    BY <1>1, <1>2, <1>3 DEF StoreInv
<1>6. \A d \in late' : SoundCall(d, history', LoadLatest', options')
    <2>1. \A d \in late : SoundCall(d, history, LoadLatest, options)
        BY DEF Inv
    <2>2. \A d \in late : SoundCall(d, history', LoadLatest', options)
        BY <1>2, <2>1, CallStaysSound
    <2> QED
        BY <2>2
<1>7. \A j \in Instance : Held(inst'[j], history', LoadLatest', options')
    <2>1. \A j \in Instance : inst[j] \in Record /\ Held(inst[j], history, LoadLatest, options)
        BY DEF Inv
    <2>2. \A j \in Instance : Held(inst[j], history', LoadLatest', options)
        BY <1>2, <2>1, HeldStays
    <2> QED
        BY <2>2
<1>8. \A j \in Instance : Undisturbed(inst'[j], history', deleted', late')
    <2> SUFFICES ASSUME NEW j \in Instance
                 PROVE  Undisturbed(inst'[j], history', deleted', late')
        OBVIOUS
    <2>1. CASE inst'[j] = inst[j]
        <3>1. Undisturbed(inst[j], history, deleted, late)
            BY DEF Inv
        <3>2. inst[j].at \in {"check", "read"} => deleted' <= inst[j].snap
            BY <1>2, <3>1 DEF Undisturbed
        <3>3. inst[j].at \in {"check", "read"} =>
                  \A d \in late' : d.op = "deleteEvents" => d.to <= inst[j].snap
            BY <3>1 DEF Undisturbed
        <3>4. inst[j].at = "probe" => history' = <<>>
            BY <1>2, <3>1 DEF Undisturbed
        <3> QED
            BY <2>1, <3>2, <3>3, <3>4 DEF Undisturbed
    <2>2. CASE inst'[j] # inst[j]
        BY <2>2 DEF Undisturbed
    <2> QED
        BY <2>1, <2>2
<1>9. OneAtATime'
    <2>1. \A j \in Instance : inst'[j].at # "down" => inst[j].at # "down"
        OBVIOUS
    <2> QED
        BY <2>1 DEF Inv, OneAtATime
<1> QED
    BY <1>4, <1>5, <1>6, <1>7, <1>8, <1>9 DEF Inv

\* Nobody recovers from the journal while another instance deletes from it, and
\* nobody probes it while another appends the first event.
LEMMA OwnCallDisturbsNobody ==
    ASSUME Inv, NEW i \in Instance, inst[i].at \in Persisting
    PROVE  /\ Call(i).op = "append" => \A j \in Instance : inst[j].at # "probe"
           /\ Call(i).op = "deleteEvents" =>
                  \A j \in Instance : inst[j].at \notin {"check", "read"}
<1>1. \A j \in Instance : options.writers = 1 /\ inst[j].at # "down" => j = i
    <2>1. inst[i].at # "down"
        BY DEF Persisting
    <2> QED
        BY <2>1 DEF Inv, OneAtATime
<1>2. ASSUME NEW j \in Instance, inst[j].at = "probe"
      PROVE  FALSE
    <2>1. history = <<>>
        BY <1>2 DEF Inv, Undisturbed
    <2>2. options.writers = 1
        BY <2>1 DEF Inv, OptionsInv, SoundDeployment
    <2>3. j = i
        BY <1>1, <1>2, <2>2
    <2> QED
        BY <1>2, <2>3 DEF Persisting
<1>3. ASSUME Call(i).op = "deleteEvents", NEW j \in Instance, inst[j].at \in {"check", "read"}
      PROVE  FALSE
    <2>1. options.compacts
        BY <1>3, AwaitedCallSound DEF SoundCall
    <2>2. options.writers = 1
        BY <2>1 DEF Inv, OptionsInv, SoundDeployment
    <2>3. j = i
        BY <1>1, <1>3, <2>2
    <2> QED
        BY <1>3, <2>3 DEF Persisting
<1> QED
    BY <1>2, <1>3

LEMMA LateCallKeepsInv ==
    ASSUME Inv, LateCallExecutes
    PROVE  Inv'
<1>1. PICK c \in late :
          /\ c.op = "append" => Len(history) + c.count <= MaxSeq
          /\ Execute(c)
          /\ late' = late \ {c}
          /\ UNCHANGED <<options, owner, inst>>
    BY DEF LateCallExecutes
<1>2. SoundCall(c, history, LoadLatest, options)
    BY DEF Inv
<1>3. \A j \in Instance : inst[j].at # "probe"
    BY DEF Inv, OptionsInv, Undisturbed
<1>4. c.op = "deleteEvents" =>
          \A j \in Instance : inst[j].at \in {"check", "read"} => c.to <= inst[j].snap
    BY DEF Inv, Undisturbed
<1>5. /\ options' = options /\ late' \subseteq late /\ inst' = inst
      /\ owner' \in Instance \cup {NoOwner} /\ inst' \in [Instance -> Record]
    BY <1>1, InvBasics
<1> QED
    BY <1>1, <1>2, <1>3, <1>4, <1>5, StoreStep

\* The conditional append is answered: accepted, it extends the very state it was
\* decided on.
LEMMA AppendKeepsInv ==
    ASSUME Inv, NEW i \in Instance, AppendAnswers(i)
    PROVE  Inv'
<1> DEFINE a == inst[i]
           c == Call(i)
<1>1. a \in Record /\ a.at = "append" /\ a.at \in Persisting /\ a.at # "down"
    BY DEF Inv, AppendAnswers, Persisting
<1>2. /\ SoundCall(c, history, LoadLatest, options)
      /\ c.op = "append" /\ c.by = i /\ c.count = a.batch /\ c.expected = a.seq
      /\ AppendAccepts(c) => Len(history) + c.count <= MaxSeq
      /\ \A j \in Instance : inst[j].at # "probe"
    BY <1>1, AwaitedCallSound, OwnCallDisturbsNobody
<1>3. /\ Execute(c) /\ options' = options /\ late' \subseteq late
    BY DEF AppendAnswers
<1>4. /\ a.seq \in 0..Len(history) /\ a.state = SubSeq(history, 1, a.seq)
      /\ a.batch \in 1..MaxBatch /\ a.seq + a.batch <= MaxSeq
    BY <1>1 DEF Inv, Held
<1>5. history \in State /\ Len(history) \in 0..MaxSeq /\ Len(history) \in Nat
    BY InvBasics, PersistenceAssumption
<1>6. CASE AppendAccepts(c)
    <2>1. Len(history) = a.seq /\ a.state = history
        BY <1>2, <1>4, <1>5, <1>6, WholePrefix DEF AppendAccepts
    <2>2. history' = Appended(history, c)
        BY <1>2, <1>3, <1>6 DEF Execute
    <2>3. PICK at \in {"save", "idle"} :
              inst' = [inst EXCEPT ![i].at = at, ![i].batch = 0, ![i].state = Appended(@, Call(i)),
                                   ![i].seq = @ + inst[i].batch]
        BY <1>6 DEF AppendAnswers
    <2> DEFINE b == [a EXCEPT !.at = at, !.batch = 0, !.state = Appended(history, c), !.seq = a.seq + a.batch]
    <2>4. inst' = [inst EXCEPT ![i] = b]
        <3>1. inst' = [inst EXCEPT ![i] = [a EXCEPT !.at = at, !.batch = 0,
                                             !.state = Appended(a.state, Call(i)), !.seq = a.seq + a.batch]]
            BY <1>1, <2>3 DEF Record
        <3> QED
            BY <2>1, <3>1
    <2>5. Grows(history, history') /\ Len(history') = a.seq + a.batch
        <3>1. c.by \in Instance /\ Len(history) + c.count <= MaxSeq
            BY <1>2, <1>6
        <3>2. a.batch \in Nat /\ c.count = a.batch
            BY <1>2, <1>4, PersistenceAssumption
        <3> QED
            BY <1>5, <2>1, <2>2, <3>1, <3>2, AppendedGrows
    <2>6. history' \in State /\ a.seq + a.batch \in 0..MaxSeq /\ a.seq + a.batch > 0
        BY <1>4, <1>5, <2>5, PersistenceAssumption DEF Grows
    <2>7. at \in At /\ 0 \in 0..MaxBatch
        BY PersistenceAssumption DEF At, Persisting
    <2> HIDE DEF c
    <2>8. b \in Record /\ b.at = at /\ b.state = history' /\ b.seq = Len(history')
        BY <1>1, <2>2, <2>5, <2>6, <2>7 DEF Record
    <2> HIDE DEF b
    <2>9. Held(b, history', LoadLatest', options)
        <3>1. b.seq \in 0..Len(history') /\ b.state = SubSeq(history', 1, b.seq)
            BY <2>6, <2>8, WholePrefix
        <3>2. b.seq > 0
            BY <2>5, <2>6, <2>8
        <3> QED
            BY <2>8, <3>1, <3>2 DEF Held, Persisting
    <2>10. owner' \in Instance \cup {NoOwner} /\ inst' \in [Instance -> Record]
        <3>1. owner' = owner
            BY <1>6 DEF AppendAnswers, c
        <3> QED
            BY <2>4, <2>8, <3>1, InvBasics
    <2>11. \A j \in Instance :
               \/ inst'[j] = inst[j]
               \/ /\ inst[j].at # "down" /\ inst'[j].at \notin {"check", "read", "probe"}
                  /\ Held(inst'[j], history', LoadLatest', options)
        <3>1. inst'[i] = b /\ \A j \in Instance : j # i => inst'[j] = inst[j]
            BY <2>4, InvBasics
        <3> QED
            BY <1>1, <2>8, <2>9, <3>1
    <2> QED
        BY <1>2, <1>3, <2>10, <2>11, StoreStep
<1>7. CASE ~AppendAccepts(c)
    <2>1. Stop(i, [inst[i] EXCEPT !.holder = FALSE])
        BY <1>7 DEF AppendAnswers
    <2>2. UNCHANGED storeVars
        BY <1>2, <1>7 DEF AppendAnswers, Execute, storeVars
    <2> QED
        BY <1>3, <2>1, <2>2, InvBasics, StopKeepsInv
<1> QED
    BY <1>6, <1>7

LEMMA StoreAnswersKeepsInv ==
    ASSUME Inv, NEW i \in Instance, StoreAnswers(i)
    PROVE  Inv'
<1> DEFINE a == inst[i]
           c == Call(i)
           at == AfterCall(a.at)
           b == [a EXCEPT !.at = at]
<1>1. a \in Record /\ a.at \in Persisting \ {"append"} /\ a.at \in Persisting /\ a.at # "down"
    BY DEF Inv, StoreAnswers, Persisting
<1>2. /\ SoundCall(c, history, LoadLatest, options)
      /\ c.op # "append"
      /\ c.op = "save" <=> a.at \in {"save", "compactSave"}
      /\ c.op = "save" => c.seq = a.seq
    BY <1>1, AwaitedCallSound
<1>3. c.op = "deleteEvents" =>
          \A j \in Instance : inst[j].at \in {"check", "read"} => c.to <= inst[j].snap
    BY <1>1, OwnCallDisturbsNobody
<1>4. Execute(c) /\ options' = options /\ late' \subseteq late /\ owner' \in Instance \cup {NoOwner}
    BY InvBasics DEF StoreAnswers
<1>5. at \in At /\ at \in {"idle", "deleteSnapshots", "deleteEvents"}
    BY DEF AfterCall, At, Persisting
<1>6. /\ at = "deleteSnapshots" => a.at = "compactSave"
      /\ at = "deleteEvents" => a.at = "deleteSnapshots"
    BY <1>1 DEF AfterCall
<1>7. Held(a, history, LoadLatest, options)
    BY DEF Inv
<1>8. /\ a.seq \in 0..Len(history) /\ a.state = SubSeq(history, 1, a.seq) /\ a.seq > 0
      /\ a.at \in {"compactSave", "deleteSnapshots"} => options.compacts
      /\ a.at = "deleteSnapshots" => a.seq <= LoadLatest
    BY <1>1, <1>7 DEF Held
<1>9. StoreInv /\ options.keepN \in Nat
    BY InvBasics DEF Inv, Deployment
<1>10. /\ history' = history
       /\ LoadLatest \in Nat /\ LoadLatest' \in Nat /\ LoadLatest <= LoadLatest'
       /\ c.op = "save" => c.seq <= LoadLatest'
    BY <1>2, <1>4, <1>9, ExecuteSound
<1>11. /\ inst' = [inst EXCEPT ![i] = b] /\ b \in Record /\ b.at = at
       /\ b.state = a.state /\ b.seq = a.seq
    <2>1. inst' = [inst EXCEPT ![i].at = at]
        BY DEF StoreAnswers, Go
    <2> HIDE DEF at
    <2> QED
        BY <1>5, <2>1, Moved
<1> HIDE DEF b, at
<1>12. at \in {"deleteSnapshots", "deleteEvents"} => a.seq <= LoadLatest'
    <2>1. CASE at = "deleteSnapshots"
        <3>1. a.at = "compactSave"
            BY <1>6, <2>1
        <3>2. c.op = "save" /\ c.seq = a.seq
            BY <1>2, <3>1
        <3> QED
            BY <1>10, <3>2
    <2>2. CASE at = "deleteEvents"
        <3>1. a.seq <= LoadLatest /\ a.seq \in Int
            BY <1>6, <1>8, <2>2
        <3> QED
            BY <1>10, <3>1
    <2> QED
        BY <2>1, <2>2
<1>13. Held(b, history', LoadLatest', options)
    BY <1>5, <1>6, <1>8, <1>10, <1>11, <1>12 DEF Held, Persisting
<1>14. inst' \in [Instance -> Record]
    BY <1>11, InvBasics
<1>15. \A j \in Instance :
           \/ inst'[j] = inst[j]
           \/ /\ inst[j].at # "down" /\ inst'[j].at \notin {"check", "read", "probe"}
              /\ Held(inst'[j], history', LoadLatest', options)
    <2>1. inst'[i] = b /\ \A j \in Instance : j # i => inst'[j] = inst[j]
        BY <1>11, InvBasics
    <2> QED
        BY <1>1, <1>5, <1>11, <1>13, <2>1
<1> HIDE DEF c
<1> QED
    BY <1>2, <1>3, <1>4, <1>14, <1>15, StoreStep

\* An instance gives up on its call, which the stores may yet execute.
LEMMA GiveUpKeepsInv ==
    ASSUME Inv, NEW i \in Instance, inst[i].at # "down",
           options.faults > 0 \/ options.crashes > 0, Spends(options, options'),
           UNCHANGED <<history, deleted, snapshots>>,
           late' = late \/ (inst[i].at \in Persisting /\ late' = late \cup {Call(i)}),
           owner' \in Instance \cup {NoOwner},
           NEW b \in Record, inst' = [inst EXCEPT ![i] = b], b.at \in {"down", "idle"},
           Held(b, history, LoadLatest, options)
    PROVE  Inv'
<1>1. history' = history /\ deleted' = deleted /\ snapshots' = snapshots /\ LoadLatest' = LoadLatest
    BY LatestIsNewest, LatestPrimeIsNewest
<1>2. SoundDeployment(options') /\ options.past # <<>>
    <2>1. SoundDeployment(options)
        BY DEF Inv, OptionsInv
    <2>2. options.past = <<>> => options.faults = 0 /\ options.crashes = 0
        BY <2>1 DEF SoundDeployment
    <2> QED
        BY <2>1, <2>2, StaysSoundDeployment
<1>3. /\ options'.past = options.past /\ options'.compacts = options.compacts
      /\ options'.writers = options.writers
    BY DEF Spends
<1>4. OptionsInv'
    BY <1>1, <1>2, <1>3 DEF Inv, OptionsInv
<1>5. StoreInv'
    BY <1>1, <1>3 DEF Inv, StoreInv
<1>6. \A c \in late' : SoundCall(c, history', LoadLatest', options')
    <2>1. \A c \in late' : SoundCall(c, history, LoadLatest, options)
        <3>1. \A c \in late : SoundCall(c, history, LoadLatest, options)
            BY DEF Inv
        <3>2. inst[i].at \in Persisting => SoundCall(Call(i), history, LoadLatest, options)
            BY AwaitedCallSound
        <3> QED
            BY <3>1, <3>2
    <2>2. \A c \in late' : SoundCall(c, history, LoadLatest, options')
        BY <1>3, <2>1 DEF SoundCall
    <2> QED
        BY <1>1, <2>2
<1>7. inst' \in [Instance -> Record] /\ inst'[i] = b /\ \A j \in Instance : j # i => inst'[j] = inst[j]
    BY DEF Inv
<1>8. \A j \in Instance : Held(inst'[j], history', LoadLatest', options')
    <2>1. \A j \in Instance : Held(inst'[j], history, LoadLatest, options)
        BY <1>7 DEF Inv
    <2>2. \A j \in Instance : Held(inst'[j], history, LoadLatest, options')
        BY <1>3, <2>1 DEF Held
    <2> QED
        BY <1>1, <2>2
<1>9. ASSUME NEW j \in Instance
      PROVE  Undisturbed(inst'[j], history', deleted', late')
    <2>1. CASE j = i
        BY <1>7, <2>1 DEF Undisturbed
    <2>2. CASE j # i
        <3>1. inst'[j] = inst[j] /\ Undisturbed(inst[j], history, deleted, late)
            BY <1>7, <2>2 DEF Inv
        <3>2. CASE late' = late
            BY <1>1, <3>1, <3>2
        <3>3. CASE inst[i].at \in Persisting /\ late' = late \cup {Call(i)}
            <4>1. Call(i).op = "deleteEvents" => inst[j].at \notin {"check", "read"}
                BY <3>3, OwnCallDisturbsNobody
            <4>2. inst[j].at \in {"check", "read"} =>
                      /\ deleted <= inst[j].snap
                      /\ \A c \in late' : c.op = "deleteEvents" => c.to <= inst[j].snap
                BY <3>1, <3>3, <4>1 DEF Undisturbed
            <4> QED
                BY <1>1, <3>1, <4>2 DEF Undisturbed
        <3> QED
            BY <3>2, <3>3
    <2> QED
        BY <2>1, <2>2
<1>10. OneAtATime'
    <2>1. \A j \in Instance : inst'[j].at # "down" => inst[j].at # "down"
        BY <1>7
    <2> QED
        BY <1>3, <2>1 DEF Inv, OneAtATime
<1> QED
    BY <1>4, <1>5, <1>6, <1>7, <1>8, <1>9, <1>10 DEF Inv

LEMMA CallFailsKeepsInv ==
    ASSUME Inv, NEW i \in Instance, CallFails(i)
    PROVE  Inv'
<1> DEFINE a == inst[i]
           b == [a EXCEPT !.at = "idle", !.batch = 0]
<1>1. /\ a \in Record /\ a.at \in Persisting /\ a.at # "down" /\ options.faults > 0
      /\ UNCHANGED <<history, deleted, snapshots>>
      /\ late' = late \/ (a.at \in Persisting /\ late' = late \cup {Call(i)})
    BY DEF Inv, CallFails, Persisting
<1>2. Spends(options, options')
    BY InvBasics, SpendsFault DEF CallFails
<1>3. CASE Stop(i, inst[i])
    <2>1. inst' = [inst EXCEPT ![i] = Down] /\ owner' \in Instance \cup {NoOwner}
        BY <1>3, InvBasics DEF Stop
    <2>2. Down \in Record /\ Down.at \in {"down", "idle"} /\ Held(Down, history, LoadLatest, options)
        BY DownIsRecord
    <2> QED
        BY <1>1, <1>2, <2>1, <2>2, GiveUpKeepsInv
<1>4. CASE inst' = [inst EXCEPT ![i].at = "idle", ![i].batch = 0] /\ UNCHANGED owner
    <2>1. inst' = [inst EXCEPT ![i] = b] /\ owner' \in Instance \cup {NoOwner}
        BY <1>1, <1>4, InvBasics DEF Record
    <2>2. "idle" \in At /\ 0 \in 0..MaxBatch
        BY PersistenceAssumption DEF At
    <2>3. b \in Record /\ b.at = "idle" /\ b.state = a.state /\ b.seq = a.seq
        BY <1>1, <2>2 DEF Record
    <2>4. a.seq \in 0..Len(history) /\ a.state = SubSeq(history, 1, a.seq)
        BY <1>1 DEF Inv, Held
    <2> HIDE DEF b
    <2>5. Held(b, history, LoadLatest, options)
        BY <2>3, <2>4 DEF Held, Persisting
    <2>6. b.at \in {"down", "idle"}
        BY <2>3
    <2> QED
        BY <1>1, <1>2, <2>1, <2>3, <2>5, <2>6, GiveUpKeepsInv
<1> QED
    BY <1>3, <1>4 DEF CallFails

LEMMA CrashKeepsInv ==
    ASSUME Inv, NEW i \in Instance, Crash(i)
    PROVE  Inv'
<1>1. /\ inst[i].at # "down" /\ options.crashes > 0
      /\ UNCHANGED <<history, deleted, snapshots>>
      /\ late' = late \/ (inst[i].at \in Persisting /\ late' = late \cup {Call(i)})
      /\ inst' = [inst EXCEPT ![i] = Down]
    BY DEF Crash, Live
<1>2. Spends(options, options') /\ owner' \in Instance \cup {NoOwner}
    BY InvBasics, SpendsCrash DEF Crash
<1>3. Down \in Record /\ Down.at \in {"down", "idle"} /\ Held(Down, history, LoadLatest, options)
    BY DownIsRecord
<1> QED
    BY <1>1, <1>2, <1>3, GiveUpKeepsInv

-----------------------------------------------------------------------------
(* The theorems.                                                                *)

\* The hypothesis of the theorems: every deployment considered is sound.
AllSound == \A s \in Scenarios : SoundDeployment(s)

LEMMA InitEstablishesInv ==
    ASSUME AllSound, Init
    PROVE  Inv
<1>1. /\ SoundDeployment(options) /\ history = options.past /\ late = {} /\ owner = NoOwner
      /\ deleted = 0 /\ snapshots = <<>> /\ inst = [i \in Instance |-> Down]
    BY DEF AllSound, Init
<1>2. history \in State
    BY <1>1 DEF SoundDeployment, Deployment
<1>3. IsStore(snapshots, history) /\ LoadLatest = 0
    BY <1>1 DEF IsStore, LoadLatest
<1>4. StoreInv
    BY <1>1, <1>2, <1>3 DEF StoreInv
<1>5. OptionsInv
    BY <1>1 DEF OptionsInv
<1>6. inst \in [Instance -> Record] /\ \A i \in Instance : inst[i] = Down
    BY <1>1, DownIsRecord
<1>7. OneAtATime
    BY <1>6, DownIsRecord DEF OneAtATime
<1>8. /\ \A i \in Instance : Held(inst[i], history, LoadLatest, options)
      /\ \A i \in Instance : Undisturbed(inst[i], history, deleted, late)
    BY <1>6, DownIsRecord
<1> QED
    BY <1>1, <1>4, <1>5, <1>6, <1>7, <1>8 DEF Inv

LEMMA NextKeepsInv ==
    ASSUME Inv, [Next]_vars
    PROVE  Inv'
<1>1. CASE LeaseLapses
    BY <1>1, LeaseLapsesKeepsInv
<1>2. CASE LateCallExecutes
    BY <1>2, LateCallKeepsInv
<1>3. ASSUME NEW i \in Instance,
             \/ Start(i) \/ AcquireAnswers(i) \/ LeaseLost(i) \/ StopHandled(i)
             \/ LoadAnswers(i) \/ CheckAnswers(i) \/ ReadAnswers(i) \/ ProbeAnswers(i)
             \/ RecoveryCallFails(i)
             \/ Persist(i) \/ PersistRefused(i) \/ Compact(i)
             \/ AppendAnswers(i) \/ StoreAnswers(i) \/ CallFails(i) \/ Crash(i)
      PROVE  Inv'
    <2>1. CASE Start(i)
        BY <2>1, StartKeepsInv
    <2>2. CASE AcquireAnswers(i)
        BY <2>2, AcquireKeepsInv
    <2>3. CASE LeaseLost(i)
        BY <2>3, LeaseLostKeepsInv
    <2>4. CASE StopHandled(i) \/ PersistRefused(i)
        BY <2>4, StopsKeepInv
    <2>5. CASE LoadAnswers(i)
        BY <2>5, LoadKeepsInv
    <2>6. CASE CheckAnswers(i)
        BY <2>6, CheckKeepsInv
    <2>7. CASE ReadAnswers(i)
        BY <2>7, ReadKeepsInv
    <2>8. CASE ProbeAnswers(i)
        BY <2>8, ProbeKeepsInv
    <2>9. CASE RecoveryCallFails(i)
        BY <2>9, RecoveryCallFailsKeepsInv
    <2>10. CASE Persist(i)
        BY <2>10, PersistKeepsInv
    <2>11. CASE Compact(i)
        BY <2>11, CompactKeepsInv
    <2>12. CASE AppendAnswers(i)
        BY <2>12, AppendKeepsInv
    <2>13. CASE StoreAnswers(i)
        BY <2>13, StoreAnswersKeepsInv
    <2>14. CASE CallFails(i)
        BY <2>14, CallFailsKeepsInv
    <2>15. CASE Crash(i)
        BY <2>15, CrashKeepsInv
    <2> QED
        BY <1>3, <2>1, <2>2, <2>3, <2>4, <2>5, <2>6, <2>7, <2>8, <2>9, <2>10, <2>11, <2>12, <2>13,
           <2>14, <2>15
<1>4. CASE UNCHANGED vars
    <2>1. /\ options' = options /\ history' = history /\ deleted' = deleted /\ snapshots' = snapshots
          /\ late' = late /\ owner' = owner /\ inst' = inst
        BY <1>4 DEF vars, storeVars
    <2>2. LoadLatest' = LoadLatest
        BY <2>1, LatestIsNewest, LatestPrimeIsNewest
    <2> QED
        BY <2>1, <2>2 DEF Inv, OptionsInv, StoreInv, OneAtATime
<1> QED
    BY <1>1, <1>2, <1>3, <1>4 DEF Next

LEMMA InvImpliesProperties ==
    ASSUME Inv
    PROVE  TypeOK /\ StateIsHistory /\ HistoryRebuildable
<1>1. /\ history \in State /\ Len(history) \in Nat /\ LoadLatest \in 0..Len(history)
      /\ IsStore(snapshots, history) /\ deleted \in Nat /\ deleted <= LoadLatest
    BY InvBasics, PersistenceAssumption
<1>2. TypeOK
    <2>1. deleted \in 0..Len(history)
        BY <1>1
    <2>2. DOMAIN snapshots \subseteq 1..Len(history)
        BY <1>1 DEF IsStore
    <2>3. \A s \in DOMAIN snapshots : snapshots[s] \in State
        <3>1. \A s \in DOMAIN snapshots : s \in 0..Len(history) /\ snapshots[s] = SubSeq(history, 1, s)
            BY <1>1 DEF IsStore
        <3> QED
            BY <1>1, <3>1, PrefixIsState
    <2> QED
        BY <1>1, <2>1, <2>2, <2>3 DEF Inv, TypeOK, Record, At
<1>3. StateIsHistory
    <2>1. \A i \in Instance : Held(inst[i], history, LoadLatest, options)
        BY DEF Inv
    <2>2. \A i \in Instance : Recovered(i) =>
              inst[i].seq \in 0..Len(history) /\ inst[i].state = SubSeq(history, 1, inst[i].seq)
        BY <2>1 DEF Held, Recovered
    <2> QED
        BY <1>1, <2>2 DEF StateIsHistory
<1>4. HistoryRebuildable
    <2>1. CASE LoadLatest = 0
        BY <1>1, <2>1, WholePrefix DEF HistoryRebuildable
    <2>2. CASE LoadLatest # 0
        <3>1. LoadLatest \in DOMAIN snapshots
            BY <1>1, <2>2, LatestIsNewest, NewestOfStore
        <3>2. snapshots[LoadLatest] = SubSeq(history, 1, LoadLatest)
            BY <1>1, <3>1 DEF IsStore
        <3> QED
            BY <1>1, <2>2, <3>2 DEF HistoryRebuildable
    <2> QED
        BY <2>1, <2>2
<1> QED
    BY <1>2, <1>3, <1>4

\* An executed call that changes the history is an accepted append of a batch
\* decided on exactly that history.
LEMMA ExecutedOnBase ==
    ASSUME Inv, NEW c, SoundCall(c, history, LoadLatest, options), Execute(c), history' # history
    PROVE  c.op = "append" /\ c.base = history /\ history' = Appended(history, c)
<1>1. c.op = "append" /\ AppendAccepts(c) /\ history' = Appended(history, c)
    BY DEF Execute
<1>2. c.base = SubSeq(history, 1, c.expected) /\ c.expected = Len(history)
    BY <1>1 DEF SoundCall, AppendAccepts
<1>3. history \in State
    BY InvBasics
<1> QED
    BY <1>1, <1>2, <1>3, WholePrefix

LEMMA NextDecidedOnHistory ==
    ASSUME Inv, Next, history' # history
    PROVE  \E call \in late \cup {Call(i) : i \in {j \in Instance : inst[j].at = "append"}} :
              /\ call.op = "append"
              /\ call.base = history
              /\ history' = Appended(history, call)
<1>1. CASE LateCallExecutes
    <2>1. PICK c \in late : Execute(c)
        BY <1>1 DEF LateCallExecutes
    <2>2. SoundCall(c, history, LoadLatest, options)
        BY DEF Inv
    <2> QED
        BY <2>1, <2>2, ExecutedOnBase
<1>2. ASSUME NEW i \in Instance, AppendAnswers(i) \/ StoreAnswers(i)
      PROVE  /\ inst[i].at = "append" /\ Call(i).op = "append" /\ Call(i).base = history
             /\ history' = Appended(history, Call(i))
    <2>1. inst[i].at \in Persisting /\ Execute(Call(i))
        BY <1>2 DEF AppendAnswers, StoreAnswers, Persisting
    <2>2. SoundCall(Call(i), history, LoadLatest, options) /\ (Call(i).op = "append" <=> inst[i].at = "append")
        BY <2>1, AwaitedCallSound
    <2> QED
        BY <2>1, <2>2, ExecutedOnBase
<1>3. ASSUME NEW i \in Instance,
             \/ Start(i) \/ AcquireAnswers(i) \/ LeaseLost(i) \/ StopHandled(i)
             \/ LoadAnswers(i) \/ CheckAnswers(i) \/ ReadAnswers(i) \/ ProbeAnswers(i)
             \/ RecoveryCallFails(i)
             \/ Persist(i) \/ PersistRefused(i) \/ Compact(i) \/ CallFails(i) \/ Crash(i)
      PROVE  FALSE
    BY <1>3 DEF Start, AcquireAnswers, LeaseLost, StopHandled, LoadAnswers, CheckAnswers, ReadAnswers,
                ProbeAnswers, RecoveryCallFails, Persist, PersistRefused, Compact, CallFails, Crash,
                storeVars
<1>4. CASE LeaseLapses
    BY <1>4 DEF LeaseLapses, storeVars
<1> QED
    BY <1>1, <1>2, <1>3, <1>4 DEF Next

\* For any number of instances, any batch, any number of faults and crashes, with
\* or without a lease, in every sound deployment:

\* every variable keeps its type (PersistentActor.ts, InMemoryJournal.ts).
THEOREM EntityTypes ==
    ASSUME AllSound
    PROVE  Spec => []TypeOK
<1>1. Init => Inv
    BY InitEstablishesInv
<1>2. Inv /\ [Next]_vars => Inv'
    BY NextKeepsInv
<1>3. Inv => TypeOK
    BY InvImpliesProperties
<1> QED
    BY <1>1, <1>2, <1>3, PTL DEF Spec

\* an instance that has recovered holds the fold of a prefix of the journal's
\* history, and lastSequenceNr is that prefix's length (replayIntoState, persistAll).
THEOREM RecoveredStateIsHistory ==
    ASSUME AllSound
    PROVE  Spec => []StateIsHistory
<1>1. Init => Inv
    BY InitEstablishesInv
<1>2. Inv /\ [Next]_vars => Inv'
    BY NextKeepsInv
<1>3. Inv => StateIsHistory
    BY InvImpliesProperties
<1> QED
    BY <1>1, <1>2, <1>3, PTL DEF Spec

\* the newest snapshot and the events after it rebuild the whole history, whichever
\* of the pieces of a compaction executed, and however late (deleteHistory).
THEOREM CompactionLosesNothing ==
    ASSUME AllSound
    PROVE  Spec => []HistoryRebuildable
<1>1. Init => Inv
    BY InitEstablishesInv
<1>2. Inv /\ [Next]_vars => Inv'
    BY NextKeepsInv
<1>3. Inv => HistoryRebuildable
    BY InvImpliesProperties
<1> QED
    BY <1>1, <1>2, <1>3, PTL DEF Spec

\* a batch enters the journal only on top of the very state its command was decided
\* on (the conditional append of persistAll).
THEOREM AppendsDecidedOnHistory ==
    ASSUME AllSound
    PROVE  Spec => DecidedOnHistory
<1>1. Init => Inv
    BY InitEstablishesInv
<1>2. Inv /\ [Next]_vars => Inv'
    BY NextKeepsInv
<1>3. Inv /\ [Next]_vars =>
          [history' # history =>
             \E call \in late \cup {Call(i) : i \in {j \in Instance : inst[j].at = "append"}} :
                /\ call.op = "append"
                /\ call.base = history
                /\ history' = Appended(history, call)]_vars
    <2> SUFFICES ASSUME Inv, Next, history' # history
                 PROVE  \E call \in late \cup {Call(i) : i \in {j \in Instance : inst[j].at = "append"}} :
                           /\ call.op = "append"
                           /\ call.base = history
                           /\ history' = Appended(history, call)
        OBVIOUS
    <2> QED
        BY NextDecidedOnHistory
<1> QED
    BY <1>1, <1>2, <1>3, PTL DEF Spec, DecidedOnHistory
=============================================================================
