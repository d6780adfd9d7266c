---------------------------- MODULE PersistentActor ----------------------------
(* Event sourcing (src/src/persistence/PersistentActor.ts, Replay.ts) of one    *)
(* persistence id over its journal and its snapshot store, by one or more       *)
(* instances of the entity that crash, restart and overlap.                     *)
(*                                                                              *)
(* A state is the sequence of the events folded into it, so that two states     *)
(* are equal only if the same events made them, in the same order.  An event is *)
(* named for the instance that persisted it.  A call to a store executes and    *)
(* answers in one step, fails without executing, or is given up on (the         *)
(* breaker's call-timeout, or a crash of the caller) and executes later or      *)
(* never.                                                                       *)
EXTENDS Naturals, Sequences, FiniteSets, FiniteSetsExt

CONSTANTS
    Instance,       \* the instances of the entity, one per host that may start it
    NoOwner,        \* the lease is free
    MaxSeq,         \* bound: the highest sequence number
    MaxBatch,       \* bound: events in one persistAll
    Scenarios       \* the deployments considered: [lease, optional, compacts, keepN] and
                    \* the bounds [writers, faults, crashes] of each, past being the
                    \* history the entity starts with

VARIABLES
    options,        \* the scenario; its faults, crashes are what remains of the bounds
    history,        \* every event the journal accepted: its length is highWater
    deleted,        \* the journal's stream starts after this sequence number
    snapshots,      \* the snapshot store: sequence number -> state
    late,           \* calls given up on that the stores have not executed
    owner,          \* the lease's record
    inst            \* the instances

storeVars == <<history, deleted, snapshots, late>>
vars == <<options, storeVars, owner, inst>>

ASSUME PersistenceAssumption ==
    /\ IsFiniteSet(Instance)
    /\ MaxSeq \in Nat /\ MaxBatch \in Nat

State == UNION {[1..n -> Instance] : n \in 0..MaxSeq}

Deployment ==
    [past : State, lease : BOOLEAN, optional : BOOLEAN, compacts : BOOLEAN,
     keepN : Nat, writers : Nat, faults : Nat, crashes : Nat]

\* The deployments recovery is sound in.  What deletes events has one instance at
\* a time and no optional snapshot: a replay that finds neither would take the
\* high-water mark for an empty history's.  An entity without events has one
\* instance and no call outstanding, for the same reason.
SoundDeployment(s) ==
    /\ s \in Deployment
    /\ s.compacts => s.writers = 1 /\ ~s.optional
    /\ s.past = <<>> => s.writers = 1 /\ s.faults = 0 /\ s.crashes = 0

\* What an instance awaits.
Recovering == {"acquire", "load", "check", "read", "probe"}
Persisting == {"append", "save", "compactSave", "deleteSnapshots", "deleteEvents"}

Down ==
    [at |-> "down", state |-> <<>>, seq |-> 0, snap |-> 0, batch |-> 0,
     holder |-> TRUE, stopping |-> FALSE]

Init ==
    /\ options \in Scenarios
    /\ history = options.past
    /\ deleted = 0 /\ snapshots = <<>> /\ late = {}
    /\ owner = NoOwner
    /\ inst = [i \in Instance |-> Down]

-----------------------------------------------------------------------------
(* The stores: InMemoryJournal and InMemorySnapshotStore.                       *)

\* Mutant: the append is refused only by a journal that is behind.
AppendAcceptsBehind(call) == Len(history) >= call.expected

\* append: conditional on the head the caller has folded.
AppendAccepts(call) == Len(history) = call.expected

Appended(h, call) == h \o [k \in 1..call.count |-> call.by]

\* The sequence numbers read(from + 1) returns.
Surviving(from) == {k \in 1..Len(history) : k > from /\ k > deleted}

\* keepN newest snapshots survive a save; 0 keeps them all.
Save(snaps, seq, state) ==
    LET all == DOMAIN snaps \cup {seq}
        kept == {s \in all : options.keepN = 0 \/ Cardinality({t \in all : t > s}) < options.keepN}
    IN  [s \in kept |-> IF s = seq THEN state ELSE snaps[s]]

DeleteSnapshots(snaps, to) == [s \in {s \in DOMAIN snaps : s > to} |-> snaps[s]]

\* Mutant: the delete takes the event after the bound too.
DeleteEventsOneMore(to) == IF to >= deleted THEN to + 1 ELSE deleted

DeleteEvents(to) == IF to > deleted THEN to ELSE deleted

\* The sequence number loadLatest answers with, 0 for none.
LoadLatest == IF snapshots = <<>> THEN 0 ELSE Max(DOMAIN snapshots)

\* One executed call.
Execute(call) ==
    /\ history' = IF call.op = "append" /\ AppendAccepts(call) THEN Appended(history, call) ELSE history
    /\ snapshots' = CASE call.op = "save" -> Save(snapshots, call.seq, call.state)
                      [] call.op = "deleteSnapshots" -> DeleteSnapshots(snapshots, call.to)
                      [] OTHER -> snapshots
    /\ deleted' = IF call.op = "deleteEvents" THEN DeleteEvents(call.to) ELSE deleted

\* Mutant: the compaction deletes the snapshot it compacts past (#629).
CallDeletesItsSnapshot(i) ==
    LET a == inst[i]
    IN  CASE a.at = "append" -> [op |-> "append", by |-> i, count |-> a.batch, expected |-> a.seq,
                                 base |-> a.state]
          [] a.at \in {"save", "compactSave"} -> [op |-> "save", seq |-> a.seq, state |-> a.state]
          [] a.at = "deleteSnapshots" -> [op |-> "deleteSnapshots", to |-> a.seq]
          [] a.at = "deleteEvents" -> [op |-> "deleteEvents", to |-> a.seq]

\* The call an instance awaits, if it is one that changes a store.
Call(i) ==
    LET a == inst[i]
    IN  CASE a.at = "append" -> [op |-> "append", by |-> i, count |-> a.batch, expected |-> a.seq,
                                 base |-> a.state]
          [] a.at \in {"save", "compactSave"} -> [op |-> "save", seq |-> a.seq, state |-> a.state]
          [] a.at = "deleteSnapshots" -> [op |-> "deleteSnapshots", to |-> a.seq - 1]
          [] a.at = "deleteEvents" -> [op |-> "deleteEvents", to |-> a.seq]

-----------------------------------------------------------------------------
(* Starting and stopping.                                                       *)

Live == {i \in Instance : inst[i].at # "down"}

Go(i, at) == inst' = [inst EXCEPT ![i].at = at]

\* postStop: the lease is released by an instance that believes it holds it.
\* A restart runs it too, through preRestart, and is this and a Start.
Stop(i, a) ==
    /\ inst' = [inst EXCEPT ![i] = Down]
    /\ owner' = IF options.lease /\ a.holder /\ owner = i THEN NoOwner ELSE owner

Start(i) ==
    /\ inst[i].at = "down"
    /\ Cardinality(Live) < options.writers
    /\ inst' = [inst EXCEPT ![i] = [Down EXCEPT !.at = IF options.lease THEN "acquire" ELSE "load"]]
    /\ UNCHANGED <<options, storeVars, owner>>

\* acquireLeaseIfConfigured: an instance that is refused the lease goes on to
\* recover all the same.
AcquireAnswers(i) ==
    /\ inst[i].at = "acquire"
    /\ LET got == owner \in {NoOwner, i}
       IN  /\ owner' = IF got THEN i ELSE owner
           /\ inst' = [inst EXCEPT ![i].at = "load", ![i].holder = got]
    /\ UNCHANGED <<options, storeVars>>

\* The lease expires, or is fenced, without its holder's knowing.
LeaseLapses ==
    /\ owner # NoOwner
    /\ options.faults > 0
    /\ options' = [options EXCEPT !.faults = @ - 1]
    /\ owner' = NoOwner
    /\ UNCHANGED <<storeVars, inst>>

\* The onLost callback, with the default onLeaseLost: the stop it asks for is
\* handled when the current command is done.
LeaseLost(i) ==
    /\ options.lease /\ inst[i].at \notin {"down", "acquire"}
    /\ inst[i].holder /\ owner # i
    /\ inst' = [inst EXCEPT ![i].holder = FALSE, ![i].stopping = TRUE]
    /\ UNCHANGED <<options, storeVars, owner>>

StopHandled(i) ==
    /\ inst[i].at = "idle" /\ inst[i].stopping
    /\ Stop(i, inst[i])
    /\ UNCHANGED <<options, storeVars>>

-----------------------------------------------------------------------------
(* Recovery: three store calls, with other instances' steps between them.       *)

\* onRecoveryFailure rethrows: supervision stops the actor or restarts it.
RecoveryFails(i) == Stop(i, inst[i])

LoadAnswers(i) ==
    /\ inst[i].at = "load"
    /\ inst' = [inst EXCEPT ![i].at = IF LoadLatest = 0 THEN "read" ELSE "check",
                            ![i].snap = LoadLatest,
                            ![i].state = IF LoadLatest = 0 THEN <<>> ELSE snapshots[LoadLatest]]
    /\ UNCHANGED <<options, storeVars, owner>>

\* assertTrustworthySnapshot.
SnapshotTrusted(seq) == Len(history) > 0 => seq <= Len(history)

CheckAnswers(i) ==
    /\ inst[i].at = "check"
    /\ IF SnapshotTrusted(inst[i].snap)
       THEN Go(i, "read") /\ UNCHANGED owner
       ELSE RecoveryFails(i)
    /\ UNCHANGED <<options, storeVars>>

\* assertTrustworthyHistory: the events returned follow the snapshot without a gap.
HistoryTrusted(from) == Surviving(from) # {} => Surviving(from) = (from + 1)..Len(history)

\* Mutant: the replay applies the snapshot's last event again.
ReadAnswersInclusive(i) ==
    LET from == inst[i].snap
        events == Surviving(IF from = 0 THEN 0 ELSE from - 1)
    IN  /\ inst[i].at = "read"
        /\ IF ~HistoryTrusted(from)
           THEN RecoveryFails(i)
           ELSE /\ inst' = [inst EXCEPT
                       ![i].at = IF events = {} /\ from = 0 THEN "probe" ELSE "idle",
                       ![i].state = @ \o [k \in 1..Cardinality(events) |-> history[Min(events) + k - 1]],
                       ![i].seq = from + Cardinality(events)]
                /\ UNCHANGED owner
        /\ UNCHANGED <<options, storeVars>>

\* readReplayHistory and foldReplayHistory.  Only a replay that found nothing at
\* all asks the journal for its high-water mark.
ReadAnswers(i) ==
    LET from == inst[i].snap
        events == Surviving(from)
    IN  /\ inst[i].at = "read"
        /\ IF ~HistoryTrusted(from)
           THEN RecoveryFails(i)
           ELSE /\ inst' = [inst EXCEPT
                       ![i].at = IF events = {} /\ from = 0 THEN "probe" ELSE "idle",
                       ![i].state = @ \o [k \in 1..Cardinality(events) |-> history[Min(events) + k - 1]],
                       ![i].seq = from + Cardinality(events)]
                /\ UNCHANGED owner
        /\ UNCHANGED <<options, storeVars>>

ProbeAnswers(i) ==
    /\ inst[i].at = "probe"
    /\ inst' = [inst EXCEPT ![i].at = "idle", ![i].seq = Len(history)]
    /\ UNCHANGED <<options, storeVars, owner>>

\* A read of a store fails, or recovery-timeout passes.  snapshotIsOptional turns
\* a failed load into a full replay.
RecoveryCallFails(i) ==
    /\ inst[i].at \in Recovering
    /\ options.faults > 0
    /\ options' = [options EXCEPT !.faults = @ - 1]
    /\ IF inst[i].at = "load" /\ options.optional
       THEN Go(i, "read") /\ UNCHANGED owner
       ELSE RecoveryFails(i)
    /\ UNCHANGED storeVars

-----------------------------------------------------------------------------
(* Commands.  onReceive stashes them while the instance recovers or persists.   *)

\* A command that persists a batch.  A non-holder's persistAll throws, and so
\* does its handler: supervision restarts the actor or resumes it.
Persist(i) ==
    /\ inst[i].at = "idle" /\ ~inst[i].stopping
    /\ inst[i].holder
    /\ \E n \in 1..MaxBatch :
          /\ Len(history) + n <= MaxSeq
          /\ inst' = [inst EXCEPT ![i].at = "append", ![i].batch = n]
    /\ UNCHANGED <<options, storeVars, owner>>

PersistRefused(i) ==
    /\ inst[i].at = "idle" /\ ~inst[i].stopping
    /\ ~inst[i].holder
    /\ Stop(i, inst[i])
    /\ UNCHANGED <<options, storeVars>>

\* A command that compacts: saveSnapshot(), then deleteHistory() to its number.
Compact(i) ==
    /\ inst[i].at = "idle" /\ ~inst[i].stopping
    /\ options.compacts
    /\ inst[i].seq > 0
    /\ Go(i, "compactSave")
    /\ UNCHANGED <<options, storeVars, owner>>

\* The append is answered.  The batch is folded into the state, and the snapshot
\* policy may ask for a snapshot.  A lost conditional append stops the instance
\* (onSecondWriterDetected), which no longer calls itself the holder.
AppendAnswers(i) ==
    /\ inst[i].at = "append"
    /\ Execute(Call(i))
    /\ IF AppendAccepts(Call(i))
       THEN /\ \E at \in {"save", "idle"} :
                 inst' = [inst EXCEPT ![i].at = at, ![i].batch = 0,
                                      ![i].state = Appended(@, Call(i)),
                                      ![i].seq = @ + inst[i].batch]
            /\ UNCHANGED owner
       ELSE Stop(i, [inst[i] EXCEPT !.holder = FALSE])
    /\ UNCHANGED <<options, late>>

AfterCall(at) ==
    CASE at = "compactSave" -> "deleteSnapshots"
      [] at = "deleteSnapshots" -> "deleteEvents"
      [] OTHER -> "idle"

StoreAnswers(i) ==
    /\ inst[i].at \in Persisting \ {"append"}
    /\ Execute(Call(i))
    /\ Go(i, AfterCall(inst[i].at))
    /\ UNCHANGED <<options, late, owner>>

\* The call rejects: the store refused it, or the breaker stopped waiting for it
\* and it may still execute.  The command fails, and the supervisor restarts the
\* actor or resumes it with the state it has.
CallFails(i) ==
    /\ inst[i].at \in Persisting
    /\ options.faults > 0
    /\ options' = [options EXCEPT !.faults = @ - 1]
    /\ late' \in {late, late \cup {Call(i)}}
    /\ \/ Stop(i, inst[i])
       \/ inst' = [inst EXCEPT ![i].at = "idle", ![i].batch = 0] /\ UNCHANGED owner
    /\ UNCHANGED <<history, deleted, snapshots>>

\* The host dies: the lease stays taken until it lapses, and the call on the wire
\* may still arrive.
Crash(i) ==
    /\ i \in Live
    /\ options.crashes > 0
    /\ options' = [options EXCEPT !.crashes = @ - 1]
    /\ late' \in IF inst[i].at \in Persisting THEN {late, late \cup {Call(i)}} ELSE {late}
    /\ inst' = [inst EXCEPT ![i] = Down]
    /\ UNCHANGED <<history, deleted, snapshots, owner>>

LateCallExecutes ==
    \E call \in late :
       /\ call.op = "append" => Len(history) + call.count <= MaxSeq
       /\ Execute(call)
       /\ late' = late \ {call}
       /\ UNCHANGED <<options, owner, inst>>

Next ==
    \/ LeaseLapses
    \/ LateCallExecutes
    \/ \E i \in Instance :
          \/ Start(i) \/ AcquireAnswers(i) \/ LeaseLost(i) \/ StopHandled(i)
          \/ LoadAnswers(i) \/ CheckAnswers(i) \/ ReadAnswers(i) \/ ProbeAnswers(i)
          \/ RecoveryCallFails(i)
          \/ Persist(i) \/ PersistRefused(i) \/ Compact(i)
          \/ AppendAnswers(i) \/ StoreAnswers(i) \/ CallFails(i) \/ Crash(i)

Spec == Init /\ [][Next]_vars

-----------------------------------------------------------------------------

TypeOK ==
    /\ history \in State
    /\ deleted \in 0..Len(history)
    /\ DOMAIN snapshots \subseteq 1..Len(history)
    /\ \A s \in DOMAIN snapshots : snapshots[s] \in State
    /\ owner \in Instance \cup {NoOwner}
    /\ inst \in [Instance -> [at : Recovering \cup Persisting \cup {"down", "idle"},
                             state : State, seq : 0..MaxSeq, snap : 0..MaxSeq,
                             batch : 0..MaxBatch, holder : BOOLEAN, stopping : BOOLEAN]]

Recovered(i) == inst[i].at \in Persisting \cup {"idle"}

\* An instance that has recovered holds a state that existed: the fold of the
\* journal's first lastSequenceNr events, all of them and nothing else
\* (replayIntoState, persistAll).
StateIsHistory ==
    \A i \in Instance : Recovered(i) =>
        /\ inst[i].seq <= Len(history)
        /\ inst[i].state = SubSeq(history, 1, inst[i].seq)

\* Compaction, in whatever pieces its deletes execute, leaves the whole history
\* rebuildable: the newest snapshot and the surviving events after it give back
\* every event the journal ever accepted (saveSnapshotNow, deleteHistory).
HistoryRebuildable ==
    LET base == IF LoadLatest = 0 THEN <<>> ELSE snapshots[LoadLatest]
    IN  /\ base = SubSeq(history, 1, LoadLatest)
        /\ deleted <= LoadLatest

\* However many instances write, and however late a call they gave up on
\* executes, a batch enters the journal only on top of the very state its command
\* was decided on (the conditional append of persistAll).
DecidedOnHistory ==
    [][history' # history =>
         \E call \in late \cup {Call(i) : i \in {j \in Instance : inst[j].at = "append"}} :
            /\ call.op = "append"
            /\ call.base = history
            /\ history' = Appended(history, call)]_vars
=============================================================================
