-------------------------- MODULE MCPersistentActor --------------------------
(* Instances of PersistentActor for TLC.                                        *)
EXTENDS PersistentActor

CONSTANTS earlier, later

Scenario(past, lease, optional, compacts, keepN, writers, faults, crashes) ==
    [past |-> past, lease |-> lease, optional |-> optional, compacts |-> compacts,
     keepN |-> keepN, writers |-> writers, faults |-> faults, crashes |-> crashes]

\* A new entity; an entity that compacts, one instance at a time; and an entity
\* that does not, two instances at once.  Where something compacts, a snapshot
\* that cannot be loaded fails the recovery.
MCScenarios ==
    {Scenario(<<>>, FALSE, FALSE, TRUE, 0, 1, 0, 0)}
    \cup {Scenario(<<earlier>>, FALSE, FALSE, TRUE, keepN, 1, 2, 1) : keepN \in {0, 1}}
    \cup {Scenario(<<earlier>>, lease, TRUE, FALSE, 1, 2, 1, 1) : lease \in BOOLEAN}

ASSUME SoundScenarios == \A s \in MCScenarios : SoundDeployment(s)

\* A new entity, started on two hosts at once, and no faults at all.
MCNewEntity == {Scenario(<<>>, FALSE, FALSE, FALSE, 0, 2, 0, 0)}
=============================================================================
