----------------------------- MODULE MCMembership -----------------------------
(* Instances of Membership for TLC.                                             *)
EXTENDS Membership

Scenario(hosts, up, minimum, weakly, autoDown, starts, losses, suspicions, departures, crashes) ==
    [up |-> up,
     options |-> [hosts |-> hosts, minimum |-> minimum, weakly |-> weakly, autoDown |-> autoDown],
     budget |-> [starts |-> starts, losses |-> losses, suspicions |-> suspicions,
                 leaves |-> departures, crashes |-> crashes]]

\* Two nodes from a cold start, with a lost frame, a suspicion or a restart; two
\* that suspect each other; three nodes of which one joins through a lost frame, is
\* suspected, crashes or leaves.
MCScenarios ==
    {Scenario(1..2, {}, minimum, TRUE, FALSE, 3, 1, 0, 1, 0) : minimum \in 1..2}
    \cup {Scenario(1..2, {}, 1, TRUE, autoDown, 3, 1, 0, 0, 1) : autoDown \in BOOLEAN}
    \cup {Scenario(1..2, {}, 2, TRUE, autoDown, 2, 1, 1, 0, 0) : autoDown \in BOOLEAN}
    \cup {Scenario(1..2, 1..2, 1, FALSE, autoDown, 0, 0, 2, 0, 0) : autoDown \in BOOLEAN}
    \cup {Scenario(1..3, 1..2, 1, TRUE, FALSE, 1, 1, 0, 0, 0)}
    \cup {Scenario(1..3, 1..3, 1, FALSE, autoDown, 0, 0, 1, 0, 0) : autoDown \in BOOLEAN}
    \cup {Scenario(1..3, 1..3, 1, FALSE, autoDown, 0, 0, 0, 0, 1) : autoDown \in BOOLEAN}
    \cup {Scenario(1..3, 1..3, 1, FALSE, FALSE, 0, 0, 0, 1, 0)}

=============================================================================
