-------------------------- MODULE MCClusterSingleton --------------------------
(* Instances of ClusterSingleton for TLC.                                      *)
EXTENDS ClusterSingleton

\* Every node is a member of every view, up or not yet.
MCInitialViews == [Node -> [Node -> {"up", "other"}]]

Scenario(lease, restart, views, lost, timeouts, deaths, lapses) ==
    [options |-> [lease |-> lease, restart |-> restart],
     budget |-> [views |-> views, lost |-> lost, timeouts |-> timeouts,
                 deaths |-> deaths, lapses |-> lapses]]

\* With and without a lease: two changes of view, or one together with one fault.
MCScenarios ==
    UNION {{Scenario(lease, TRUE, 2, 0, 0, 0, 0), Scenario(lease, TRUE, 1, 1, 0, 0, 0),
            Scenario(lease, TRUE, 1, 0, 1, 0, 0), Scenario(lease, TRUE, 1, 0, 0, 1, 0)}
              : lease \in BOOLEAN}
    \cup {Scenario(TRUE, FALSE, 1, 0, 0, 1, 0), Scenario(TRUE, TRUE, 1, 0, 0, 0, 1)}

=============================================================================
