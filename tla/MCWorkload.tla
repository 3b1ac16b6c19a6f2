----------------------------- MODULE MCWorkload -----------------------------
(***************************************************************************)
(* Small instances of the workload adapters: one session under a crash and *)
(* a change from outside, or two sessions of the same workload.            *)
(***************************************************************************)
EXTENDS WorkloadManager

CONSTANTS s1, s2

MCBudgets ==
    {[kinds |-> Scaled \cup Owned, sessions |-> {s1}, crashes |-> 1, outside |-> 1],
     [kinds |-> {"StatefulSet", "VictoriaLogs", "Grafana", "InstanceSet", "Cluster"},
      sessions |-> {s1, s2}, crashes |-> 0, outside |-> 0]}

=============================================================================
