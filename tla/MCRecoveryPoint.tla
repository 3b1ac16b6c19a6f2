--------------------------- MODULE MCRecoveryPoint ---------------------------
(***************************************************************************)
(* Two rival backups without crashes; one backup that is retried after a   *)
(* crash, a lost answer or an edited repository; two restores into one     *)
(* claim; one restore that is interrupted, disturbed or deleted.           *)
(***************************************************************************)
EXTENDS RecoveryPoint

Scenario(bs, rs, modes, users, blips, crashes, edits, outside) ==
    [backups |-> bs, restores |-> rs, online |-> modes, users |-> users,
     blips |-> blips, crashes |-> crashes, edits |-> edits, outside |-> outside]

MCScenarios ==
    {Scenario({"b1", "b2"}, {}, {FALSE}, 0, 1, 0, 0, 0),
     Scenario({"b1"}, {}, BOOLEAN, 1, 0, 1, 0, 0),
     Scenario({"b1"}, {}, {TRUE}, 1, 1, 0, 0, 0),
     Scenario({"b1"}, {}, {FALSE}, 1, 1, 0, 1, 0),
     Scenario({}, {"r1", "r2"}, {FALSE}, 0, 0, 1, 0, 0),
     Scenario({}, {"r1", "r2"}, {FALSE}, 0, 0, 0, 0, 1),
     Scenario({}, {"r1"}, {FALSE}, 1, 0, 1, 0, 1),
     Scenario({}, {"r1"}, {FALSE}, 2, 1, 0, 0, 0)}

=============================================================================
