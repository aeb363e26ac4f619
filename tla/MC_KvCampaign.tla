--------------------------- MODULE MC_KvCampaign ----------------------------
(* Instances of KvCampaign for TLC.                                        *)
EXTENDS KvCampaign

CONSTANTS k1, k2, r1, r2

Job(batches, key, rev, dry, approved) ==
    [seqs |-> <<3>>, batches |-> batches, key |-> key, rev |-> rev,
     dry |-> dry, approved |-> approved]

\* A smoke cell, one with its own n_samples, the grid, the grid without approval, a
\* grid with the same cell twice, and the dry run.
JobsMC ==
    {Job(<<1>>, k1, r1, FALSE, FALSE),
     Job(<<1>>, k2, r1, FALSE, FALSE),
     Job(<<1, 2>>, k1, r1, FALSE, TRUE),
     Job(<<1, 2>>, k1, r1, FALSE, FALSE),
     Job(<<1, 1>>, k1, r1, FALSE, TRUE),
     Job(<<1, 2>>, k1, r1, TRUE, FALSE)}

\* The revision moves between two launches.
JobsMoved ==
    {Job(<<1>>, k1, r1, FALSE, FALSE), Job(<<1, 2>>, k1, r2, FALSE, TRUE)}

\* The same bytes per token from a config with KV heads and one without.
ConfigsMC ==
    [r \in {r1, r2} |->
        IF r = r1
        THEN [layers |-> 1, heads |-> 2, kvHeads |-> 1, hidden |-> 2, width |-> 1]
        ELSE [layers |-> 1, heads |-> 1, kvHeads |-> 0, hidden |-> 1, width |-> 1]]
=============================================================================
