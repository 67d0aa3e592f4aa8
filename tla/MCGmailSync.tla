---------------------------- MODULE MCGmailSync -----------------------------
(* Small sets for GmailSync.                                                *)
EXTENDS GmailSync, TLC

CONSTANTS w1, w2

TwoWorkers == {w1, w2}
WorkerSymmetry == Permutations(TwoWorkers)
=============================================================================
