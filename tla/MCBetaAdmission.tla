-------------------------- MODULE MCBetaAdmission ---------------------------
(* Small sets for BetaAdmission.                                            *)
EXTENDS BetaAdmission, TLC

CONSTANTS a, b, c, r1, r2

MCEmails == {a, b, c}
MCRequests == {r1, r2}
Symmetric == Permutations(MCEmails) \cup Permutations(MCRequests)
=============================================================================
