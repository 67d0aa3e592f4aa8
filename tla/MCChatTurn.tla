---------------------------- MODULE MCChatTurn ------------------------------
EXTENDS ChatTurn, TLC

CONSTANTS t1, t2

TwoTurns == {t1, t2}

\* The turns are interchangeable (used for safety only).
Symmetry == Permutations(Turns)
=============================================================================
