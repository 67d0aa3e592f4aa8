---------------------------- MODULE MCDirectory -----------------------------
EXTENDS Directory

CONSTANTS b1, b2, d1, d2

TwoBoards == {b1, b2}
TwoDates == {d1, d2}
=============================================================================
