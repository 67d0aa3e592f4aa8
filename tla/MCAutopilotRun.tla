--------------------------- MODULE MCAutopilotRun ---------------------------
EXTENDS AutopilotRun

CONSTANTS p1, p2, w1, w2

OnePerson == {p1}
TwoPeople == {p1, p2}
OneWorker == {w1}
TwoWorkers == {w1, w2}
=============================================================================
