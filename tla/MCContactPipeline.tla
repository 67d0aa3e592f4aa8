------------------------- MODULE MCContactPipeline --------------------------
EXTENDS ReplayStates

CONSTANTS c1, c2, c3

ThreeCalls == {c1, c2, c3}
Moments == 0..MaxTime

\* Park and its undo, and a correction downwards.
Doorways ==
    {[warmth |-> None, state |-> s] : s \in {"parked", "no_reply", "replied", "chat_done", "advocate"}}
    \union {[warmth |-> "cold", state |-> None]}
=============================================================================
