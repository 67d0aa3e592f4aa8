----------------------------- MODULE MCCadence -----------------------------
EXTENDS Cadence

MCTimes == (FirstDay - Lag)..(LastDay + Lag)
MCOverrides == {[warmth |-> None, state |-> s] : s \in {"no_reply"}}

=============================================================================
