---------------------------- MODULE ReplayStates ----------------------------
(***************************************************************************)
(* What the replay_states command computes: the state a contact's touches   *)
(* imply when they are read in the order of their moments.                  *)
(***************************************************************************)
EXTENDS ContactPipeline, FiniteSets

\* By ts, then by id.
Earlier(log, i) == {j \in 1..Len(log) : log[j].ts < log[i].ts \/ (log[j].ts = log[i].ts /\ j < i)}
InOrder(log) ==
    [k \in 1..Len(log) |-> log[CHOOSE i \in 1..Len(log) : Cardinality(Earlier(log, i)) = k - 1]]

\* The replay "mirrors apply_touch's ratchet exactly", plus the override.
Apply(r, e) == IF e.kind = "manual_override" THEN Overwrite(r, e) ELSE Ratchet(r, e)

\* The row after the first n of the touches read.
Replayed(read, n) ==
    LET after[k \in 0..n] ==
            IF k = 0 THEN [warmth |-> "cold", state |-> "no_reply"]
            ELSE Apply(after[k - 1], read[k])
    IN  after[n]

Replay(log) == Replayed(InOrder(log), Len(log))

\* The engine and the replay are two programs, and contacts are migrated by the
\* second: where the touches were recorded in the order of their moments, the
\* row is what they say when they are read again.  (A touch recorded late is
\* dropped whole by the engine, while the replay lets it ratchet warmth.)
ReplayAgrees ==
    (\A i, j \in DOMAIN touches : i < j => touches[i].ts <= touches[j].ts)
        => row = Replay(touches)
=============================================================================
