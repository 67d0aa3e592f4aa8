------------------------------ MODULE Mailbox -------------------------------
(***************************************************************************)
(* What live capture promises of one student's mail (the docstrings of      *)
(* capture/gmail_live.py): everything behind the cursor has been read, or a *)
(* historical pass is still owed, or it was passed over by a step that is   *)
(* named here.  How mail is listed, who lists it and what fails on the way  *)
(* is left to GmailSync.                                                    *)
(***************************************************************************)
EXTENDS Integers

VARIABLES
    sent,       \* messages in the mailbox, in order of their history
    seen,       \* messages whose findings were applied
    upto,       \* the cursor; everything up to it is behind
    owed,       \* a historical pass is queued or under way
    over,       \* messages passed over
    consents    \* consents the student has given

mvars == <<sent, seen, upto, owed, over, consents>>

Behind == 1..upto

Init == sent = 0 /\ seen = {} /\ upto = 0 /\ owed = TRUE /\ over = {} /\ consents = 0

Arrive == sent' = sent + 1 /\ UNCHANGED <<seen, upto, owed, over, consents>>

\* Applying what a message says moves no cursor.
Capture == \E m \in 1..sent : seen' = seen \cup {m} /\ UNCHANGED <<sent, upto, owed, over, consents>>

\* The cursor passes only messages that were read.
Advance == \E h \in upto..sent :
    /\ (upto + 1)..h \subseteq seen
    /\ upto' = h
    /\ UNCHANGED <<sent, seen, owed, over, consents>>

\* Google forgot the history: the cursor jumps and a pass is owed.
Reanchor == \E h \in upto..sent :
    /\ upto' = h
    /\ owed' = TRUE
    /\ UNCHANGED <<sent, seen, over, consents>>

\* A pass reads no further back than the newest touch allows.
Narrow ==
    /\ over \subseteq over'
    /\ \A m \in over' \ over : \E n \in seen : m < n
    /\ UNCHANGED <<sent, seen, upto, owed, consents>>

\* A pass ends; it speaks for the first consent only.
Settle ==
    /\ owed' = FALSE
    /\ over' = IF consents > 1 THEN over \cup (Behind \ seen) ELSE over
    /\ Behind \subseteq seen \cup over'
    /\ UNCHANGED <<sent, seen, upto, consents>>

Ask == consents' = consents + 1 /\ UNCHANGED <<sent, seen, upto, owed, over>>

\* A consent moves the cursor anywhere, and owes a pass unless one had ended.
Consent == \E h \in 0..sent :
    /\ upto' = h
    /\ \/ owed' = TRUE /\ over' = over
       \/ consents > 1 /\ owed' = FALSE /\ over' = over \cup (1..h \ seen)
    /\ UNCHANGED <<sent, seen, consents>>

Next == Arrive \/ Capture \/ Advance \/ Reanchor \/ Narrow \/ Settle \/ Ask \/ Consent

Spec == Init /\ [][Next]_mvars

(* Nothing behind the cursor is forgotten: it was read, was named as passed *)
(* over, or a historical pass is owed (sync_connection: "so a crash cannot  *)
(* acknowledge the gap without recording recovery").                        *)
NoGap == owed \/ Behind \subseteq seen \cup over
=============================================================================
