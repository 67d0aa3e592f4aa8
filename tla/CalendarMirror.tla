--------------------------- MODULE CalendarMirror ---------------------------
(***************************************************************************)
(* One meeting on a student's timeline, written by three hands: Google      *)
(* Calendar through capture/gcal_live.py, the mailbox through              *)
(* capture/gmail.py and the student's own taps (crm/today.py,               *)
(* crm/calendar_views.py).  A time is the statement that set it, a moment   *)
(* is doubled: mail i is sent at 2i, what happens after it is at 2i + 1.    *)
(* The window of a full read rolls with the day it is made on: an event may *)
(* come into it, or leave it, with no change at Google.                     *)
(***************************************************************************)
EXTENDS Integers, Sequences, FiniteSets

CONSTANTS
    MaxPasses,      \* bound: syncs at once, the cron's and the Sync button's
    MaxVersions,    \* bound: states the event goes through at Google
    MaxMail,        \* bound: messages about the meeting
    MaxGrants,      \* bound: consents given
    MaxTaps,        \* bound: taps of the student on the meeting's rows
    MaxRows,        \* bound: rows ever made for the meeting by mail and taps
    MaxFailures,    \* bound: failed or killed syncs, expired sync tokens and reconnects; at
                    \* the bound no grant is withdrawn and nothing is disconnected
    MaxEvents,      \* bound: versions, messages, taps and days together
    MaxDay,         \* bound: the last day
    PastDays,       \* GCAL_SYNC_PAST_DAYS
    FutureDays      \* GCAL_SYNC_FUTURE_DAYS

ASSUME MirrorAssumption ==
    {MaxPasses, MaxVersions, MaxMail, MaxGrants, MaxTaps, MaxRows, MaxFailures, MaxEvents} \subseteq Nat
ASSUME WindowAssumption == {MaxDay, PastDays, FutureDays} \subseteq Nat
ASSUME ConsentAssumption == MaxGrants > 0

VARIABLES
    today,          \* the day it is
    google,         \* the event's states so far: live or deleted, and on which day
    mail,           \* messages about it: [kind, thread]
    rows,           \* the student's CalendarEvents for the meeting, by primary key
    made,           \* the last primary key given
    conn,           \* the GoogleCalendarConnection; of the full read its token goes back to,
                    \* the version it read and the day of its window (history)
    dead,           \* grants up to this one are no longer honoured
    passes,         \* syncs under way: where each is and what it has read
    reader,         \* the mail pass: the message it applies, the row it loaded
    taps, failures  \* counters

mirrorVars == <<today, google, mail, rows, made, conn, dead, passes, reader, taps, failures>>

NoToken == -1                      \* sync_token ""
Version == Len(google)
Now == 2 * Len(mail) + 1

\* A row that says nothing yet.
Blank(source) ==
    [source |-> source, thread |-> 0, uid |-> FALSE, external |-> FALSE, starts |-> <<"none", 0>>,
     sent |-> 0, off |-> 0, stated |-> TRUE, ver |-> 0, lost |-> FALSE]
NoRow == Blank("none")
NotReading == [at |-> "idle", i |-> 0, pk |-> 0, copy |-> NoRow]

Room == Version + Len(mail) + taps + today < MaxEvents
Calm == conn.grant - 1 + failures < MaxFailures
Live(pk) == rows[pk].off = 0
\* The window of a read made on this day holds that one.
InWindow(day, read) == read - PastDays <= day /\ day <= read + FutureDays
StartsIn(starts, read) == starts[1] = "google" => InWindow(google[starts[2]].day, read)
Linked == {pk \in DOMAIN rows : rows[pk].external}
Identified == {pk \in DOMAIN rows : rows[pk].uid}
Put(pk, row) == [k \in DOMAIN rows \cup {pk} |-> IF k = pk THEN row ELSE rows[k]]

\* A connection that has not synced under this grant.
Granted(grant, status) == [grant |-> grant, status |-> status, token |-> NoToken, since |-> 0, day |-> 0]

MirrorInit ==
    /\ today = 0 /\ google = <<>> /\ mail = <<>>
    /\ rows = <<>> /\ made = 0
    /\ conn = Granted(1, "active") /\ dead = 0
    /\ passes = {}
    /\ reader = NotReading
    /\ taps = 0 /\ failures = 0

-----------------------------------------------------------------------------
(* The calendar, Google and the mailbox.                                   *)

\* Day 0 is the day the event is made: the days before it are left out.
NextDay ==
    /\ today < MaxDay /\ Room /\ Version > 0
    /\ today' = today + 1
    /\ UNCHANGED <<google, mail, rows, made, conn, dead, passes, reader, taps, failures>>

\* The event is made, moved, deleted or restored in Google Calendar.
Edit ==
    /\ Version < MaxVersions /\ Room
    /\ \E live \in BOOLEAN, day \in 0..MaxDay :
        /\ live \/ (Version > 0 /\ day = google[Version].day)
        /\ google' = Append(google, [live |-> live, day |-> day])
    /\ UNCHANGED <<today, mail, rows, made, conn, dead, passes, reader, taps, failures>>

Threads == {mail[i].thread : i \in 1..Len(mail)}

\* On a thread of before or a new one: an invite or a cancellation (.ics, with the UID), a time agreed or asked for in prose.
Send ==
    /\ Len(mail) < MaxMail /\ Room
    /\ \E kind \in {"invite", "cancel", "booked", "asked"}, t \in Threads \cup {Cardinality(Threads) + 1} :
        mail' = Append(mail, [kind |-> kind, thread |-> t])
    /\ UNCHANGED <<today, google, rows, made, conn, dead, passes, reader, taps, failures>>

-----------------------------------------------------------------------------
(* The connection.                                                         *)

\* What a sync holds is no longer the connection it read.
Overtaken(ps) == {[p EXCEPT !.fresh = FALSE] : p \in ps}

Connect ==
    /\ conn.grant < MaxGrants /\ Calm
    /\ conn' = Granted(conn.grant + 1, "active")
    /\ passes' = Overtaken(passes)
    /\ UNCHANGED <<today, google, mail, rows, made, dead, reader, taps, failures>>

\* Google withdraws every grant of the account; the rows learn it later or not at all.
Withdraw ==
    /\ dead < conn.grant /\ conn.grant < MaxGrants /\ Calm
    /\ dead' = conn.grant
    /\ UNCHANGED <<today, google, mail, rows, made, conn, passes, reader, taps, failures>>

Disconnect ==
    /\ conn.status # "none" /\ conn.grant < MaxGrants /\ Calm
    /\ conn' = Granted(conn.grant, "none")
    /\ passes' = Overtaken(passes)
    /\ UNCHANGED <<today, google, mail, rows, made, dead, reader, taps, failures>>

-----------------------------------------------------------------------------
(* sync_connection.  Network first, then one transaction.                  *)

\* A sync that starts now: the connection as it is, and it is active.  A full read takes the
\* window of this day to its end; changes are read behind the full read the token goes back to.
Begun == [at |-> "list", grant |-> conn.grant, token |-> conn.token, next |-> NoToken, event |-> 0,
          fresh |-> TRUE, since |-> conn.since, day |-> IF conn.token = NoToken THEN today ELSE conn.day]
Running ==
    passes \cup IF conn.status = "active" /\ Cardinality(passes) < MaxPasses THEN {Begun} ELSE {}

Honoured(p) == p.grant > dead
Read(p, at, next, event) ==
    [at |-> at, grant |-> p.grant, token |-> p.token, next |-> next, event |-> event, fresh |-> p.fresh,
     since |-> p.since, day |-> p.day]
\* What it reads from now on is no list of changes.
ReadAfresh(p, at, next, event, since, day) ==
    [at |-> at, grant |-> p.grant, token |-> NoToken, next |-> next, event |-> event, fresh |-> p.fresh,
     since |-> since, day |-> day]
Becomes(p, q) == passes' = (passes \ {p}) \cup {q}

\* RefreshError: only the grant that was refused is marked.
Refused(p) ==
    /\ p.at # "commit" /\ ~Honoured(p)
    /\ LET same == conn.grant = p.grant /\ conn.status # "none"
       IN  /\ conn' = IF same THEN [conn EXCEPT !.status = "revoked"] ELSE conn
           /\ passes' = IF same THEN Overtaken(passes \ {p}) ELSE passes \ {p}
    /\ UNCHANGED <<today, google, mail, rows, made, dead, reader, taps, failures>>

\* What changed since the token was issued, deletions included.
ListChanges(p) ==
    /\ p.at = "list" /\ p.token # NoToken /\ Honoured(p)
    /\ Becomes(p, Read(p, "commit", Version, IF Version > p.token THEN Version ELSE 0))
    /\ UNCHANGED <<today, google, mail, rows, made, conn, dead, reader, taps, failures>>

\* 410: the whole window is read again; the stored token is kept until the commit.
Expire(p) ==
    /\ p.at = "list" /\ p.token # NoToken /\ Honoured(p)
    /\ Calm /\ failures' = failures + 1
    /\ Becomes(p, ReadAfresh(p, "window", NoToken, 0, 0, today))
    /\ UNCHANGED <<today, google, mail, rows, made, conn, dead, reader, taps>>

\* Whether the window's list holds the event; Google may have forgotten a deleted one.
Listed(p) ==
    IF Version = 0 \/ ~InWindow(google[Version].day, p.day) THEN {FALSE}
    ELSE IF google[Version].live THEN {TRUE} ELSE BOOLEAN

ListWindow(p) ==
    /\ p.at \in {"list", "window"} /\ p.token = NoToken /\ Honoured(p)
    /\ \E listed \in Listed(p) :
        Becomes(p, ReadAfresh(p, "resolve", Version, IF listed THEN Version ELSE 0, Version, p.day))
    /\ UNCHANGED <<today, google, mail, rows, made, conn, dead, reader, taps, failures>>

MissingNone(p) == {}    \* mutant: the full read only adds

\* _reconcile_missing_events: rows of this window that the list does not hold.
Missing(p) ==
    {pk \in DOMAIN rows :
        /\ rows[pk].source = "gcal" /\ Live(pk) /\ rows[pk].external
        /\ StartsIn(rows[pk].starts, p.day) /\ p.event = 0}

\* Each is asked for by its id: as it is by now, or deleted.
Resolve(p) ==
    /\ p.at = "resolve" /\ Honoured(p)
    /\ Becomes(p, Read(p, "commit", p.next, IF Missing(p) # {} THEN Version ELSE p.event))
    /\ UNCHANGED <<today, google, mail, rows, made, conn, dead, reader, taps, failures>>

\* The row Google's event is, by its id and then by the meeting's UID.
Matched == IF Linked # {} THEN Linked ELSE Identified

\* The row as version v of the event, deleted or live, leaves it.
Gone(row, v) ==
    [source |-> row.source, thread |-> row.thread, uid |-> row.uid, external |-> TRUE,
     starts |-> row.starts, sent |-> row.sent, off |-> Now, stated |-> row.stated, ver |-> v,
     lost |-> FALSE]
Held(row, v) ==
    [source |-> row.source, thread |-> row.thread, uid |-> TRUE, external |-> TRUE,
     starts |-> <<"google", v>>, sent |-> row.sent, off |-> 0, stated |-> TRUE, ver |-> v,
     lost |-> FALSE]

\* _upsert_event for version v; title, place and notes are left out.
Upsert(v) ==
    IF ~google[v].live
    THEN /\ rows' = [pk \in DOMAIN rows |->
                        IF pk \in Matched /\ Live(pk) THEN Gone(rows[pk], v) ELSE rows[pk]]
         /\ made' = made
    ELSE IF Matched = {}
    THEN /\ made' = made + 1
         /\ rows' = Put(made', Held(Blank("gcal"), v))
    ELSE /\ rows' = [pk \in DOMAIN rows |->
                        IF pk \in Matched THEN Held(rows[pk], v) ELSE rows[pk]]
         /\ made' = made

SameGrant(p) == p.grant = conn.grant    \* mutant: only the consent is compared, not the last sync

\* The connection is as it was read, down to its last sync.
SameConnection(p) == p.fresh

Synced(p, token) == [grant |-> conn.grant, status |-> conn.status, token |-> token, since |-> p.since, day |-> p.day]

\* mutant: the cursor stored is the newest at the commit, not the one that came with the list
CommitNewest(p) ==
    /\ p.at = "commit" /\ SameConnection(p)
    /\ IF p.event = 0 THEN UNCHANGED <<rows, made>> ELSE Upsert(p.event)
    /\ conn' = Synced(p, Version)
    /\ passes' = Overtaken(passes \ {p})
    /\ UNCHANGED <<today, google, mail, dead, reader, taps, failures>>

Commit(p) ==
    /\ p.at = "commit" /\ SameConnection(p)
    /\ IF p.event = 0 THEN UNCHANGED <<rows, made>> ELSE Upsert(p.event)
    /\ conn' = Synced(p, p.next)
    /\ passes' = Overtaken(passes \ {p})
    /\ UNCHANGED <<today, google, mail, dead, reader, taps, failures>>

GiveUp(p) ==
    /\ p.at = "commit" /\ ~SameConnection(p)
    /\ passes' = passes \ {p}
    /\ UNCHANGED <<today, google, mail, rows, made, conn, dead, reader, taps, failures>>

\* Killed, or a call failed; nothing was written.
Fail(p) ==
    /\ p \in passes
    /\ Calm /\ failures' = failures + 1
    /\ passes' = passes \ {p}
    /\ UNCHANGED <<today, google, mail, rows, made, conn, dead, reader, taps>>

-----------------------------------------------------------------------------
(* The mail pass, under the mailbox lock: a row is loaded, then saved with  *)
(* the fields as loaded.  The window rolls, so any message comes again.     *)

Prose(i) == mail[i].kind \in {"booked", "asked"}

\* Of the rows one may look at, the meeting's UID first and the thread second.
Lookup(i, among) ==
    LET byUid == {pk \in among : rows[pk].uid /\ ~Prose(i)}
    IN  IF byUid # {} THEN byUid ELSE {pk \in among : rows[pk].thread = mail[i].thread}

\* The columns mail may write; Google's are left out.
Copy(row) ==
    [source |-> row.source, thread |-> row.thread, uid |-> row.uid, external |-> FALSE,
     starts |-> row.starts, sent |-> row.sent, off |-> row.off, stated |-> row.stated, ver |-> 0,
     lost |-> FALSE]

Loads(i, pk) ==
    reader' = [at |-> mail[i].kind, i |-> i, pk |-> pk,
               copy |-> IF pk = 0 THEN NoRow ELSE Copy(rows[pk])]

MayReviveGoogles(i, row) == 2 * i >= row.off          \* mutant: Google's rows too
MayReviveAnytime(i, row) == row.source # "gcal"       \* mutant: an invite of any age

\* A cancelled row hears only an invite as late as the cancellation, and never Google's own.
MayRevive(i, row) == row.source # "gcal" /\ 2 * i >= row.off

ReadInvite ==
    /\ reader.at = "idle"
    /\ \E i \in {k \in 1..Len(mail) : mail[k].kind # "cancel"} :
        LET found == Lookup(i, DOMAIN rows)
        IN  \/ found = {} /\ mail[i].kind # "asked" /\ Loads(i, 0)
            \/ \E pk \in found :
                /\ ~Prose(i) \/ ~rows[pk].stated
                /\ Live(pk) \/ MayRevive(i, rows[pk])
                /\ Loads(i, pk)
    /\ UNCHANGED <<today, google, mail, rows, made, conn, dead, passes, taps, failures>>

ReadCancel ==
    /\ reader.at = "idle"
    /\ \E i \in {k \in 1..Len(mail) : mail[k].kind = "cancel"} :
        \E pk \in Lookup(i, {k \in DOMAIN rows : rows[k].source = "capture" /\ Live(k)}) : Loads(i, pk)
    /\ UNCHANGED <<today, google, mail, rows, made, conn, dead, passes, taps, failures>>

Sent == 2 * reader.i
Thread == mail[reader.i].thread

\* The unique keys refuse: another row holds the thread or the UID.
Clash(row, others) ==
    \E pk \in others : \/ row.thread # 0 /\ rows[pk].thread = row.thread
                       \/ row.uid /\ rows[pk].uid

\* No row was found: _upsert_scheduled_chat makes one.
SaveNew ==
    /\ reader.at \in {"invite", "booked"} /\ reader.pk = 0
    /\ LET row == [source |-> "capture", thread |-> Thread, uid |-> ~Prose(reader.i), external |-> FALSE,
                   starts |-> <<"mail", reader.i>>, sent |-> Sent, off |-> 0,
                   stated |-> ~Prose(reader.i), ver |-> 0, lost |-> FALSE]
       IN  IF Clash(row, DOMAIN rows) THEN UNCHANGED <<rows, made>>
           ELSE /\ made < MaxRows /\ made' = made + 1
                /\ rows' = Put(made', row)
    /\ reader' = NotReading
    /\ UNCHANGED <<today, google, mail, conn, dead, passes, taps, failures>>

\* The invite speaks unless a newer statement set the time; a statement beats a reading.
Speaks(row) == (~Prose(reader.i) /\ ~row.stated) \/ row.sent = 0 \/ Sent >= row.sent

\* What the message makes of the row as loaded.
Rewritten(copy) ==
    LET owned == copy.source = "gcal"
        taken == ~owned /\ Speaks(copy)
    IN  [source |-> IF owned THEN "gcal" ELSE "capture",
         thread |-> IF owned \/ taken THEN Thread ELSE copy.thread,
         uid |-> copy.uid \/ ~Prose(reader.i), external |-> copy.external,
         starts |-> IF taken THEN <<"mail", reader.i>> ELSE copy.starts,
         sent |-> IF taken THEN Sent ELSE copy.sent, off |-> 0,
         stated |-> IF taken THEN ~Prose(reader.i) ELSE copy.stated,
         ver |-> copy.ver, lost |-> copy.lost]

\* Captured chats on this thread beside the row that was found.
Duplicates ==
    IF reader.copy.thread = Thread THEN {}
    ELSE {pk \in DOMAIN rows : rows[pk].thread = Thread /\ rows[pk].source = "capture"} \ {reader.pk}

\* Google's columns are not in update_fields; the others go back as loaded or changed.
Written(row) ==
    LET now == rows[reader.pk]
        stale == reader.copy.starts # now.starts \/ reader.copy.off # now.off
    IN  [source |-> row.source, thread |-> row.thread, uid |-> row.uid, external |-> now.external,
         starts |-> row.starts, sent |-> row.sent, off |-> row.off, stated |-> row.stated,
         ver |-> now.ver, lost |-> now.lost \/ stale]

Save ==
    /\ reader.at \in {"invite", "booked", "asked"} /\ reader.pk # 0
    /\ LET kept == DOMAIN rows \ Duplicates
           row == Rewritten(reader.copy)
           writes == /\ reader.pk \in kept
                     /\ row # reader.copy \/ Duplicates # {}
                     /\ ~Clash(row, kept \ {reader.pk})
       IN  rows' = [pk \in kept |-> IF writes /\ pk = reader.pk THEN Written(row) ELSE rows[pk]]
    /\ reader' = NotReading
    /\ UNCHANGED <<today, google, mail, made, conn, dead, passes, taps, failures>>

\* _retire_cancelled_chat: cancelled_at is when the cancellation was sent.
Retire ==
    /\ reader.at = "cancel"
    /\ rows' = [pk \in DOMAIN rows |->
                    IF pk = reader.pk THEN [rows[pk] EXCEPT !.off = Sent] ELSE rows[pk]]
    /\ reader' = NotReading
    /\ UNCHANGED <<today, google, mail, made, conn, dead, passes, taps, failures>>

-----------------------------------------------------------------------------
(* The student.                                                            *)

Tapped(row) ==
    [source |-> row.source, thread |-> row.thread, uid |-> row.uid, external |-> row.external,
     starts |-> <<"tap", taps'>>, sent |-> Now, off |-> row.off, stated |-> row.stated,
     ver |-> row.ver, lost |-> row.lost]

\* Today's Reschedule: the contact's live chat, or a new one beside what is off.
Reschedule ==
    /\ taps < MaxTaps /\ Room /\ taps' = taps + 1
    /\ LET chats == {pk \in DOMAIN rows : rows[pk].source # "gcal" /\ Live(pk)}
       IN  \/ \E pk \in chats :
                /\ rows' = [rows EXCEPT ![pk] = Tapped(rows[pk])]
                /\ made' = made
           \/ /\ chats = {} /\ made < MaxRows /\ made' = made + 1
              /\ rows' = Put(made', Tapped(Blank("manual")))
    /\ UNCHANGED <<today, google, mail, conn, dead, passes, reader, failures>>

\* calendar_delete: never a row Google stands behind.
Remove ==
    /\ taps < MaxTaps /\ Room /\ taps' = taps + 1
    /\ \E gone \in DOMAIN rows \ Linked :
        rows' = [pk \in DOMAIN rows \ {gone} |-> rows[pk]]
    /\ UNCHANGED <<today, google, mail, made, conn, dead, passes, reader, failures>>

-----------------------------------------------------------------------------
Pass(p) == Refused(p) \/ ListChanges(p) \/ ListWindow(p) \/ Resolve(p) \/ Commit(p) \/ GiveUp(p)

MirrorNext ==
    \/ NextDay \/ Edit \/ Send
    \/ Connect \/ Withdraw \/ Disconnect
    \/ \E p \in Running : Pass(p) \/ Expire(p) \/ Fail(p)
    \/ ReadInvite \/ ReadCancel \/ SaveNew \/ Save \/ Retire
    \/ Reschedule \/ Remove

\* The cron starts a sync every few minutes and what is started goes on to its end.
MirrorSpec ==
    /\ MirrorInit /\ [][MirrorNext]_mirrorVars
    /\ WF_mirrorVars(\E p \in Running : Pass(p))
    /\ WF_mirrorVars(\E p \in passes : Commit(p) \/ GiveUp(p))

-----------------------------------------------------------------------------
Source == {"capture", "gcal", "manual"}
Row == [source : Source, thread : 0..MaxMail, uid : BOOLEAN, external : BOOLEAN,
        starts : {"google", "mail", "tap"} \X Nat, sent : Nat, off : Nat,
        stated : BOOLEAN, ver : 0..MaxVersions, lost : BOOLEAN]

\* Every variable is well typed.
MirrorTypeOK ==
    /\ today \in 0..MaxDay
    /\ google \in Seq([live : BOOLEAN, day : 0..MaxDay]) /\ Version <= MaxVersions
    /\ mail \in Seq([kind : {"invite", "cancel", "booked", "asked"}, thread : 1..MaxMail]) /\ Len(mail) <= MaxMail
    /\ made \in 0..(MaxRows + 1) /\ DOMAIN rows \subseteq 1..made
    /\ \A pk \in DOMAIN rows : rows[pk] \in Row
    /\ conn \in [grant : 1..MaxGrants, status : {"none", "active", "revoked"}, token : NoToken..MaxVersions,
                since : 0..MaxVersions, day : 0..MaxDay]
    /\ dead \in 0..MaxGrants
    /\ passes \subseteq [at : {"window", "resolve", "commit"}, grant : 1..MaxGrants,
                         token : NoToken..MaxVersions, next : NoToken..MaxVersions,
                         event : 0..MaxVersions, fresh : BOOLEAN, since : 0..MaxVersions, day : 0..MaxDay]
    /\ IsFiniteSet(passes) /\ Cardinality(passes) <= MaxPasses
    /\ reader \in [at : {"idle", "invite", "cancel", "booked", "asked"}, i : 0..MaxMail,
                   pk : 0..made, copy : Row \cup {NoRow}]
    /\ taps \in 0..MaxTaps /\ failures \in 0..MaxFailures

\* A Google-owned row is the student's calendar restated: it shows the state of the event it
\* last took from Google, live at that time or cancelled as Google had it, whatever the mail
\* says and in whichever order mail and calendar came; unless a mail pass wrote its stale copy
\* of the row over Google's word, until the next change there.
MirrorHonest ==
    \A pk \in DOMAIN rows :
        LET row == rows[pk]
        IN  row.source = "gcal" /\ ~row.lost =>
            IF Live(pk) THEN google[row.ver].live /\ row.starts = <<"google", row.ver>>
            ELSE ~google[row.ver].live

\* The cursor has answered for the event as it was at that version: the full read it goes back to
\* had its day in the window, or the event has changed since that read.  (What has come into the
\* window by the days alone, with no change at Google, no list of changes names.)
Reached(version) == conn.token > conn.since \/ InWindow(google[version].day, conn.day)

\* A live row where Google put it, on a day the cursor has answered for.
Mirrored(pk) ==
    /\ rows[pk].source = "gcal" /\ Live(pk) /\ ~rows[pk].lost
    /\ rows[pk].starts[1] = "google" => Reached(rows[pk].starts[2])

\* Nothing that the stored cursor has answered for is missing: a mirrored row on a day it has
\* answered for is at least as new as the cursor, and an event it has answered for as live has its
\* row; across expired tokens, reconnects, moves in and out of a rolling window, kills and two
\* syncs at once.
CursorCovers ==
    conn.token > 0 =>
        /\ \A pk \in DOMAIN rows : Mirrored(pk) => rows[pk].ver >= conn.token
        /\ google[conn.token].live /\ Reached(conn.token) =>
              \E pk \in Linked : rows[pk].ver >= conn.token

\* No sync takes a row back to an older state of the event, nor the cursor of one grant back.
NeverBack ==
    [][/\ \A pk \in DOMAIN rows \cap DOMAIN rows' : rows'[pk].ver >= rows[pk].ver
       /\ conn'.grant = conn.grant /\ conn'.token # NoToken => conn'.token >= conn.token]_mirrorVars

\* A cancelled meeting comes back only by Google, which holds it live, by an invite at least as
\* late as the cancellation on a row that is not Google's, or by a mail pass that loaded the row
\* before it was cancelled; the original invite, read again and again, never revives it.
StaysOff ==
    [][\A pk \in DOMAIN rows \cap DOMAIN rows' :
          rows[pk].off # 0 /\ rows'[pk].off = 0 =>
              \/ rows'[pk].starts = <<"google", rows'[pk].ver>> /\ google[rows'[pk].ver].live /\ reader' = reader
              \/ Sent >= rows[pk].off /\ rows[pk].source # "gcal"
              \/ reader.copy.off # rows[pk].off]_mirrorVars

Current ==
    /\ conn.token = Version
    /\ Version > 0 /\ google[Version].live /\ Reached(Version) =>
          \E pk \in Linked :
              rows[pk].source = "gcal" /\ ~rows[pk].lost => Live(pk) /\ rows[pk].starts = <<"google", Version>>

\* While the connection stays good the cursor catches up with Google and the timeline with the
\* cursor, and they stay there, however often the syncs overtake each other.  An event that comes
\* into the window by the days alone waits for its next change, or for the next full read.
CaughtUp == <>[](conn.status = "active" /\ conn.grant > dead) => <>[]Current
=============================================================================
