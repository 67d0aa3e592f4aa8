# Networkly: TLA+ models and proofs

Networkly is a Django and PostgreSQL application in which a student tracks
opportunities, contacts and conversations, with a metered chat assistant, a Gmail
connection, and an automatic pass ("Autopilot") over the contacts found in mail.
This directory holds TLA+ specifications of the parts where requests, cron jobs and
outside services write the same rows at once, the TLC configurations that check them,
and TLAPS proofs of their main properties.

All paths below are relative to `src/`; `web` is `networkly_web`.

1. [The system](#1-the-system)
2. [Modules](#2-modules)
3. [Runs](#3-runs)
4. [Proofs](#4-proofs)
5. [Where code and documentation disagree](#5-where-code-and-documentation-disagree)
6. [Abstractions and what is not modelled](#6-abstractions-and-what-is-not-modelled)
7. [Plan](#7-plan)

## 1. The system

### Concurrency

Web requests run in several processes; some stream for minutes. Ten cron services
and one long-running worker (`render.yaml`) run management commands beside them:
Gmail backfill and Autopilot every five minutes, the chat recovery job every ten, the
scrape every six hours, trials, alerts, digests and backups daily. Stripe and Google
call in. Everybody shares one PostgreSQL database at READ COMMITTED. Django's
`ATOMIC_REQUESTS` is off: outside an explicit `transaction.atomic()` every ORM call
commits by itself, so a request is a sequence of transactions that may be interleaved
with anything and cut off anywhere. The code protects itself with four devices, and
the models keep exactly these:

- `select_for_update` on the user's row (credits, chat settlements), on the contact's
  row (touches, merges) and on a connection's row (sync cursors);
- advisory locks: session-scoped and never waited for (one per conversation, one per
  mailbox), transaction-scoped and waited for (the beta registry);
- unique constraints (one active Autopilot run per user, one record per Stripe event
  and per checkout, one grant row per month);
- compare-and-set updates (`claim_run`, the Gmail cursor).

### Components

| Component | State | Operations | Hard behaviour | What makes it correct |
|---|---|---|---|---|
| **Credit ledger** `web/billing/credits.py` | append-only rows of grants, upgrades, spends, refunds, purchases | monthly grant, plan top-up, metered spend (chat, brief, rescan, Autopilot), refund, purchase | plan and month read before the lock; the gate of a brief is not the debit; rollover clamp; midnight and plan flips in between | one month's grant per month; bounded overdraw; bounded daily spend; balance does not compound |
| **Chat turns** `web/assistant/` | conversation rows, reservation, ledger rows, advisory lock | post, stream, edit, tool rounds, settle, refund, recovery | kills between any two steps; lock sessions that die under a living process; recovery beside a late answer; a replay window that cuts anywhere | debit and outcome agree; only an answer is charged; a delivered answer is not refunded; a replay is accepted by the API; pending rows are resolved |
| **Stripe purchases** `web/billing/stripe_gateway.py` | processed-event rows, purchase rows | webhook delivery | events repeated, reordered, concurrent; a buyer deleted mid-way | a paid checkout is granted exactly once |
| **Contact pipeline** `networkly_domain/pipeline.py`, `web/crm/services.py` | contact's warmth and thread state, touch ledger | log a touch, capture from mail, override, park, un-park, promote, replay | three writers on one row with backdated moments | writers serialise; the newest event decides; only an override demotes |
| **Autopilot** `web/capture/autopilot.py`, `discovery.py` | runs, decisions, proposals ("cards"), contacts | queue, claim, decide, finish, reap, apply, undo; the user's taps; a departure read from mail | a worker killed or reaped alive; a tap killed between two saves; cards that change while they are decided | one active run; a card decided once; an override is final; no duplicate contact; nothing lost from an applied batch |
| **Cadence** `networkly_domain/cadence.py`, `web/crm/today.py` | none of its own; reads the ledger, the booked chat, the promises | the next step of a contact on a day | weekends, windows that open and close, mail read late, states set by hand | nobody falls out of the tree; an answered card goes away; one follow-up, and it is offered |
| **Beta admission** `web/accounts/beta.py` | invited seats with fingerprints | invite, check, claim, change address, anonymise | two sign-ups for a seat, capacity at its limit | a seat is redeemed once; capacity is never passed |
| **Gmail sync** `web/capture/gmail_live.py`, `google_revoke.py` | history cursor, grant, backfill and rescan status | connect, notification, poll, backfill, rescan, disconnect | one mailbox, four writers; findings commit before the cursor; expired history; a revoke beside a reconnect | no mail is skipped; none is logged twice; a fresh grant is not cleared |
| **Calendar sync** `web/capture/gcal_live.py`, `gmail.py`, `crm/calendar_views.py` | the connection with its sync token, the rows of a meeting | sync, connect, disconnect; invites, cancellations and sentences in mail; reschedule, remove | network first and commit later; two syncs at once; expired tokens; one row with three writers; old mail read again | a Google-owned row shows Google's word; nothing the token has answered for is missing; a meeting that is off stays off; the timeline catches up |
| **Mail facts** `web/capture/mailfacts.py` | facts read from mail | apply, undo, dismiss | the effect commits before the fact | undo returns what apply did |
| **Contact merge** `web/crm/merge.py` | merge records | merge, undo | touches logged between the two | undo returns the touches it moved |
| **Trials** `web/accounts/trials.py` | plan and trial dates | start, expire | a list read once and written later | one trial per account |
| **Directory** `web/directory/` | opportunities, change records | scrape, enrich, reverify, close, reopen | partial fetches; full lists that leave out a live posting; passes that overlap for minutes over one row, and records that sort by when a pass began; kills before the records | absence closes a posting only when the fetch was complete; records explain the row; it converges |
| **Scoring** `networkly_domain/scoring.py` | none | score | — | pure function |
| Pages, tools, alerts, digest, connectors, operations, analytics | one row each, or none | reads, single-row edits, I/O | little | — |

Interactions: a chat turn, a brief, a rescan and an Autopilot run all debit the ledger
under the user's row lock; Stripe credits it without. Gmail sync writes touches through
the contact pipeline on a connection of its own, creates the cards Autopilot decides,
and withdraws cards of people who left. Calendar sync and mail write one row for one meeting, found by
Google's id, the invite's UID or the mail thread. Accepting a card creates a contact. The Today
page asks the cadence engine about each contact, and its buttons log the touches the
engine reads the next time. Deleting an
account erases the rows of all of them in one transaction while their requests run on.

`PROJECT.json` lists every component with its files and status, and the hazards of the
code at their lines with the properties that cover them.

## 2. Modules

```
CreditLedger          ContactLog <---- ContactPipeline <---- ReplayStates
TurnOutcome <---- ChatTurn       <---- Cadence
Mailbox     <---- GmailSync            StripeWebhook   AutopilotRun
                                       BetaAdmission   Directory
                                       CalendarMirror
```

An arrow goes from the detailed module to the one it extends or implements. The theorems
of each are in a `*_proofs.tla` of its name; CreditLedger and StripeWebhook share
`Billing_proofs`, Directory and CalendarMirror `Mirrors_proofs`. Each has a module `MC*.tla`
that names the small sets of its TLC configurations.
Operators commented "Mutant of X" are deliberate faults: a lock not taken, a guard
forgotten, a save in the wrong order. Each checked property is broken by at least one
of them, which shows that it depends on what the code does. They are not part of `Next`.

**CreditLedger** (one account). A worker is a request or job with what it has read in
memory (`task`: plan, month, baseline, units). What runs under the user's row lock is
one action; what the code computes before the lock is a step of its own. So `CheckGrant`
is the unlocked `exists()` of `ensure_monthly_grant` with the month it computed, and
`WriteGrant` the re-check and insert under the lock; `CheckPlan`/`WriteUpgrade` are the
same for `reconcile_plan_grant`; `ReadBalance`, `ReadBurst`, `Brief` are
`contact_ai_brief`'s gate, model call and unclamped debit; `Work`, `ClampedDebit` are
the two batch jobs; `Reserve`, `EndTurn` a chat turn, whose gate and debit share a lock.
The rows are kept as what the queries see of them: sum, today's net spend, and per month
the grant row's plan, what was handed out, and whether a top-up row exists. A grant
clamped to zero by the rollover rule is still a row; a top-up of zero is none, so a
later request may still write one.

**ChatTurn** (one conversation; any number of turns). `pc` walks through `charge_turn`,
`run_turn`/`stream_turn` and the unwinding. `owner` is the advisory lock, `session` the
dedicated database session it lives in; `LoseSession` takes the lock away from a living
process, which notices at its next `ensure_owned` only. `SaveReply`, `Keep`, `Settle`
split the answer's transaction at the point where another session can come between:
ownership is checked, and then the user's row is waited for. `SaveResults` does not check.
`thread` is the list of replayable rows; `Replay` is `_replayable` and
`_repair_interrupted_tools`, and `Accepted` is the Messages API's pairing rule for tool
calls. The recovery job lists a row, tries the lock, refunds, releases.
**TurnOutcome** is what the reservation promises: one debit, then one settlement or one
refund. `ChatTurn!OutcomeSafety` states the refinement (`res` and `net` map to
themselves).

**StripeWebhook** (the checkouts of one buyer). Stripe's side emits a completion, paid or
not, and a later payment event, and delivers every event any number of times. A delivery
looks the buyer up, then opens a transaction that inserts a record (unique by event and
by checkout) and writes the ledger row. A row that is inserted and not committed is the
delivery's `claim`: nobody sees it, and a conflicting insert waits for it (`Waits`), which
is how PostgreSQL treats a unique index.

**ContactLog** is what the touch ledger promises: events are recorded one at a time; a
touch older than one on file that moves state moves nothing; else warmth ratchets up and
an advocate stays one; an override always acts. **ContactPipeline** is the code: a moment
is taken, the row is locked (`LockRow`, `SELECT ... FOR UPDATE`), the order is checked,
and the rest commits; an override locks by its `UPDATE` and checks nothing. The doors are
log/capture, override, un-park and promotion. `LogSpec` is the abstract specification,
checked as a property of the detailed one. **ReplayStates** adds what `replay_states`
computes.

**AutopilotRun** (one user). `run` holds the runs' statuses, `log` the decisions in
creation order, `card` the proposals. Workers claim by compare-and-set, read the cards
once and write one decision per model call; `ReapStaleRun` may hit a worker that is still
alive (`late` remembers which runs). The user's request walks through
`apply_reviewed_through`: load a batch with the cards' statuses as they are then
(`seen`), and per decision accept, resolve the card, save the decision — three commits,
with a crash possible between them. A departure fact withdraws a card and is written
afterwards, two commits (`Withdraw`, `WriteFact`).

**Cadence** (one contact) puts the decision tree of `due_actions` over the ledger of
ContactLog. `Due(d)` is the tree: one operator per branch (`ThanksOwed`, `ConfirmDue`,
`RepingDue`, `ChattedCard`, `ColdCard`, ...), in its order. The actions are the doors
that answer a card or move what it reads: `Sent` and `Happened` are the buttons of the
Today page, which log the touch `ACTION_TOUCH` gives the card that is up; `LogTouch` is
the contact page, mail read some days late and chats entered ahead; `BookChat`,
`CancelChat`, `Debrief`, `Park`, `Unpark`, `SetByHand`. Time is a day and day 0 a Monday,
because the business-day clock depends on the weekday. An idle clock "the latest touch is
n days back" is written as a quantifier over the touches.

**BetaAdmission** (a registry of seats). An address stands for its fingerprint. What runs
under the registry's advisory lock is split where it reads and where it commits (`snap`
is what a locked transaction has counted, `fresh` what it is about to reserve):
`Invite`/`Reserve`/`InviteCommit`, and for a sign-up `CheckAdmission` (no lock),
`ClaimLock`, `ClaimCheck`, `ClaimCommit`. Accounts come to be and change their address
without the lock (`AddAccount`, `StageEmail`, `VerifyEmail`); deletion anonymises the
seats of the address its request loaded (`DeleteSeated`), or looks for one and finds none
(`DeleteSeen`, `DeleteUnseated`).

**Mailbox** is what live capture promises of one student's mail: everything behind the
cursor was read, or a historical pass is owed, or it was passed over by a step with a
name. **GmailSync** is the code: a worker loads the row, tries the mailbox lock, lists the
history, applies message by message (each in two steps, the question what is logged and
the touch), and moves the cursor by compare-and-set; expired history re-anchors; the
historical pass begins, narrows its search to the newest touch, replays, and saves
`done`; consents and disconnects go on beside it. `Promise == INSTANCE Mailbox WITH ...`
is the refinement: `Checkpoint` is an `Advance`, `LogTouch` a `Capture`,
`Reanchor`, `BeginBackfill`, `FailBackfill` and `Refused` a `Reanchor` or a stutter,
`Search` a `Narrow`, `FinishBackfill` a `Settle`, `GiveConsent` an `Ask`, and
`StoreConnection` and `DeleteRow` a `Consent`. A message is known by its place in the
mailbox's history.

**Directory** (one posting and its row; the boards of one firm and provider). The firm's
side takes the posting down or puts it back, at most `MaxFlips` times. `Cron` runs
`refresh`: `scrape`, `enrich_postings` (reads the posting's page), `reverify` (asks the verify
endpoint); `Hand` is any one of the maintenance commands started beside it. A scrape is
`Fetch`, at whose end `ingest_results` begins its one READ COMMITTED transaction, then
`LoadListed` and `WriteListed` if the posting was listed or `CloseMissing` if not, with the
commit; the other worker may act between any two. A board fails, answers blank, in part, or
in full, and a full list may leave out a posting that is live (`omitted`):
`reopen_confirmed_live_rows.py:10-17` tells of such lists, and of detail reads that dropped
rows. `decisive` says whether the provider's `verify` can answer "closed" at all. That of
Phenom, Lumesse, Beisen, Avature, McKinsey, Goldman Sachs, Societe Generale, TalentSoft and
Eightfold cannot: it says that a human must look, or that the page is still served.
A worker's `snap` is the row as it loaded it, and what it writes at its end are the fields its
`save` names. `told` is the status and deadline the change records leave a reader with, who
sorts them by the moment they carry: the start of the pass, and for a scrape the start of the
transaction (`ingest.py:597`), so a `reverify --ids` that begins and saves inside it sorts in
front of what the scrape moves later. `last` is the pass that began last, `outrun` the fields
recorded by one begun later, `pending` the records a pass has yet to write, and `Unsaid` says
that a move has no record or one that sorts behind another's.

**CalendarMirror** (one meeting, which Google Calendar may hold). `google` is the event's
history of states, live or deleted, each on a day; a sync token is a place in that history.
`today` goes on by itself (`NextDay`), and a full read takes the window of the day it is made
on (`InWindow`), `PastDays` back and `FutureDays` ahead: an event comes into the window or
leaves it with no change at Google. The connection keeps, for the properties, which full read
its token goes back to: the version it saw (`since`) and the day of its window (`day`).
A pass of `sync_connection` reads the changes since its token
(`ListChanges`), or the window (`ListWindow`) and then each mirrored event the window lacks
(`Resolve`), and commits rows and token in one transaction if the connection is as it was
loaded (`Commit`, `GiveUp`). That test is `fresh`, which every write to the connection
clears in the passes under way (`Overtaken`): the snapshot holds the consent's and the last
sync's times, so any write changes it. `Upsert` is `_upsert_event`: found by Google's id,
then by UID, adopted without taking the mailbox's ownership, or created. The mail pass
loads a row (`ReadInvite`, `ReadCancel`) and saves it (`Save`, `Retire`) with the fields as
it loaded them; any message may be read again at any time, since the mailbox window rolls.
`Rewritten` is what a message makes of the row, `Speaks` the recency rule, `MayRevive` the
rule for a meeting that is off. `Reschedule` and `Remove` are the student's. In the rows,
`ver` (the state of the event last taken from Google) and `lost` (a stale copy was saved over
it) are for the properties alone. A list of changes is taken to name every change since its
token, also of an event outside the window of the read the token came from.

## 3. Runs

State counts are distinct states. Every configuration bounds crashes, kills and the
length of histories by named constants that appear in guards.

| Run | Configuration | Checks | States |
|---|---|---|---|
| `credits_requests` | 2 concurrent requests of all four kinds, 2 days and months, 1 plan flip | `OverdrawBounded`, `BurstBounded` | 1.97 M |
| `credits_months` | 2 requests, 3 months, 2 flips, 1 purchase | `MonthlyHandout`, `RolloverCapped` | 2.09 M |
| `chat` | 2 turns, 1 round, window 3, 1 kill, 1 lost session | `AnswerSettles`, `ReplayAccepted`, `ChargedForAnAnswer`, `OutcomeSafety`, `PendingResolved` | 337 k |
| `stripe` | 1 checkout (2 events), 3 deliveries at once, 1 crash, deletion | `GrantedOnce`, `PaidIsGranted`, `EventuallyAccepted` | 84 k |
| `contact` | 3 calls, 2 moments, 6 overrides | `NewestTouchWins`, `LogSpec`, `ReplayAgrees` | 2.32 M |
| `cadence` | 5 days with a weekend, 3 touches, mail a day late, windows of 1 to 3 days | `NoDeadEnd`, `FollowUpFirst`, `DaysCounted`, `AnswerClears` | 962 k |
| `autopilot` | 1 person, 2 runs, 2 workers, 1 kill, 1 crash, 1 late reap | `OneActiveRun`, `NoDuplicate`, `AppliedWhole`, `OverrideIsFinal`, `RunEnds` | 364 k |
| `beta` | 3 addresses, limit 1, 2 requests, 2 accounts | `CapacityKept`, `RedeemedOnce`, `ErasedIsNameless` | 650 k |
| `mail` | 2 workers, 2 messages, 2 consents, 2 faults | `NoGap`, `LoggedOnce`, `MailboxSpec`, `OnlyDeadRevoked` | 2.48 M |
| `mail_window` | the same with 1 consent, 1 fault | `EveryMailSeen`, violated | |
| `directory` | 2 boards, 2 dates, 1 flip, 1 fault, 1 command by hand, `verify` that can and cannot say closed | `RecordsExplain`, `ConfidenceHonest`, `NoFalseClose`, `Converges` | 728 k |
| `calendar` | 2 syncs at once, 3 changes by Google, mail, student and calendar day together, 2 days and a window of one, 2 rows, 2 consents, 1 fault | `MirrorHonest`, `CursorCovers`, `NeverBack`, `StaysOff`, `CaughtUp` | 1.30 M |

The type invariants of the modules with proofs are theorems, and so are
`RecordedWasGranted` (Stripe: a record has its credits), `OnlyOverrideDemotes` (contact:
warmth falls, and an advocate's thread moves, only with an override recorded in the same
step), `DecidedOnce` (Autopilot: of two finished decisions about a person the older was
superseded), `OneFollowUp` (cadence: once the follow-up is sent no day asks for another
while nothing else happens) and `NeverRecycled` (beta: a redeemed seat stays redeemed and,
once it has lost its member, gets neither another nor a name). TLC checked them before
they were proved; the runs spend their time on the other properties.

**Credits.** `OverdrawBounded`: the balance falls below zero by at most one chat turn's
overdraw and one brief of every other request, because a brief is let through without
the lock. `BurstBounded` is the same statement about the day's spending, across midnight
and stale plans. `MonthlyHandout`: the grant and top-up rows of one month add up to the
best plan's grant at most, whatever plan and month a stale request holds.
`RolloverCapped`: grants never compound the balance past two months' worth; purchases
and refunds of earlier turns come on top. Two requests are enough for every race on
the ledger that has a reader and a writer; the numbers are scaled down, and keep the
plans' order in grant, cost and burst. In `credits_months` both plans cost 1 per turn:
costs do not enter a grant except through the balance.

**Chat.** `ChargedForAnAnswer`: nothing but a saved answer settles.
`AnswerSettles`: a saved answer is never refunded. `ReplayAccepted`: each request's
messages pair tool calls and results, wherever earlier turns were killed or rewound.
`PendingResolved`: recovery gets to every row. `OutcomeSafety`: the reservation keeps the
promise of TurnOutcome.
`AnswerSettles` and `ReplayAccepted` hold until a lock session is lost under a living
process: after that the first is violated (section 5), and the rows of two overlapping turns
may interleave so that a result does not follow its call. Two turns give an answer and the
turn that replays it or overlaps it, one round a tool call that is killed, answered or cut
off at the end of the budget. Turns that go on after their results need two rounds, and are
left to the theorems, which hold for every number of rounds, turns, kills and losses.

**Stripe.** `GrantedOnce`; `PaidIsGranted`, which a record without its credits would
violate, since every retry would skip the purchase; and `EventuallyAccepted`: no event is refused for ever, also not that of a buyer who has
gone. Three deliveries of two events give every pattern of wait, duplicate and loser.

**Contact.** `LogSpec`: the split writers implement the ledger that records one event at
a time. `NewestTouchWins`: the state is what the newest event says, unless an override
was recorded after that event. `ReplayAgrees`: where no
touch was logged out of order and nothing was set by hand since, replaying the ledger
gives the stored pair. Two moments tell older,
equal and newer apart; three writers let one overtake two.

**Autopilot.** `OneActiveRun`: at most one run is queued or running, also when a reaped
worker comes back. `OverrideIsFinal`: no decision follows an override, in histories
without a run reaped alive, because such a worker decides from cards it read long ago. `AppliedWhole`: a run is applied only when every accepted decision of it is
recorded. `NoDuplicate`: a repeated tap after a kill makes no second contact. `RunEnds`:
no run stays active. One person has every history of two runs; that a batch holds more
than one decision is covered by the theorems, which hold for any number of people.

**Cadence.** `NoDeadEnd`: a contact who is not parked and was never set by hand is asked
about on some later day, whatever is logged, parked and brought back. `AnswerClears`: doing
what a card asks takes it off the same day's list, although the kind a button logs and the
kinds that close a branch are kept in different places. `FollowUpFirst`: a contact is
proposed for parking only after a day on which the follow-up was offered, for settings in
their documented order. `DaysCounted`: the closed form of `business_days_since` counts the
weekdays. The windows are scaled down to one to three days and keep their order, the five
days are a Thursday to a Monday, so each window is seen across a weekend and inside a week;
three touches are a note, a follow-up and an answer, or a chat, its thanks and a promise.

**Beta.** `CapacityKept`: seats and accounts together stay within the limit, addresses aside
that staff put accounts at by themselves. `RedeemedOnce`: an invitation admits one account,
ever. `ErasedIsNameless`: while the beta is on, a name is on an open
invitation or a living member's seat. With limit 1, two requests compete for the last
place; the third address lets an account move and be deleted from another than it was
invited at.

**Mail.** `MailboxSpec`: GmailSync implements Mailbox. `NoGap`: behind the cursor nothing is
forgotten, through expired history, crashes between the findings and the cursor, and
overlapping workers. `LoggedOnce`: a message is logged once while the mailbox keeps its
row. `OnlyDeadRevoked`: a connection is marked revoked only when its own grant is dead,
whatever was reconnected while Google was asked. Two messages tell read, passed and owed
apart; two consents are needed for a row that is replaced, two faults for a crash after an
expired history.

**Directory.** `NoFalseClose`: a posting leaves the feed only if it was down while the pass
that closed it ran, or a scrape that had read every board of the pair whole did not find it:
its own board had left it out of a full list, or had answered blank beside another board
(section 5). A failed or cut fetch of any board, a blank answer of the only one, a `verify`
that cannot say and a pass that judges by an old copy close nothing. `ConfidenceHonest`: a
date is shown as the board's own only when a structured field states it, or a pass wrote back
what it had loaded. `RecordsExplain`: status and deadline are what the newest change records
say, but for the commands that keep none, saves of an old copy, kills, and a move of a field
that a pass begun later had moved already, whose record stays in front. `Converges`: when firm
and network have settled, the row is open exactly if the posting is live; where `verify` never
says closed and no scrape has another posting of the boards to go by, only that a live posting
ends up open. Two boards are what the pair rule needs; one command beside the refresh gives
every overlap of two passes, one inside the other's transaction included; one fault is one
omission, one failed fetch or one kill.

**Calendar.** `MirrorHonest`: a row that belongs to Google shows the state it last took from
there, live or off, in whichever order mail and calendar are read; a row saved over by a
stale copy is excepted (section 5). `CursorCovers`: what the stored token has answered for -
the event was in the window of the full read the token goes back to, or has changed since
that read - is not missing: a live event has its row, and no row is older than the token,
through expired tokens, moves in and out of a window that rolls, reconnects and two syncs. It
says nothing of an event that drifts into the window by the days alone; no list of changes
names one (section 5). `NeverBack`: no commit takes a row or the
token of a consent back. `StaysOff`: a meeting that is off comes back only by Google, by an
invite at least as late as the cancellation on a row that is not Google's, or by a copy loaded
before it went off. `CaughtUp`: while the grant stays good the token comes to Google's last change, and
the rows show the event as it is, if the token has answered for it. `MaxEvents` bounds Google's
changes, messages, taps and days together, at three: event, invite and cancellation, or a change, a second change between a
sync's list and its commit, and a message; reconnects share the fault budget, and a grant may
be withdrawn or disconnected as long as a consent, and the fault budget, are left for the
reconnect that follows, since a student who never returns leaves nothing to check; so a killed
sync or an expired token is met with one consent, and a reconnect with syncs that run through.
Two rows let a cancelled meeting and its re-booking,
or a mailbox's copy and Google's, stand beside each other. Two days with a window of one
(`PastDays` and `FutureDays` 0) let an event be inside, still to come, or past, and become each
of them by a change or by the day; day 0 is the day Google first has the event.

### Fairness

- ChatTurn: weak fairness of each turn's own steps (a process runs on until it ends or
  is killed), of the recovery job's steps, and strong fairness of the job listing each
  pending row: the job is a ten-minute cron and each pass visits every old pending row,
  but a row may be skipped any number of times because its conversation is busy.
- StripeWebhook: weak fairness of a delivery's steps, strong fairness of redelivery of a
  pending event, which is Stripe's own retry.
- AutopilotRun: weak fairness of a live worker's steps, of claiming a queued run and of
  reaping an abandoned one; the cron ticks every five minutes. Nothing is assumed of the
  user: a reviewed run may wait for ever.

- Directory: weak fairness of the cron's steps (the refresh runs every six hours) and of the
  steps of a command that was started; strong fairness of reverify looking at the row when it
  is the cron's turn. A run takes 200 rows, campus rows first, then the nearest deadline, then
  the longest unchecked (`reverify.py:232-257`), so the last is an assumption: that the rows in
  front do not fill every run. Nothing is assumed of the firm, of faults or of the operator.

- CalendarMirror: weak fairness of some sync taking a step (the cron starts one every few
  minutes for every active connection) and of a sync that has read everything committing or
  giving up. Nothing is assumed of Google's changes, of mail, or of the student.

Runs that check safety only use the specification without fairness.
`CHECK_DEADLOCK FALSE` stands where a system may stop: all turns are done, all events
are accepted, nobody taps.

## 4. Proofs

All theorems are about every value of the constants that satisfies the modules'
assumptions: any number of requests, turns, deliveries, people, runs, seats, workers,
messages, boards and days, any bound on crashes and any setting in its range. 13,084
obligations are proved. Every safety property that a run checks, invariant, action property
or refinement, is a theorem; the liveness properties are TLC's.

| Module | Theorem | Property |
|---|---|---|
| `Billing_proofs` | `TypeCorrect`, `MonthlyHandoutHolds`, `OverdrawBoundedHolds`, `BurstBoundedHolds`, `RolloverCappedHolds` | of CreditLedger: `TypeOK`, else the same name without `Holds`, as below |
| | `WebhookTypeCorrect`, `GrantedOnceHolds`, `GrantedWasPaidHolds`, `RecordedWasGrantedHolds` | of StripeWebhook, from `Safety` |
| `ChatTurn_proofs` | `TypeCorrect`, `LedgerMatchesHolds`, `OutcomeSafetyHolds`, `ChargedForAnAnswerHolds` | |
| | `AnswerSettlesHolds`, `ReplayAcceptedHolds` | while no session was lost, which the properties say themselves |
| `ContactPipeline_proofs` | `TypeCorrect`, `Serializable`, `NewestTouchWinsHolds`, `OnlyOverrideDemotesHolds`, `ReplayAgreesHolds` | `Serializable` is `LogSpec` |
| `AutopilotRun_proofs` | `TypeCorrect`, `OneActiveRunHolds`, `AppliedWholeHolds`, `NoDuplicateHolds`, `DecidedOnceHolds`, `OverrideIsFinalHolds` | |
| `BetaAdmission_proofs` | `TypeCorrect`, `RedeemedOnceHolds`, `NeverRecycledHolds`, `ErasedIsNamelessHolds`, `CapacityKeptHolds` | |
| `GmailSync_proofs` | `TypeCorrect`, `MailboxSpecHolds`, `NoGapHolds`, `LoggedOnceHolds`, `OnlyDeadRevokedHolds` | |
| `Cadence_proofs` | `TypeCorrect`, `NoDeadEndHolds`, `AnswerClearsHolds`, `OneFollowUpHolds`, `FollowUpFirstHolds`, `DaysCountedHolds` | |
| `Mirrors_proofs` | `DirectoryTypes`, `ConfidenceHonestHolds`, `NoFalseCloseHolds`, `RecordsExplainHolds` | of Directory, from `Spec` |
| | `MirrorTypes`, `MirrorHonestHolds`, `CursorCoversHolds`, `NeverBackHolds`, `StaysOffHolds` | of CalendarMirror, from `MirrorSpec` |

**Assumptions.** CreditLedger: the plans' numbers are naturals, free's grant is not above
pro's, a brief costs no more than the dearest turn, some turn costs something and some
plan lets its user spend; the requests are a finite, non-empty set. ChatTurn: bounds are
naturals, the job and "nobody" are not turns. StripeWebhook, ContactLog, ContactPipeline,
AutopilotRun, BetaAdmission, GmailSync: bounds are naturals, the null value is none of
the others, people, addresses and requests are finitely many. Cadence: the settings are in
the ranges `TUNABLE_CADENCE_PARAMS` allows (`max_cold_touches` 1 or 2, every window that
must not be empty at least 1); nothing is assumed of the order of the windows. Directory: the
boards are finitely many and the row's own is one of them, the cron is not the command by
hand, "no date" is no date. CalendarMirror: bounds and the window's sides are naturals and one
consent at least may be given.

**Arguments.**

*Credits.* `MonthlyHandout` is not inductive: a top-up adds the difference of two grants,
which is safe only on top of a month that has handed out no more than the lower one.
`HandoutInv` adds that (`HandoutShare`), and that a request about to write a top-up
compares against the grant row of its own month (`UpgradeBaseline`), which an insert-only
ledger cannot change. `OverdrawInv` and `BurstInv` count the briefs in flight: each has a
share of the bound it has not used yet; `BriefsInFlight` starts at the balance test,
`BriefsGated` only at the burst test, since a brief is safe for a bound from the moment
that bound was read. Cardinality lemmas move a request in and out of these sets.
`RolloverCapped` is not inductive either: a turn in flight may be refunded after a grant has
filled the balance up. `RolloverInv` counts in advance what the turns in flight would bring
back (`Held`), which one dearest turn per request bounds.

*Chat.* `TypeInv` adds to the types where a turn may be without a reservation.
`LedgerMatches` and the refinement follow from the status test inside `Finish`: only a
pending row changes. For `AnswerSettles`, `LockInv` says that, until a session is lost, a turn at work holds the
lock, and so does the job while it refunds; so the two exclude each other, and the row of
a turn at work stays pending (`AnswerInv`). For `ReplayAccepted`, `ReplayInv` says that
every result stands right behind its call; a rewind cuts a suffix off, a window begins
at a question, and so neither separates the two, while a call without result is repaired.

*Stripe.* `PurchaseInv`: a granted checkout is on record; a claim is for a checkout that
is neither on record nor claimed by another delivery; nobody works on an unpaid event.
The unique keys give the middle part, and it makes `Grant` write first and only rows.

*Contact.* `GuardHolds`: the answer of the order check is still right at the commit,
because no other call records anything between them, which `TypeOK` knows from the row
lock. With it every commit is a `Record` step of `ContactLog`, all others stutter
(`Serializable`), and `NewestTouchWins` and `ReplayAgrees` are invariants of `ContactLog`
that carry over through the refinement. For `ReplayAgrees`: a ledger in order is read as it
stands (`InOrderIsLog`: as many touches come before the k-th as its place says), a touch
recorded in order is never stale, and the replay of one touch more applies it to the replay of
the others (`ReplayedStep`). The replay is a recursive function; that it exists for every length
and that two of them agree on a common beginning is shown by a least counterexample.

*Autopilot.* `AutopilotInv` joins nine parts. `Ownership`: a claimed run belongs to one
worker, and is running unless it was reaped alive; without it a second worker could
finish a run it does not own. `NotBegun`: a run has no decision before its claim, and a
queued one none at all. `Batch`: a batch is of reviewed runs, its list holds proposed
decisions only, and a decision leaves `proposed` only in a finished run. `Recorded`: what
has left the list of the oldest run is recorded; this is `AppliedWhole` one step early.
`Decided`: as long as nobody was reaped alive, only the newest decision about a person
can be closed, and none about whom a worker has still to decide; it gives `DecidedOnce`
and `OverrideIsFinal`. `NoDuplicate` is inductive by the match before the create.

*Beta.* `RegistryInv`: the lock has one holder, and what a locked transaction has read is
still so, since seats change under the lock only. `AdmittedInv` and `MemberInv` relate
seats, holders and living accounts and give `RedeemedOnce` and `ErasedIsNameless`.
`CapacityInv` counts addresses that take a place, and adds the places a transaction under
way has promised itself, so a commit finds the count it read.

*Mail.* `SyncInv` joins the types, in which the lock is exclusive, with what a worker may
rely on between two commits: the messages it listed have arrived (`Arrived`), its grant was
given (`Given`, `Asked`), the row it loaded is the row or an older one (`Loaded`), and what
it has read lies between the cursor it loaded and the head it was told (`Reading`). Then
`Checkpoint` passes read messages only, because the compare-and-set excludes every cursor
but the one it listed from. `KeptFor` and `OneRowOneHolder` carry `LoggedOnce`: a question
asked under the row's lock keeps its answer.

*Cadence.* `CadenceInv`: types; introductions are of past chats (`IntrosPast`), which
`AnswerClears` needs for the promise card; and `Resting`, the pairs of warmth and thread
state that touches, parks and un-parks can reach without a setting by hand. `NoDeadEnd`
goes through these pairs: on `Horizon` every clock has run out, because a week holds five
business days, so the branch of each pair asks. `DaysCounted` and `FollowUpFirst` rest on one
lemma, `NextDayCounts`: from a day to the next the closed form grows by one if the new day is a
weekday and stays otherwise, also where a week is completed (`SixDays`). So a first distance at
which it miscounts would have a smaller one before it; and so the first day on which a note is
old enough for its follow-up is not yet past the window (`NoHole`), hence a day on which the
follow-up was due, for the branch the contact is in reads nothing else of the day.

*Directory.* `MemoryInv` types what each worker holds and says what it has reason to believe:
a pass under way while the posting is down has seen it down (`Watches`), and one that found it
missing or closed had seen it down, or read a full list that left it out, or a blank board of
several (`Reason`). It gives `NoFalseClose` and `ConfidenceHonest`, for which a row or snapshot
without a date claims no confidence (`Sound`). For `RecordsExplain`, `RecordsInv`: one pass
began last and nothing has outrun it; each field is as recorded, or some pass has yet to record
it and nothing newer was recorded since it began (`Explained`); and what a pass has to say of a
field is what the row says, or the pass begun last will say so in front of it (`Topped`),
without which the records might be right until the second of two passes writes its own.

*Calendar.* `MirrorInv` has `MirrorHonest` and `CursorCovers` as parts, which need each other
and four more. `RowsInv`: Google's rows are linked, a linked row bears the meeting's UID, and
one row at most bears it. `ReaderInv`: the row in the mail pass's hands is as Google's as it
was when it was loaded, and if it was off the message is late enough to revive it. `PassOK`: a
pass of the sync whose connection is as it loaded it brings a token no older than the stored
one and a state of the event no older than any row, or, with no state to bring, finds rows its
token covers already (`Covers`, for the full read the token goes back to and its window).
A pass that reads the window brings a token with no change behind that read, so the window
alone decides what it answers for, and the lookup of the rows its list lacks answers for the rest. No token is ahead of Google. `NeverBack` and
`StaysOff` are step properties from the same invariant: a commit happens on a fresh connection
only, and what brings a meeting back is one of the three the property names.

**Only model-checked.** `PendingResolved`, `PaidIsGranted`, `EventuallyAccepted`, `RunEnds`,
`Converges` and `CaughtUp` are liveness under fairness, which the prover does not handle.
`LedgerMatches` and `GrantedWasPaid` are theorems and take no run. The violated property has
a counterexample and no theorem.

## 5. Where code and documentation disagree

`mail_window` is a run in which TLC finds a documented intention violated.
`gmail_live.py` says of the historical pass that "a touched contact only needs back to
last_touch (plus a week of overlap)". A pass is queued at connection and starts minutes
later; a live reply logged in between is a touch, narrows the pass to the week before it,
and the contact's older mail is never read although the pass ends `done` (a sweep of recent
sent mail aside, which the model leaves out; what was received it does not find).

Schedules the models reach, or that follow from the code, without a run of their own:

- *Brief overdraw.* `credits.py:499` says a balance "only ever goes as negative as one
  deliberate overdraw". `contact_ai_brief` tests the balance without the lock, calls the
  model and then debits without a test, so a brief let through at a balance of 1 is debited
  after a chat turn has overdrawn. `OverdrawBounded` is the bound that holds.
- *Lost answer.* `ChatTurnReservation` (`assistant/models.py:189`) says a final saved answer
  settles it in the same transaction. `keep()` checks its session, waits for the user's row
  and ignores what `finish_reservation` returns: when the session dies in between and the
  recovery job refunds first, the answer is saved and its credits are back.
- *Un-park over a reply.* `contacts_park_undo` (`crm/views.py:2068`) says "undo must not
  re-write state on somebody it did not park". It reads the parked contacts in one query and
  overrides each afterwards; a reply committed in between is overwritten. It may leave a
  warmth and a thread state together that no branch of the cadence tree raises again, as an
  override by hand of one of the two columns can.
- *Un-park "for about two weeks"* (`crm/views.py:2676`, `contact_parked.html:111`). The idle
  clock ignores the override an un-park writes, so a cold contact whose follow-up had run
  out is proposed for parking again the same day.
- *Settings out of order.* `today.py:79-118` accepts a `followup_after` above
  `followup_expires`; then the follow-up's window is empty and `FollowUpFirst` says nothing.
- *Backdated replay.* `replay_states.py:18` says no new disagreement can appear.
  `apply_touch` lets a stale touch move neither field, while the replay ratchets warmth over
  every touch, so a backdated chat after a newer reply replays warmer than stored.
- *Not the user's word.* `AutopilotDecision` (`capture/models.py:822`) says an override is
  "only ever the user's word". `apply_run` takes every resolved card for the user's unless
  the mail fact that withdrew it is `applied`; the fact is written after the card is
  dismissed, so a withdrawal nobody tapped can be stamped overridden.
- *Ledger against run.* `autopilot.py:876` records `ceil(calls / rows)` as `credits_spent`
  where the debit was clamped.
- *Mail after a reconnect.* A consent moves the cursor to the mailbox's head and keeps a
  `done` backfill, so mail between the old cursor and the reconnect is skipped (`over` in
  Mailbox names it), while `register_watch` explains why it does not replace a cursor. A
  pass that ends saves `done` by key over the `pending` a reconnect wrote. A disconnect and
  reconnect makes a new row, hence a new lock, which does not exclude the old row's worker:
  `LoggedOnce` is stated for one row. Two overlapping ticks run, and charge, one rescan
  twice (`gmail_backfill.py:155`), and a trial's end may erase a queued one.
- *Beta switched off and on.* With the beta off, seats may be reserved while accounts are
  deleted, and an erased account's seat may keep its name (`ErasedIsNamelessAlways`).
- *Directory, closed while live.* A blank board beside a second one that is not blank closes the
  live rows of the first; `scrape --limit N` may close rows of boards it did not get to. A full
  list that leaves out live postings (BMO on Phenom, Millennium on Eightfold:
  `reopen_confirmed_live_rows.py:10-17`, 57-89) closes them too, and the next list that holds
  them reopens them; `ingest.py` takes a complete list for the truth. `Converges` assumes that
  the omissions stop.
- *Directory, open for good.* A scrape that sees no posting of the pair at all closes nothing
  (`ingest.py:732`), and leaves the last posting to `reverify`; where the provider's `verify`
  never says closed (section 2) it stays in the feed, until another posting appears or a human
  closes it. It is the second half of `Converges`.
- *Directory, records.* `enrich_postings`, `close_confirmed_dead_rows` and
  `reopen_confirmed_live_rows` move status or deadline without the record that
  `OpportunityChange` says every such move has; overlapping commands save what they loaded; and
  records sort by when a pass began, so a `reverify --ids` that begins and saves while a
  scrape's transaction is on its way to the row leaves a record in front of the scrape's later
  move: the records say closed and the row is open.
- *Calendar, drifting in.* The window of a full read is counted from its own moment
  (`gcal_live.py:436`), a list of changes names changed events only. An event more than
  `GCAL_SYNC_FUTURE_DAYS` ahead at the first sync is not listed then, comes into the window by
  the passing of time, and is not on the timeline until it changes at Google, the token expires or
  the student reconnects. `CursorCovers` and `CaughtUp` leave it out (`Reached`).
- *Calendar row saved over.* Mail saves all of a row's times from the copy it loaded
  (`gmail.py:1057`), with no lock and no test. A sync that commits in between is undone, on
  a Google-owned row too, of which the comment above (`gmail.py:897`) says that "the mailbox
  does not get to argue with it"; it stays so until Google next changes the event (`lost`).
- *Adopted meeting dragged back.* A mail row that Google adopted and moved keeps the date of
  its invite, so the same invite, read again, is "as new" and moves it back, while
  `gcal_live.py:43` says the sync keeps such a row current. The token is past the change.
- *Cancellation read again.* `_retire_cancelled_chat` has no test of dates. A cancellation
  that comes round again retires the chat a later invite revived, and the invite in turn
  revives it; the docstring says "a re-invite on the same UID ... revives it".
- *Reschedule on a time from prose.* `_reschedule_chat` (`crm/today.py:4399`) says an invite
  sent before the click cannot drag the chat back. It leaves `time_confidence` at the
  sentence's 0.6, and a statement outranks a reading of any date, so it can.
- *Removed chat.* `calendar_delete` deletes a captured chat, and the invite, read again,
  makes it anew: the loop `gmail.py:1096` gives as the reason never to delete.
- *Trials.* `pro_trial_expire.py:96` reads its list once and saves each user as free later,
  over an upgrade made in between.
- *Double promotion.* `debrief.promote` tests `promoted`, logs the referral in one
  transaction and sets the flag in another. Two taps that both pass the test, or a
  failure between the two transactions and a second tap, record two referrals
  (`Promote`, `WriteTouch`, `Fail`, `Promote`, ...).
- *Late override.* `set_state` takes its moment before its `UPDATE` waits for the row, so
  an override may be recorded on top of an event with a later moment. By design it acts;
  `NewestTouchWins` therefore leaves out a ledger with an override recorded after its
  newest event.
- *Double accept.* `discovery.accept` takes no lock: two requests that accept one card at
  once may both find no match and both create a contact. AutopilotRun serialises the
  requests of its user, so `NoDuplicate` is about repeated taps, not simultaneous ones.

## 6. Abstractions and what is not modelled

- Credits: the numbers are scaled; hand-written adjustment rows and display-only reads are
  left out; the plan flips at any moment, which stands for trials and administrators.
- Chat: a tool round is one step that leaves results or does not; notices, titles, folders,
  drafts and attachments have no row that is replayed. The thread orders rows by position;
  the code orders by time and then key. A turn's tools may write elsewhere, which is not
  part of this module.
- Stripe: signatures, building a checkout, retired packs, and records older than the
  checkout key are left out; the buyer's account exists or not.
- Contact: kinds that move nothing are one kind; deleting, merging and the reclassification
  of a reply as bulk mail are left out.
- Autopilot: the credits and call budget of a run decide how many cards it gets to, which
  is any subset of the candidates; application-event rows, direct and dry runs, and a
  deactivated account are left out. `start_run` reaps first and commits that: a
  `ReapStaleRun` step before `StartRun`. The two saves of `mailfacts.undo` are one step, and
  a card is withdrawn by mail once (`KillSync`); without a fact row the code may do so again.
  Half an hour is not measured: a run may be reaped at any moment while it runs, at most
  `MaxLate` times with its worker alive.
- Cadence: snooze and skip, the page's gates and pacing, the several closing dates of a
  firm (the contact's own is given), archived contacts, touches without a date and the hour
  of the day (the thank-you's hours) are left out.
- Beta: checking Google's evidence, which refuses a sign-up before anything is read.
- Mail: the sweep of recent sent mail that the historical pass adds to its search
  (`gmail_live.py:2334`), which may still find what that pass skipped if the student sent it;
  a second mailbox of a student, the watch, the residue stage of "Scan now", and what
  a message says; a message either has something to log or is one nobody tells apart.
- Calendar: recurring series, titles, notes, places and end times, undated mail, a time
  without a day, the edits of hand-typed events, and a dry run. An event or calendar that
  Google cannot answer for fails the sync (`Fail`). The sibling's revoke is `Withdraw`.
- Directory: title, place, sponsorship and bucket of a row, staleness, several rows competing
  for a pass's budget and the order of its queue, firm dates, merging of firms, board health.
- Time is a counter where order matters (moments, days) and absent elsewhere.

Not modelled, and why:

- Contact merge and undo (`crm/merge.py`): moves touches under both row locks; undo moves back
  the ids it recorded, and the primary's state is not recomputed (`merge.py:253`).
- Mail facts: what a departure does to a card is in AutopilotRun; the rest is reading text.
- Trials: three columns of the user; CreditLedger lets the plan flip at any moment.
- Account lifecycle: deletion is an action of ChatTurn, StripeWebhook and BetaAdmission,
  which it races; the rest is forms over one row.
- Parsing and classifying mail and job pages, model calls, ranking, scoring, templates and
  HTTP clients: text, pure functions and I/O. The directory's views, the ranking and the
  classifier are the largest files of the repository and keep no state of their own.
- CRM pages that read or edit one row; alerts and digest, which keep no record; operations
  and analytics, which append.

## 7. Plan

Done: the components of section 2, in the order in which money, answers, purchases,
contacts, mail, meetings and the feed depend on each other. What would come next:

1. **ContactMerge**: `merge` and `undo` beside ContactPipeline's writers.
2. **Accepts**: `discovery.accept` by several requests at once, to take the serialisation
   out of AutopilotRun.
3. Trials and Autopilot's credits as actions of CreditLedger, with `run.credits_spent`
   against the clamped ledger row.
4. An abstract specification of a purchase (a paid checkout is granted once), with
   StripeWebhook shown to implement it, as ChatTurn implements TurnOutcome.
