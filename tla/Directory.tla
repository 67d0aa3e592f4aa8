----------------------------- MODULE Directory ------------------------------
(* One posting of the opportunity directory, and the passes that write its   *)
(* row: the six-hourly `refresh` (scrape, enrich_postings, reverify, one     *)
(* after the other) and the commands an operator starts beside it            *)
(* (--ids runs of the same stages, close_confirmed_dead_rows,                *)
(* reopen_confirmed_live_rows).  Nothing locks the passes against each       *)
(* other: each loads the row, spends minutes on the network, and saves the   *)
(* fields it changed.                                                        *)
(*                                                                           *)
(* The firm lists its postings of one provider on Boards; the posting is     *)
(* listed on Home.  A fetch of a board fails, comes back blank (200, no      *)
(* rows), partial (a list known to be truncated) or full; and even a full    *)
(* list may leave out a posting that is live.                                *)
EXTENDS Integers, FiniteSets

CONSTANTS
    Boards,        \* the boards of the posting's (firm, provider) pair
    Home,          \* the one that carries the posting
    Dates,         \* deadlines a payload or a page may state
    Cron, Hand,    \* the scheduled refresh and the operator's command
    MaxFlips,      \* times the firm takes the posting down or puts it back
    MaxFaults,     \* failed, blank or partial fetches, postings left out of a
                   \* full list, verifies that fail, kills
    MaxHand,       \* commands started by hand
    StructuredVerify, \* the provider's verify endpoint has a date field of its own
    None

ASSUME BoardsAssumption == IsFiniteSet(Boards) /\ Home \in Boards
ASSUME DatesAssumption == None \notin Dates
ASSUME WorkersAssumption == Cron # Hand
ASSUME StructuredAssumption == StructuredVerify \in BOOLEAN
ASSUME BoundsAssumption == MaxFlips \in Nat /\ MaxFaults \in Nat /\ MaxHand \in Nat

VARIABLES
    row,           \* the opportunities row
    told,          \* what its change records say, newest first: status and date
    job,           \* what each worker is in the middle of
    up,            \* the posting is live at the firm
    decisive,      \* the provider's verify can say that a posting is closed
    silent,        \* the row moved with no record to show     (history)
    flips, faults, hands

vars == <<row, told, job, up, decisive, silent, flips, faults, hands>>

Workers == {Cron, Hand}
MaybeDate == Dates \union {None}
Fields == {"status", "date"}

\* How sure we are of the stored date, in tenths.
Sure == 10
Reported == 6

Larger(a, b) == IF a >= b THEN a ELSE b
-----------------------------------------------------------------------------
(* The worker's progress.  A job keeps what it loaded, what the network      *)
(* told it, the records it has yet to write, the fields another pass has     *)
(* recorded since it began, whether it is the pass that began last, and      *)
(* whether the posting was down meanwhile.  The records of a pass carry the  *)
(* moment it began, a scrape's the moment its transaction began.             *)

RestingAt(pc) == [pc |-> pc, snap |-> None, heard |-> None, pending |-> {},
                  outrun |-> {}, last |-> FALSE, down |-> FALSE]
Resting == RestingAt("rest")

Begin(w, pc, snap, heard) ==
    job' = [v \in Workers |->
              IF v = w THEN [pc |-> pc, snap |-> snap, heard |-> heard, pending |-> {},
                             outrun |-> {}, last |-> TRUE, down |-> ~up]
                       ELSE [job[v] EXCEPT !.last = FALSE]]

\* refresh runs its stages in order and a failing stage does not stop the
\* next; a command runs one stage.
Next1(w, stage) == IF w = Cron THEN stage ELSE "rest"

Finish(w, stage) == job' = [job EXCEPT ![w] = RestingAt(Next1(w, stage))]

\* A worker may begin this stage now.
MayStart(w, stage) ==
    \/ w = Cron /\ job[w].pc = stage
    \/ w = Hand /\ job[w].pc = "rest" /\ hands < MaxHand

CountHand(w) == hands' = IF w = Hand THEN hands + 1 ELSE hands

\* The worker is done with its pass; the records it leaves of these fields are
\* newer than what another worker's unfinished pass will record.
Outrun(w, fields, stage) ==
    job' = [v \in Workers |->
              IF v = w THEN RestingAt(stage)
              ELSE IF job[v].pc = "rest" THEN job[v]
              ELSE [job[v] EXCEPT !.outrun = @ \union fields]]

\* A row with its deadline, and how sure we are of it, replaced.
Dated(r, d) ==
    [status |-> r.status, date |-> d.date, conf |-> d.conf]
-----------------------------------------------------------------------------
(* The change records: OpportunityChange, read by the moment they carry,     *)
(* newest first.                                                             *)

MovedFields(old, new) ==
    {f \in Fields : old[f] # new[f]}

\* The fields another pass, begun after this one, has moved: its records,
\* written or yet to be written, sort in front of this one's.
Behind(w) ==
    job[w].outrun \union
        IF job[w].last THEN {} ELSE UNION {job[v].pending : v \in Workers \ {w}}

\* The row moves, and no record of this pass says so, or one that sorts behind
\* the record of another move.
Unsaid(w, new, moves) == ~(MovedFields(row, new) \subseteq moves \ Behind(w))

\* Mutant of Recorded: a date taken back leaves no record.
RecordedIfDated(w, new, moves) ==
    [f \in Fields |-> IF f \in moves \ job[w].outrun /\ new[f] # None THEN new[f] ELSE told[f]]

\* What the newest records say once the pass has written those of its moves.
Recorded(w, new, moves) ==
    [f \in Fields |-> IF f \in moves \ job[w].outrun THEN new[f] ELSE told[f]]

\* Once the row has moved in silence nothing is asked of the records.
Untold == [status |-> "absent", date |-> None]
-----------------------------------------------------------------------------
\* A quiet moment: the posting has not been met, or is in the directory,
\* rightly or wrongly open, with no date.
Init ==
    /\ \E status \in {"absent", "open", "closed"} :
        /\ row = [status |-> status, date |-> None, conf |-> 0]
        /\ told = [status |-> status, date |-> None]
    /\ job = [w \in Workers |-> Resting]
    /\ up \in BOOLEAN /\ decisive \in BOOLEAN
    /\ silent = FALSE
    /\ flips = 0 /\ faults = 0 /\ hands = 0
-----------------------------------------------------------------------------
(* The firm.                                                                 *)

Flip ==
    /\ flips < MaxFlips
    /\ up' = ~up
    /\ flips' = flips + 1
    /\ job' = [w \in Workers |-> IF job[w].pc = "rest" THEN job[w]
                                   ELSE [job[w] EXCEPT !.down = TRUE]]
    /\ UNCHANGED <<row, told, decisive, silent, faults, hands>>
-----------------------------------------------------------------------------
(* scrape: fetch_many, then ingest_results in one transaction over every     *)
(* posting: it begins, comes to this row, loads it if the posting was        *)
(* listed, and ends.  What it writes is seen when it commits; READ COMMITTED  *)
(* shows it what others commit meanwhile.                                    *)

Outcomes == {"failed", "blank", "partial", "full"}

\* A pair with one board and open rows is lent their number, and a blank
\* answer then counts as a failure; with two boards the rows belong to neither.
BankedRows == Cardinality(Boards) = 1 /\ row.status = "open"

Answered(out, b) == out[b] \in {"partial", "full"} \/ (out[b] = "blank" /\ ~BankedRows)

\* Mutant of Complete: a truncated list is read like a whole one.
CompleteThoughPartial(out, seen) == seen /\ \A b \in Boards : Answered(out, b)

\* Absence means something: every board of the pair answered, none in part, and
\* they were not all empty at once.  (With no posting listed at all a scrape
\* closes nothing, whether or not rows are open.)
Complete(out, seen) ==
    /\ \A b \in Boards : Answered(out, b)
    /\ \A b \in Boards : out[b] # "partial"
    /\ seen

\* What the fetch of the pair amounts to, others the boards that list other
\* postings.
Heard(out, listed, others) ==
    [listed   |-> listed,
     complete |-> Complete(out, listed \/ others # {}),
     blank    |-> out[Home] = "blank" /\ Complete(out, others # {}),
     omitted  |-> out[Home] = "full" /\ up /\ ~listed]

\* The boards have answered and ingest_results begins its transaction.
Fetch(w) ==
    /\ w = Cron /\ MayStart(w, "rest")
    /\ \E out \in [Boards -> Outcomes], listed \in BOOLEAN, others \in SUBSET Boards :
        /\ listed => up /\ out[Home] \in {"partial", "full"}
        /\ \A b \in others : out[b] \in {"partial", "full"}
        /\ faults' = IF (\A b \in Boards : out[b] = "full") /\ listed = up THEN faults ELSE faults + 1
        /\ faults' <= MaxFaults
        /\ Begin(w, "ingesting", None, Heard(out, listed, others))
    /\ CountHand(w)
    /\ UNCHANGED <<row, told, up, decisive, silent, flips>>

\* The payload's own date wins; prose answers only where it says nothing.
FinalDate(api, prose) == IF api # None THEN api ELSE prose
FinalConf(api, prose) == IF api # None THEN Sure ELSE IF prose # None THEN Reported ELSE 0

NewRow(api, prose) ==
    [status |-> "open", date |-> FinalDate(api, prose), conf |-> FinalConf(api, prose)]

\* Mutant of DatedAgain: the better confidence of two different dates.
DatedAtBest(old, api, prose, changed) ==
    IF FinalDate(api, prose) # None
      THEN [date |-> FinalDate(api, prose), conf |-> Larger(old.conf, FinalConf(api, prose))]
      ELSE [date |-> old.date, conf |-> old.conf]

\* A date is replaced with its own confidence and kept with the better of the
\* two; silence keeps it, unless the posting moved under a reading of ours.
DatedAgain(old, api, prose, changed) ==
    LET date == FinalDate(api, prose) IN
    IF date # None
      THEN [date |-> date,
            conf |-> IF date = old.date THEN Larger(old.conf, FinalConf(api, prose))
                                        ELSE FinalConf(api, prose)]
      ELSE IF changed /\ old.conf < Sure /\ old.date # None
             THEN [date |-> None, conf |-> 0]
             ELSE [date |-> old.date, conf |-> old.conf]

\* The row as loaded, seen again; it is saved whole.
SeenRow(old, api, prose, changed) ==
    LET d == DatedAgain(old, api, prose, changed) IN
    [status |-> "open", date |-> d.date, conf |-> d.conf]

\* Closed because the boards were read whole and none lists it.
ClosePass(r, heard) ==
    IF heard.complete /\ ~heard.listed /\ r.status = "open"
      THEN [r EXCEPT !.status = "closed"]
      ELSE r

\* The posting is listed, with a date of its own or one in its prose: its row is
\* loaded, without a lock.
LoadListed(w) ==
    /\ job[w].pc = "ingesting" /\ job[w].heard.listed
    /\ \E api, prose \in MaybeDate :
        /\ api = None \/ prose = None
        /\ job' = [job EXCEPT ![w] = [pc |-> "writing", snap |-> row,
                                      heard |-> [api |-> api, prose |-> prose],
                                      pending |-> {}, outrun |-> @.outrun,
                                      last |-> @.last, down |-> @.down]]
    /\ UNCHANGED <<row, told, up, decisive, silent, flips, faults, hands>>

\* The commit, with the records of these moves.
CommitIngest(w, new, moves) ==
    /\ row' = new
    /\ silent' = (silent \/ Unsaid(w, new, moves))
    /\ told' = IF silent' THEN Untold ELSE Recorded(w, new, moves)
    /\ Outrun(w, IF job[w].last THEN moves ELSE {}, Next1(w, "enrich"))
    /\ UNCHANGED <<up, decisive, flips, faults, hands>>

\* Every field it moved from what it loaded has a record; with its creation a
\* row's records begin.  Whether the posting's content changed is left open.
WriteListed(w) ==
    /\ job[w].pc = "writing"
    /\ LET old == job[w].snap
           said == job[w].heard
       IN  \/ /\ old.status = "absent"
              /\ CommitIngest(w, NewRow(said.api, said.prose), Fields)
           \/ /\ old.status # "absent"
              /\ \E changed \in BOOLEAN :
                  LET new == SeenRow(old, said.api, said.prose, changed)
                  IN  CommitIngest(w, new, MovedFields(old, new))

CloseMissing(w) ==
    /\ job[w].pc = "ingesting" /\ ~job[w].heard.listed
    /\ LET new == ClosePass(row, job[w].heard) IN CommitIngest(w, new, MovedFields(row, new))
-----------------------------------------------------------------------------
(* enrich_postings: reads the posting's own page.                            *)

\* Open rows only on the schedule; --ids takes any row.
LoadEnrich(w) ==
    /\ MayStart(w, "enrich")
    /\ row.status # "absent"
    /\ w = Cron => row.status = "open"
    /\ Begin(w, "enriching", row, None)
    /\ CountHand(w)
    /\ UNCHANGED <<row, told, up, decisive, silent, flips, faults>>

\* Nothing in the queue, or its pages were read lately.
SkipEnrich ==
    /\ job[Cron].pc = "enrich"
    /\ Finish(Cron, "check")
    /\ UNCHANGED <<row, told, up, decisive, silent, flips, faults, hands>>

\* A page may fill a missing date and correct a reading of ours, judged by the
\* row as it was loaded; it keeps no change record.
PageDate(snap, page) ==
    IF page # None /\ (snap.date = None \/ (snap.conf < Sure /\ page # snap.date))
      THEN [date |-> page,
            conf |-> IF snap.conf >= Sure THEN Larger(snap.conf, Reported) ELSE Reported]
      ELSE [date |-> row.date, conf |-> row.conf]

SavePage(w) ==
    /\ job[w].pc = "enriching"
    /\ \E page \in MaybeDate :
        LET d == PageDate(job[w].snap, page) IN
        /\ row' = Dated(row, d)
        /\ silent' = (silent \/ Unsaid(w, row', {}))
    /\ told' = IF silent' THEN Untold ELSE told
    /\ Finish(w, "check")
    /\ UNCHANGED <<up, decisive, flips, faults, hands>>
-----------------------------------------------------------------------------
(* reverify: asks the provider about one row, saves it, and writes the       *)
(* change records of the whole pass at its end.                              *)

LoadCheck(w) ==
    /\ MayStart(w, "check")
    /\ row.status # "absent"
    /\ w = Cron => row.status = "open"
    /\ Begin(w, "checking", row, None)
    /\ CountHand(w)
    /\ UNCHANGED <<row, told, up, decisive, silent, flips, faults>>

\* The row is closed, was looked at lately, or the run's budget goes to others.
SkipCheck ==
    /\ job[Cron].pc = "check"
    /\ Finish(Cron, "rest")
    /\ UNCHANGED <<row, told, up, decisive, silent, flips, faults, hands>>

\* The provider says whether the posting is live, and maybe its date, or it
\* cannot be reached.  Of most providers' endpoints that; some have none that
\* tells a posting that is gone: they answer "needs-verification" or find the
\* page still served, and never say "closed".
Ask(w) ==
    /\ job[w].pc = "checking"
    /\ \E verdict \in {"verified-open", "closed", "unreachable", "needs-verification"}, fresh \in MaybeDate :
        /\ verdict = "verified-open" => up \/ ~decisive
        /\ verdict = "closed" => ~up /\ decisive
        /\ verdict = "needs-verification" => ~decisive
        /\ verdict # "verified-open" => fresh = None
        /\ faults' = IF verdict = "unreachable" THEN faults + 1 ELSE faults
        /\ faults' <= MaxFaults
        /\ job' = [job EXCEPT ![w] = [pc |-> "asked", snap |-> @.snap,
                                      heard |-> [verdict |-> verdict, fresh |-> fresh],
                                      pending |-> {}, outrun |-> @.outrun,
                                      last |-> @.last, down |-> @.down]]
    /\ UNCHANGED <<row, told, up, decisive, silent, flips, hands>>

VerifyConfidence == IF StructuredVerify THEN Sure ELSE Reported

\* Mutant of Verified: a sweep that only ever refreshes.
VerifiedNeverDead(snap, heard) == [row |-> row, moves |-> {}]

\* What the verdict writes over the row, and which fields it says it moved.
\* The row was loaded before the network was asked.
Verified(snap, heard) ==
    IF heard.verdict = "verified-open" /\ snap.status # "closed" /\ heard.fresh # None
      THEN [row   |-> Dated(row,
                            [date |-> heard.fresh,
                             conf |-> IF heard.fresh # snap.date THEN VerifyConfidence
                                      ELSE Larger(snap.conf, VerifyConfidence)]),
            moves |-> IF heard.fresh # snap.date THEN {"date"} ELSE {}]
    ELSE IF heard.verdict = "closed" /\ snap.status # "closed"
      THEN [row |-> [row EXCEPT !.status = "closed"], moves |-> {"status"}]
    ELSE [row |-> row, moves |-> {}]

SaveCheck(w) ==
    /\ job[w].pc = "asked"
    /\ LET v == Verified(job[w].snap, job[w].heard) IN
        /\ row' = v.row
        /\ silent' = (silent \/ Unsaid(w, v.row, v.moves))
        /\ job' = [job EXCEPT ![w] = IF v.moves = {} THEN Resting
                                     ELSE [pc |-> "saved", snap |-> v.row, heard |-> None,
                                           pending |-> v.moves, outrun |-> @.outrun,
                                           last |-> @.last, down |-> @.down]]
    /\ told' = IF silent' THEN Untold ELSE told
    /\ UNCHANGED <<up, decisive, flips, faults, hands>>

\* bulk_create of the pass's records, all stamped with its start.
Flush(w) ==
    /\ job[w].pc = "saved"
    /\ told' = IF silent THEN told ELSE Recorded(w, job[w].snap, job[w].pending)
    /\ Outrun(w, IF job[w].last THEN job[w].pending ELSE {}, "rest")
    /\ UNCHANGED <<row, up, decisive, silent, flips, faults, hands>>
-----------------------------------------------------------------------------
(* The two repair commands: each acts on the rows it found in one status,    *)
(* after the provider confirms; neither keeps a change record.               *)

LoadRepair ==
    /\ MayStart(Hand, "rest")
    /\ row.status # "absent"
    /\ Begin(Hand, IF row.status = "open" THEN "closing" ELSE "reopening", row, None)
    /\ CountHand(Hand)
    /\ UNCHANGED <<row, told, up, decisive, silent, flips, faults>>

SaveRepair ==
    /\ job[Hand].pc \in {"closing", "reopening"}
    /\ \E confirmed \in BOOLEAN :
        LET status == IF ~confirmed THEN row.status
                      ELSE IF job[Hand].pc = "closing" THEN "closed" ELSE "open" IN
        /\ confirmed /\ job[Hand].pc = "closing" => ~up /\ decisive
        /\ confirmed /\ job[Hand].pc = "reopening" => up \/ ~decisive
        /\ row' = [row EXCEPT !.status = status]
        /\ silent' = (silent \/ Unsaid(Hand, row', {}))
    /\ told' = IF silent' THEN Untold ELSE told
    /\ Finish(Hand, "rest")
    /\ UNCHANGED <<up, decisive, flips, faults, hands>>
-----------------------------------------------------------------------------
\* A pass dies: what it saved stays, what it had yet to record is lost.  The
\* schedule starts over with a scrape.
Kill(w) ==
    /\ job[w].pc # "rest"
    /\ faults < MaxFaults
    /\ faults' = faults + 1
    /\ silent' = (silent \/ job[w].pending # {})
    /\ told' = IF silent' THEN Untold ELSE told
    /\ job' = [job EXCEPT ![w] = Resting]
    /\ UNCHANGED <<row, up, decisive, flips, hands>>

Step(w) ==
    \/ Fetch(w) \/ LoadListed(w) \/ WriteListed(w) \/ CloseMissing(w)
    \/ LoadEnrich(w) \/ SavePage(w)
    \/ LoadCheck(w) \/ Ask(w) \/ SaveCheck(w) \/ Flush(w)

CronStep == Step(Cron) \/ SkipEnrich \/ SkipCheck
HandStep == Step(Hand) \/ LoadRepair \/ SaveRepair

Next == CronStep \/ HandStep \/ Flip \/ \E w \in Workers : Kill(w)

\* The schedule comes round every six hours, a started command goes on to its
\* end, and reverify's queue, oldest looks first, gets round to every open row.
Fairness == /\ WF_vars(CronStep)
            /\ WF_vars(job[Hand].pc # "rest" /\ HandStep)
            /\ SF_vars(LoadCheck(Cron))

Safety == Init /\ [][Next]_vars
Spec == Safety /\ Fairness
-----------------------------------------------------------------------------
RowType == [status : {"absent", "open", "closed"}, date : MaybeDate,
            conf : {0, Reported, Sure}]

\* The row, the records and the workers' memory keep their shapes, a row with
\* no date claims no confidence in one, and a row never seen has no records.
TypeOK ==
    /\ row \in RowType
    /\ (row.date = None) <=> (row.conf = 0)
    /\ told \in [status : {"absent", "open", "closed"}, date : MaybeDate]
    /\ \A w \in Workers :
        /\ job[w].pc \in {"rest", "ingesting", "writing", "enrich", "enriching", "check",
                          "checking", "asked", "saved", "closing", "reopening"}
        /\ job[w].pc \in {"enriching", "checking", "asked", "closing", "reopening"} =>
             job[w].snap.status \in {"open", "closed"}
        /\ job[w].pending \subseteq Fields
    /\ job[Cron].pc \notin {"closing", "reopening"}
    /\ up \in BOOLEAN /\ decisive \in BOOLEAN /\ silent \in BOOLEAN
    /\ flips \in 0..MaxFlips /\ faults \in 0..MaxFaults /\ hands \in 0..MaxHand

\* A date is shown as the board's own only if a structured field states it: the
\* row's date and its certainty are what they were, or the payload's own field
\* has just stated this day, or the verify endpoint's, or a pass writes back
\* what it loaded - whichever passes overlap (ingest's no-downgrade rules,
\* _verify_confidence, enrich_postings' bound).
ConfidenceHonest ==
    [][row'.conf = Sure =>
        \/ row.conf = Sure /\ row'.date = row.date
        \/ \E w \in Workers :
            \/ job[w].pc = "writing" /\ job[w].heard.api = row'.date
            \/ job[w].pc \in {"writing", "enriching", "asked"} /\ job[w].snap.conf = Sure
                 /\ job[w].snap.date = row'.date
            \/ job[w].pc = "asked" /\ StructuredVerify /\ job[w].heard.fresh = row'.date]_vars

\* A posting leaves the feed only for a reason: it was in fact down while the
\* pass that closed it ran, or the scrape that closed it had read every board
\* of the pair whole and the posting's own board had left it out of its full
\* list (the lists and detail pages of some providers disagree), or had answered
\* blank beside another board that listed postings.  A failed or truncated fetch
\* of any board, a blank answer of the pair's only board, a verify that cannot
\* say and a pass that judges by what it loaded long ago close nothing.
NoFalseClose ==
    [][row.status = "open" /\ row'.status = "closed" =>
        \E w \in Workers :
            /\ job[w] # job'[w]
            /\ \/ job[w].down
               \/ /\ job[w].pc = "ingesting" /\ job[w].heard.complete
                  /\ \/ job[w].heard.omitted
                     \/ job[w].heard.blank /\ Cardinality(Boards) > 1]_vars

\* With no pass about to write its records, the change records explain the
\* row: status and deadline are what the newest of them says.  Unless the row
\* moved with no record to show: by a command or a page that keeps none, by a
\* pass that wrote back what it had loaded before another one changed it, or by
\* one that died before writing its records; or unless a pass moved a field
\* that one begun after it had moved already: records sort by the moment their
\* pass began, and the row shows who wrote last.
RecordsExplain ==
    (\A w \in Workers : job[w].pending = {}) /\ ~silent
        => told = [status |-> row.status, date |-> row.date]

\* A scrape of the pair from whose answer absence may be read.
ReadWhole == job[Cron].pc = "ingesting" /\ job[Cron].heard.complete

\* Accuracy heals, once the firm has made up its mind, the network has stopped
\* failing and the boards leave nothing out: the row ends up open exactly if the
\* posting is live - the last posting of its boards too, whose closing a scrape
\* refuses to believe and reverify's verdict brings about.  Only where verify
\* cannot say "closed" and no scrape has another posting on the boards to go by
\* does a row stay open for good; that the live ones end up open holds there too.
Converges ==
    \/ <>[](row.status = "open" <=> up)
    \/ <>[](~decisive /\ ~ReadWhole /\ (up => row.status = "open"))
=============================================================================
