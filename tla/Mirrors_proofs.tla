--------------------------- MODULE Mirrors_proofs ---------------------------
(* Theorems about the modules in which a row mirrors something that is kept  *)
(* elsewhere: Directory (a firm's posting) and, in the second half,          *)
(* CalendarMirror (an event in Google Calendar).                             *)
EXTENDS Directory, CalendarMirror, FiniteSetTheorems, SequenceTheorems, TLAPS

USE DEF Sure, Reported

-----------------------------------------------------------------------------
(* What a worker remembers, whatever it is in the middle of.               *)

AtRest   == {"rest", "enrich", "check"}
Holding  == {"enriching", "checking", "asked", "closing", "reopening"}
Watching == Holding \union {"ingesting"}

Snaps == [status : {"open", "closed"}, date : MaybeDate, conf : {0, Reported, Sure}]
ScrapeNews == [listed : BOOLEAN, complete : BOOLEAN, blank : BOOLEAN, omitted : BOOLEAN]
PayloadNews == [api : MaybeDate, prose : MaybeDate]
VerifyNews == [verdict : {"verified-open", "closed", "unreachable", "needs-verification"},
               fresh : MaybeDate]
Memories == RowType \union {None}
News == ScrapeNews \union PayloadNews \union VerifyNews \union {None}

Jobs == [pc : AtRest \union Watching \union {"writing", "saved"}, snap : Memories, heard : News,
         pending : SUBSET Fields, outrun : SUBSET Fields, last : BOOLEAN, down : BOOLEAN]

\* A row or a snapshot without a date claims no confidence in one.
Sound(r) == (r.date = None) <=> (r.conf = 0)

\* A pass that has seen the posting missing has good reason to believe it.
Reason(j) ==
    /\ j.pc = "ingesting" /\ j.heard.complete /\ ~j.heard.listed =>
         j.down \/ j.heard.omitted \/ (j.heard.blank /\ Cardinality(Boards) > 1)
    /\ j.pc = "asked" /\ j.heard.verdict = "closed" => j.down

\* The shape of a worker's memory, by where it is.
JobOK(j) ==
    /\ j \in Jobs
    /\ j.pc \in Holding => j.snap \in Snaps /\ Sound(j.snap)
    /\ j.pc = "ingesting" => j.heard \in ScrapeNews
    /\ j.pc = "writing" => j.snap \in RowType /\ Sound(j.snap) /\ j.heard \in PayloadNews
    /\ j.pc = "asked" => j.heard \in VerifyNews
    /\ j.pc = "saved" => j.snap \in RowType
    /\ j.pending # {} => j.pc = "saved"
    /\ j.pc \in AtRest => ~j.last
    /\ Reason(j)

\* A pass under way knows that the posting has been down.
Watches(j, live) == j.pc \in Watching /\ ~live => j.down

RowOK(r) == r \in RowType /\ Sound(r)

\* What change records say of a row.
Says == [status : {"absent", "open", "closed"}, date : MaybeDate]

\* The types, with the workers' memory.
MemoryInv ==
    /\ RowOK(row)
    /\ told \in Says
    /\ job \in [Workers -> Jobs]
    /\ \A w \in Workers : JobOK(job[w]) /\ Watches(job[w], up)
    /\ job[Cron].pc \notin {"closing", "reopening"}
    /\ up \in BOOLEAN /\ decisive \in BOOLEAN /\ silent \in BOOLEAN
    /\ flips \in 0..MaxFlips /\ faults \in 0..MaxFaults /\ hands \in 0..MaxHand

-----------------------------------------------------------------------------
(* What the passes make of a row.                                          *)

\* Prose and the payload never state a date that is none.
LEMMA FinalFacts ==
    ASSUME NEW api \in MaybeDate, NEW prose \in MaybeDate
    PROVE  /\ FinalDate(api, prose) \in MaybeDate
           /\ FinalConf(api, prose) \in {0, Reported, Sure}
           /\ (FinalDate(api, prose) = None) <=> (FinalConf(api, prose) = 0)
           /\ FinalConf(api, prose) = Sure <=> api # None
BY DatesAssumption DEF FinalDate, FinalConf, MaybeDate

\* The better of two confidences is one of them.
LEMMA LargerConf ==
    ASSUME NEW a \in {0, Reported, Sure}, NEW b \in {0, Reported, Sure}
    PROVE  /\ Larger(a, b) \in {0, Reported, Sure}
           /\ Larger(a, b) = 0 <=> a = 0 /\ b = 0
           /\ Larger(a, b) = Sure <=> a = Sure \/ b = Sure
BY DEF Larger

\* A posting met for the first time.
LEMMA NewRowOK ==
    ASSUME NEW api \in MaybeDate, NEW prose \in MaybeDate
    PROVE  /\ RowOK(NewRow(api, prose))
           /\ NewRow(api, prose).status = "open"
           /\ NewRow(api, prose).conf = Sure => NewRow(api, prose).date = api
<1>1. /\ FinalDate(api, prose) \in MaybeDate
      /\ FinalConf(api, prose) \in {0, Reported, Sure}
      /\ (FinalDate(api, prose) = None) <=> (FinalConf(api, prose) = 0)
      /\ FinalConf(api, prose) = Sure <=> api # None
  BY FinalFacts
<1>2. FinalConf(api, prose) = Sure => FinalDate(api, prose) = api
  BY <1>1 DEF FinalDate
<1>3. QED
  BY <1>1, <1>2 DEF NewRow, RowOK, RowType, Sound

\* A posting met again: what is certain was certain, or the payload says it.
LEMMA SeenRowOK ==
    ASSUME NEW old, RowOK(old), NEW api \in MaybeDate, NEW prose \in MaybeDate,
           NEW changed \in BOOLEAN
    PROVE  LET new == SeenRow(old, api, prose, changed) IN
           /\ RowOK(new)
           /\ new.status = "open"
           /\ new.conf = Sure => \/ old.conf = Sure /\ new.date = old.date
                                 \/ new.date = api
<1> DEFINE d == DatedAgain(old, api, prose, changed)
           new == SeenRow(old, api, prose, changed)
<1>1. /\ old \in RowType /\ Sound(old) /\ old.date \in MaybeDate
      /\ old.conf \in {0, Reported, Sure}
  BY DEF RowOK, RowType
<1>2. /\ FinalDate(api, prose) \in MaybeDate
      /\ FinalConf(api, prose) \in {0, Reported, Sure}
      /\ (FinalDate(api, prose) = None) <=> (FinalConf(api, prose) = 0)
      /\ FinalConf(api, prose) = Sure <=> api # None
      /\ FinalConf(api, prose) = Sure => FinalDate(api, prose) = api
  BY FinalFacts DEF FinalDate
<1>3. /\ Larger(old.conf, FinalConf(api, prose)) \in {0, Reported, Sure}
      /\ Larger(old.conf, FinalConf(api, prose)) = 0 <=>
           old.conf = 0 /\ FinalConf(api, prose) = 0
      /\ Larger(old.conf, FinalConf(api, prose)) = Sure <=>
           old.conf = Sure \/ FinalConf(api, prose) = Sure
  BY <1>1, <1>2, LargerConf
<1>4. /\ d.date \in MaybeDate /\ d.conf \in {0, Reported, Sure}
      /\ (d.date = None) <=> (d.conf = 0)
      /\ d.conf = Sure => (old.conf = Sure /\ d.date = old.date) \/ d.date = api
  <2>1. None \in MaybeDate
    BY DEF MaybeDate
  <2>2. CASE FinalDate(api, prose) # None
    <3>1. /\ d.date = FinalDate(api, prose)
          /\ d.conf = IF d.date = old.date THEN Larger(old.conf, FinalConf(api, prose))
                                          ELSE FinalConf(api, prose)
      BY <2>2 DEF DatedAgain
    <3>2. QED
      BY <1>2, <1>3, <2>2, <3>1
  <2>3. CASE FinalDate(api, prose) = None
    <3>1. \/ d.date = None /\ d.conf = 0
          \/ d.date = old.date /\ d.conf = old.conf
      BY <2>3 DEF DatedAgain
    <3>2. QED
      BY <1>1, <2>1, <3>1 DEF Sound
  <2>4. QED
    BY <2>2, <2>3
<1> HIDE DEF d
<1>5. new = [status |-> "open", date |-> d.date, conf |-> d.conf]
  BY DEF SeenRow, d
<1>6. QED
  BY <1>4, <1>5 DEF RowOK, RowType, Sound

\* Closing changes the status alone.
LEMMA ClosePassOK ==
    ASSUME NEW r, RowOK(r), NEW heard
    PROVE  LET c == ClosePass(r, heard) IN
           /\ RowOK(c)
           /\ c.date = r.date /\ c.conf = r.conf
           /\ c.status # r.status =>
                /\ c.status = "closed" /\ r.status = "open"
                /\ heard.complete /\ ~heard.listed
BY DEF ClosePass, RowOK, RowType, Sound

\* What a page writes over the row: a reading of ours, unless the row it was
\* judged by claimed a date without having one.
LEMMA PageRowOK ==
    ASSUME RowOK(row), NEW snap \in Snaps, Sound(snap), NEW page \in MaybeDate
    PROVE  LET new == Dated(row, PageDate(snap, page)) IN
           /\ RowOK(new)
           /\ new.status = row.status
           /\ new.conf = Sure => row.conf = Sure /\ new.date = row.date
<1> DEFINE d == PageDate(snap, page)
<1>1. /\ row \in RowType /\ Sound(row) /\ row.date \in MaybeDate
      /\ row.conf \in {0, Reported, Sure}
      /\ snap.conf \in {0, Reported, Sure}
  BY DEF RowOK, RowType, Snaps
<1>2. \/ d.date = row.date /\ d.conf = row.conf
      \/ page # None /\ d.date = page /\ d.conf = Reported
  BY <1>1 DEF PageDate, Sound
<1>3. /\ d.date \in MaybeDate /\ d.conf \in {0, Reported, Sure}
      /\ (d.date = None) <=> (d.conf = 0)
  BY <1>1, <1>2 DEF Sound
<1> HIDE DEF d
<1>4. Dated(row, d) = [status |-> row.status, date |-> d.date, conf |-> d.conf]
  BY DEF Dated
<1>5. QED
  BY <1>1, <1>2, <1>3, <1>4 DEF RowOK, RowType, Sound, d

\* What a verdict writes over the row, and which fields it says it moved.
LEMMA VerifiedOK ==
    ASSUME RowOK(row), NEW snap \in Snaps, Sound(snap), NEW heard \in VerifyNews
    PROVE  LET v == Verified(snap, heard) IN
           /\ RowOK(v.row) /\ v.moves \in SUBSET Fields
           /\ v.row.status # row.status => heard.verdict = "closed"
           /\ v.row.conf = Sure =>
                \/ row.conf = Sure /\ v.row.date = row.date
                \/ snap.conf = Sure /\ snap.date = v.row.date
                \/ StructuredVerify /\ heard.fresh = v.row.date
<1> DEFINE v == Verified(snap, heard)
           c == IF heard.fresh # snap.date THEN VerifyConfidence
                ELSE Larger(snap.conf, VerifyConfidence)
<1>1. /\ row \in RowType /\ Sound(row) /\ row.date \in MaybeDate
      /\ row.conf \in {0, Reported, Sure} /\ row.status \in {"absent", "open", "closed"}
      /\ snap.conf \in {0, Reported, Sure} /\ heard.fresh \in MaybeDate
  BY DEF RowOK, RowType, Snaps, VerifyNews
<1>2. /\ VerifyConfidence \in {Reported, Sure}
      /\ VerifyConfidence = Sure => StructuredVerify
  BY DEF VerifyConfidence
<1>3. /\ c \in {Reported, Sure}
      /\ c = Sure => StructuredVerify \/ (snap.conf = Sure /\ snap.date = heard.fresh)
  BY <1>1, <1>2, LargerConf DEF Larger
<1>4. CASE heard.verdict = "verified-open" /\ snap.status # "closed" /\ heard.fresh # None
  <2>1. /\ v.row = Dated(row, [date |-> heard.fresh, conf |-> c])
        /\ v.moves = IF heard.fresh # snap.date THEN {"date"} ELSE {}
    BY <1>4 DEF Verified
  <2> HIDE DEF v, c
  <2>2. v.row = [status |-> row.status, date |-> heard.fresh, conf |-> c]
    BY <2>1 DEF Dated
  <2>3. RowOK(v.row)
    BY <1>1, <1>3, <1>4, <2>2 DEF RowOK, RowType, Sound
  <2>4. v.row.status = row.status /\ v.row.date = heard.fresh /\ v.row.conf = c
    BY <2>2
  <2>5. QED
    BY <1>3, <2>1, <2>3, <2>4 DEF Fields, v
<1>5. CASE heard.verdict = "closed" /\ snap.status # "closed"
  <2>1. v.row = [row EXCEPT !.status = "closed"] /\ v.moves = {"status"}
    BY <1>5 DEF Verified
  <2> HIDE DEF v
  <2>2. QED
    BY <1>1, <1>5, <2>1 DEF RowOK, RowType, Sound, Fields, v
<1>6. CASE /\ ~(heard.verdict = "verified-open" /\ snap.status # "closed" /\ heard.fresh # None)
           /\ ~(heard.verdict = "closed" /\ snap.status # "closed")
  <2>1. v.row = row /\ v.moves = {}
    BY <1>6 DEF Verified
  <2> HIDE DEF v
  <2>2. QED
    BY <1>1, <2>1 DEF RowOK, RowType, Sound, Fields, v
<1>7. QED
  BY <1>4, <1>5, <1>6
-----------------------------------------------------------------------------
(* What the steps make of the workers' memory.                             *)

\* A worker at rest remembers nothing.
LEMMA RestingOK ==
    ASSUME NEW pc \in AtRest, NEW live
    PROVE  /\ JobOK(RestingAt(pc)) /\ Watches(RestingAt(pc), live)
           /\ RestingAt(pc).pc = pc /\ RestingAt(pc).pending = {}
           /\ RestingAt(pc).outrun = {} /\ ~RestingAt(pc).last
BY DEF RestingAt, JobOK, Jobs, Memories, News, Reason, Watches, AtRest, Watching, Holding, Fields

\* A memory that differs in its flags, in shape like the other.
LEMMA LikeOK ==
    ASSUME NEW j, JobOK(j), NEW k \in Jobs, k.pc = j.pc, k.snap = j.snap,
           k.heard = j.heard, k.pending = j.pending, k.last => j.last, j.down => k.down
    PROVE  JobOK(k)
<1>1. Reason(k)
  BY DEF JobOK, Reason, Jobs
<1>2. QED
  BY <1>1 DEF JobOK, Jobs

\* Another pass begins.
LEMMA NotLastOK ==
    ASSUME NEW j, JobOK(j)
    PROVE  LET k == [j EXCEPT !.last = FALSE] IN
           /\ JobOK(k) /\ ~k.last /\ k.down = j.down
           /\ k.pc = j.pc /\ k.snap = j.snap /\ k.pending = j.pending /\ k.outrun = j.outrun
<1> DEFINE k == [j EXCEPT !.last = FALSE]
<1>1. /\ k \in Jobs /\ k.pc = j.pc /\ k.snap = j.snap /\ k.heard = j.heard
      /\ k.pending = j.pending /\ ~k.last /\ k.down = j.down /\ k.outrun = j.outrun
  BY DEF JobOK, Jobs
<1> HIDE DEF k
<1>2. JobOK(k)
  BY <1>1, LikeOK DEF JobOK, Jobs
<1>3. QED
  BY <1>1, <1>2 DEF k

\* Another pass leaves records.
LEMMA OutrunByOK ==
    ASSUME NEW j, JobOK(j), NEW fields \in SUBSET Fields
    PROVE  LET k == [j EXCEPT !.outrun = @ \union fields] IN
           /\ JobOK(k) /\ k.last = j.last /\ k.down = j.down
           /\ k.pc = j.pc /\ k.snap = j.snap /\ k.pending = j.pending
           /\ k.outrun = j.outrun \union fields
<1> DEFINE k == [j EXCEPT !.outrun = @ \union fields]
<1>1. /\ k \in Jobs /\ k.pc = j.pc /\ k.snap = j.snap /\ k.heard = j.heard
      /\ k.pending = j.pending /\ k.last = j.last /\ k.down = j.down
      /\ k.outrun = j.outrun \union fields
  BY DEF JobOK, Jobs
<1> HIDE DEF k
<1>2. JobOK(k)
  BY <1>1, LikeOK DEF JobOK, Jobs
<1>3. QED
  BY <1>1, <1>2 DEF k

\* The firm takes the posting down, or puts it back.
LEMMA DownOK ==
    ASSUME NEW j, JobOK(j)
    PROVE  LET k == [j EXCEPT !.down = TRUE] IN
           /\ JobOK(k) /\ k.last = j.last /\ k.down
           /\ k.pc = j.pc /\ k.snap = j.snap /\ k.pending = j.pending /\ k.outrun = j.outrun
<1> DEFINE k == [j EXCEPT !.down = TRUE]
<1>1. /\ k \in Jobs /\ k.pc = j.pc /\ k.snap = j.snap /\ k.heard = j.heard
      /\ k.pending = j.pending /\ k.last = j.last /\ k.down /\ k.outrun = j.outrun
  BY DEF JobOK, Jobs
<1> HIDE DEF k
<1>2. JobOK(k)
  BY <1>1, LikeOK DEF JobOK, Jobs
<1>3. QED
  BY <1>1, <1>2 DEF k

\* The memory a pass begins with.
Fresh(pc, snap, heard) ==
    [pc |-> pc, snap |-> snap, heard |-> heard, pending |-> {}, outrun |-> {},
     last |-> TRUE, down |-> ~up]

\* It is a memory, if what it holds may be held.
LEMMA FreshJob ==
    ASSUME up \in BOOLEAN, NEW pc \in Watching, NEW snap \in Memories, NEW heard \in News
    PROVE  LET j == Fresh(pc, snap, heard) IN
           /\ j \in Jobs
           /\ j.pc = pc /\ j.snap = snap /\ j.heard = heard /\ j.pending = {}
           /\ j.outrun = {} /\ j.last /\ j.down = ~up
<1>1. (~up) \in BOOLEAN /\ TRUE \in BOOLEAN /\ {} \in SUBSET Fields
  OBVIOUS
<1>2. pc \in AtRest \union Watching \union {"writing", "saved"}
  OBVIOUS
<1>3. QED
  BY <1>1, <1>2 DEF Fresh, Jobs

\* A pass begins.
LEMMA BeginOK ==
    ASSUME MemoryInv, NEW w \in Workers, NEW pc \in Watching, NEW snap, NEW heard,
           Begin(w, pc, snap, heard), UNCHANGED up,
           JobOK(Fresh(pc, snap, heard))
    PROVE  /\ job' \in [Workers -> Jobs]
           /\ \A v \in Workers : JobOK(job'[v]) /\ Watches(job'[v], up')
           /\ job'[w] = Fresh(pc, snap, heard)
           /\ \A v \in Workers \ {w} :
                /\ job'[v].pc = job[v].pc /\ job'[v].snap = job[v].snap /\ ~job'[v].last
                /\ job'[v].pending = job[v].pending /\ job'[v].outrun = job[v].outrun
<1>1. job' = [v \in Workers |-> IF v = w THEN Fresh(pc, snap, heard)
                                ELSE [job[v] EXCEPT !.last = FALSE]]
  BY DEF Begin, Fresh
<1>2. job'[w] = Fresh(pc, snap, heard) /\ Watches(job'[w], up')
  BY <1>1 DEF Fresh, Watches
<1>3. ASSUME NEW v \in Workers \ {w}
      PROVE  /\ JobOK(job'[v]) /\ Watches(job'[v], up')
             /\ job'[v].pc = job[v].pc /\ job'[v].snap = job[v].snap /\ ~job'[v].last
             /\ job'[v].pending = job[v].pending /\ job'[v].outrun = job[v].outrun
  <2>1. JobOK(job[v]) /\ Watches(job[v], up)
    BY DEF MemoryInv
  <2>2. job'[v] = [job[v] EXCEPT !.last = FALSE]
    BY <1>1
  <2>3. /\ JobOK(job'[v]) /\ ~job'[v].last /\ job'[v].down = job[v].down
        /\ job'[v].pc = job[v].pc /\ job'[v].snap = job[v].snap /\ job'[v].pending = job[v].pending
        /\ job'[v].outrun = job[v].outrun
    BY <2>1, <2>2, NotLastOK
  <2>4. QED
    BY <2>1, <2>3 DEF Watches
<1>4. \A v \in Workers : JobOK(job'[v]) /\ Watches(job'[v], up')
  BY <1>2, <1>3
<1>5. \A v \in Workers : job'[v] \in Jobs
  BY <1>4 DEF JobOK
<1>6. job' \in [Workers -> Jobs]
  BY <1>1, <1>5
<1>7. QED
  BY <1>2, <1>3, <1>4, <1>6

\* A pass ends and leaves records behind.
LEMMA OutrunOK ==
    ASSUME MemoryInv, NEW w \in Workers, NEW fields \in SUBSET Fields,
           NEW stage \in AtRest, Outrun(w, fields, stage), UNCHANGED up
    PROVE  /\ job' \in [Workers -> Jobs]
           /\ \A v \in Workers : JobOK(job'[v]) /\ Watches(job'[v], up')
           /\ job'[w] = RestingAt(stage)
           /\ \A v \in Workers \ {w} :
                /\ job'[v].pc = job[v].pc /\ job'[v].snap = job[v].snap /\ job'[v].last = job[v].last
                /\ job'[v].pending = job[v].pending
                /\ job'[v].outrun \in {job[v].outrun, job[v].outrun \union fields}
                /\ job[v].pc # "rest" => job'[v].outrun = job[v].outrun \union fields
<1>1. job' = [v \in Workers |-> IF v = w THEN RestingAt(stage)
                                ELSE IF job[v].pc = "rest" THEN job[v]
                                ELSE [job[v] EXCEPT !.outrun = @ \union fields]]
  BY DEF Outrun
<1>2. job'[w] = RestingAt(stage) /\ JobOK(job'[w]) /\ Watches(job'[w], up')
  BY <1>1, RestingOK
<1>3. ASSUME NEW v \in Workers \ {w}
      PROVE  /\ JobOK(job'[v]) /\ Watches(job'[v], up')
             /\ job'[v].pc = job[v].pc /\ job'[v].snap = job[v].snap /\ job'[v].last = job[v].last
             /\ job'[v].pending = job[v].pending
             /\ job'[v].outrun \in {job[v].outrun, job[v].outrun \union fields}
             /\ job[v].pc # "rest" => job'[v].outrun = job[v].outrun \union fields
  <2>1. JobOK(job[v]) /\ Watches(job[v], up)
    BY DEF MemoryInv
  <2>2. job'[v] = job[v] \/ job'[v] = [job[v] EXCEPT !.outrun = @ \union fields]
    BY <1>1
  <2>3. job[v].pc # "rest" => job'[v] = [job[v] EXCEPT !.outrun = @ \union fields]
    BY <1>1
  <2>4. CASE job'[v] = job[v] /\ job[v].pc = "rest"
    BY <2>1, <2>4
  <2>5. CASE job'[v] = [job[v] EXCEPT !.outrun = @ \union fields]
    <3>1. /\ JobOK(job'[v]) /\ job'[v].last = job[v].last /\ job'[v].down = job[v].down
          /\ job'[v].pc = job[v].pc /\ job'[v].snap = job[v].snap /\ job'[v].pending = job[v].pending
          /\ job'[v].outrun = job[v].outrun \union fields
      BY <2>1, <2>5, OutrunByOK
    <3>2. QED
      BY <2>1, <3>1 DEF Watches
  <2>6. QED
    BY <2>2, <2>3, <2>4, <2>5
<1>4. \A v \in Workers : JobOK(job'[v]) /\ Watches(job'[v], up')
  BY <1>2, <1>3
<1>5. \A v \in Workers : job'[v] \in Jobs
  BY <1>4 DEF JobOK
<1>6. job' \in [Workers -> Jobs]
  BY <1>1, <1>5
<1>7. QED
  BY <1>2, <1>3, <1>4, <1>6

\* One worker moves on, with a memory in shape.
LEMMA MovedOK ==
    ASSUME MemoryInv, NEW w \in Workers, NEW j, job' = [job EXCEPT ![w] = j],
           UNCHANGED up, JobOK(j), Watches(j, up)
    PROVE  /\ job' \in [Workers -> Jobs]
           /\ \A v \in Workers : JobOK(job'[v]) /\ Watches(job'[v], up')
           /\ job'[w] = j
           /\ \A v \in Workers \ {w} : job'[v] = job[v]
BY DEF MemoryInv, JobOK

\* The firm's own steps.
LEMMA FlipOK ==
    ASSUME MemoryInv, Flip
    PROVE  /\ job' \in [Workers -> Jobs]
           /\ \A v \in Workers : JobOK(job'[v]) /\ Watches(job'[v], up')
           /\ \A v \in Workers :
                /\ job'[v].pc = job[v].pc /\ job'[v].snap = job[v].snap /\ job'[v].last = job[v].last
                /\ job'[v].pending = job[v].pending /\ job'[v].outrun = job[v].outrun
<1>1. job' = [w \in Workers |-> IF job[w].pc = "rest" THEN job[w]
                                ELSE [job[w] EXCEPT !.down = TRUE]]
  BY DEF Flip
<1>2. ASSUME NEW v \in Workers
      PROVE  /\ JobOK(job'[v]) /\ Watches(job'[v], up')
             /\ job'[v].pc = job[v].pc /\ job'[v].snap = job[v].snap /\ job'[v].last = job[v].last
             /\ job'[v].pending = job[v].pending /\ job'[v].outrun = job[v].outrun
  <2>1. JobOK(job[v]) /\ Watches(job[v], up) /\ up' = ~up
    BY DEF MemoryInv, Flip
  <2>2. CASE job[v].pc = "rest"
    BY <1>1, <2>1, <2>2 DEF Watches, Watching, Holding
  <2>3. CASE job[v].pc # "rest"
    <3>1. job'[v] = [job[v] EXCEPT !.down = TRUE]
      BY <1>1, <2>3
    <3>2. /\ JobOK(job'[v]) /\ job'[v].last = job[v].last /\ job'[v].down
          /\ job'[v].pc = job[v].pc /\ job'[v].snap = job[v].snap /\ job'[v].pending = job[v].pending
          /\ job'[v].outrun = job[v].outrun
      BY <2>1, <3>1, DownOK
    <3>3. QED
      BY <3>2 DEF Watches
  <2>4. QED
    BY <2>2, <2>3
<1>3. \A v \in Workers : job'[v] \in Jobs
  BY <1>2 DEF JobOK
<1>4. QED
  BY <1>1, <1>2, <1>3
-----------------------------------------------------------------------------
(* MemoryInv, action by action.                                            *)

\* The two hands are two.
LEMMA TwoWorkers ==
    /\ Workers = {Cron, Hand} /\ Cron # Hand /\ Cron \in Workers /\ Hand \in Workers
    /\ \A v, w \in Workers : v # w => \A u \in Workers : u = v \/ u = w
BY WorkersAssumption DEF Workers

\* Where a pass goes on from its stage.
LEMMA NextStage ==
    ASSUME NEW w, NEW stage \in AtRest
    PROVE  Next1(w, stage) \in AtRest
BY DEF Next1, AtRest

\* A command by hand is counted.
LEMMA HandsCounted ==
    ASSUME MemoryInv, NEW w \in Workers, NEW stage, MayStart(w, stage), CountHand(w)
    PROVE  hands' \in 0..MaxHand /\ job[w].pc \in {"rest", stage}
BY BoundsAssumption, WorkersAssumption DEF MemoryInv, MayStart, CountHand

\* What the pair's boards amount to: absence from a whole reading means that
\* the posting is down, but for a full list that left it out and for the blank
\* board beside another.
LEMMA FetchReason ==
    ASSUME NEW out \in [Boards -> Outcomes], NEW listed \in BOOLEAN, NEW others \in SUBSET Boards,
           \A b \in others : out[b] \in {"partial", "full"},
           MemoryInv
    PROVE  JobOK(Fresh("ingesting", None, Heard(out, listed, others)))
<1> DEFINE j == Fresh("ingesting", None, Heard(out, listed, others))
           h == Heard(out, listed, others)
<1>1. up \in BOOLEAN
  BY DEF MemoryInv
<1>2. /\ h.listed = listed
      /\ h.complete = Complete(out, listed \/ others # {})
      /\ h.blank = (out[Home] = "blank" /\ Complete(out, others # {}))
      /\ h.omitted = (out[Home] = "full" /\ up /\ ~listed)
      /\ h \in ScrapeNews
  BY <1>1 DEF Heard, ScrapeNews, Complete
<1> HIDE DEF h
<1>3. ASSUME h.complete, ~h.listed
      PROVE  ~up \/ h.omitted \/ (h.blank /\ Cardinality(Boards) > 1)
  <2>1. Complete(out, others # {}) /\ ~listed
    BY <1>2, <1>3
  <2>2. /\ Home \in Boards /\ Answered(out, Home) /\ out[Home] # "partial" /\ others # {}
    BY <2>1, BoardsAssumption DEF Complete
  <2>3. CASE out[Home] = "full"
    BY <1>2, <2>1, <2>3
  <2>4. CASE out[Home] = "blank" /\ ~BankedRows
    <3>1. h.blank
      BY <1>2, <2>1, <2>4
    <3>2. PICK b \in others : TRUE
      BY <2>2
    <3>3. b # Home /\ b \in Boards
      BY <2>4, <3>2
    <3>4. Cardinality(Boards) # 1 /\ Cardinality(Boards) # 0 /\ Cardinality(Boards) \in Nat
      <4>1. IsFiniteSet(Boards)
        BY BoardsAssumption
      <4>2. Cardinality(Boards) \in Nat /\ Cardinality(Boards) # 0
        BY <2>2, <4>1, FS_CardinalityType, FS_EmptySet
      <4>3. Cardinality(Boards \ {Home}) = Cardinality(Boards) - 1
        BY <2>2, <4>1, FS_RemoveElement
      <4>4. Cardinality(Boards \ {Home}) # 0
        <5>1. IsFiniteSet(Boards \ {Home}) /\ Boards \ {Home} # {}
          BY <3>3, <4>1, FS_Subset
        <5>2. QED
          BY <5>1, FS_EmptySet
      <4>5. QED
        BY <4>2, <4>3, <4>4
    <3>5. QED
      BY <3>1, <3>4
  <2>5. QED
    BY <2>2, <2>3, <2>4 DEF Answered
<1>4. h \in News /\ None \in Memories
  BY <1>2 DEF News, Memories
<1>5. /\ j.pc = "ingesting" /\ j.heard = h /\ j.pending = {} /\ j.down = ~up
      /\ j \in Jobs
  BY <1>1, <1>4, FreshJob DEF Watching, h
<1> HIDE DEF j
<1>6. Reason(j)
  BY <1>3, <1>5 DEF Reason
<1>7. JobOK(j)
  BY <1>2, <1>5, <1>6 DEF JobOK, Holding, AtRest
<1>8. QED
  BY <1>7 DEF j, h

\* What a pass loads, it loads in shape.
LEMMA LoadedOK ==
    ASSUME MemoryInv, row.status # "absent", NEW pc \in {"enriching", "checking", "closing", "reopening"}
    PROVE  JobOK(Fresh(pc, row, None))
<1> DEFINE j == Fresh(pc, row, None)
<1>1. row \in Snaps /\ Sound(row) /\ row \in Memories /\ None \in News /\ up \in BOOLEAN
  BY DEF MemoryInv, RowOK, RowType, Snaps, Memories, News
<1>2. pc \in Watching
  BY DEF Watching, Holding
<1>3. j \in Jobs /\ j.pc = pc /\ j.snap = row /\ j.pending = {}
  BY <1>1, <1>2, FreshJob
<1> HIDE DEF j
<1>4. JobOK(j)
  BY <1>1, <1>3 DEF JobOK, Reason, Holding, AtRest
<1>5. QED
  BY <1>4 DEF j

\* A scrape begins to write what its boards answered.
LEMMA FetchMemory == ASSUME MemoryInv, NEW w \in Workers, Fetch(w) PROVE MemoryInv'
<1>1. PICK out \in [Boards -> Outcomes], listed \in BOOLEAN, others \in SUBSET Boards :
        /\ \A b \in others : out[b] \in {"partial", "full"}
        /\ faults' \in {faults, faults + 1}
        /\ faults' <= MaxFaults
        /\ Begin(w, "ingesting", None, Heard(out, listed, others))
  BY DEF Fetch
<1>2. UNCHANGED <<row, told, up, decisive, silent, flips>> /\ hands' \in 0..MaxHand
  BY HandsCounted DEF Fetch
<1>3. faults' \in 0..MaxFaults
  BY <1>1, BoundsAssumption DEF MemoryInv
<1>4. JobOK(Fresh("ingesting", None, Heard(out, listed, others)))
  BY <1>1, FetchReason
<1>5. /\ job' \in [Workers -> Jobs]
      /\ \A v \in Workers : JobOK(job'[v]) /\ Watches(job'[v], up')
      /\ job'[w] = Fresh("ingesting", None, Heard(out, listed, others))
      /\ \A v \in Workers \ {w} : job'[v].pc = job[v].pc
  <2>1. UNCHANGED up /\ "ingesting" \in Watching
    BY <1>2 DEF Watching
  <2> HIDE DEF Heard
  <2>2. QED
    BY <1>1, <1>4, <2>1, BeginOK
<1>6. job'[Cron].pc \notin {"closing", "reopening"}
  BY <1>5, TwoWorkers DEF Fresh, MemoryInv
<1>7. QED
  BY <1>2, <1>3, <1>5, <1>6 DEF MemoryInv, RowOK, RowType, Sound

\* A pass loads the row.
LEMMA LoadMemory ==
    ASSUME MemoryInv, NEW w \in Workers, NEW pc \in {"enriching", "checking", "closing", "reopening"},
           pc \in {"closing", "reopening"} => w = Hand,
           row.status # "absent", Begin(w, pc, row, None), hands' \in 0..MaxHand,
           UNCHANGED <<row, told, up, decisive, silent, flips, faults>>
    PROVE  MemoryInv'
<1>1. JobOK(Fresh(pc, row, None)) /\ pc \in Watching
  BY LoadedOK DEF Watching, Holding
<1>2. /\ job' \in [Workers -> Jobs]
      /\ \A v \in Workers : JobOK(job'[v]) /\ Watches(job'[v], up')
      /\ job'[w] = Fresh(pc, row, None)
      /\ \A v \in Workers \ {w} : job'[v].pc = job[v].pc
  BY <1>1, BeginOK
<1>3. job'[Cron].pc \notin {"closing", "reopening"}
  BY <1>2, TwoWorkers DEF Fresh, MemoryInv
<1>4. RowOK(row)'
  BY DEF MemoryInv, RowOK, RowType, Sound
<1>5. QED
  BY <1>2, <1>3, <1>4 DEF MemoryInv

\* A worker goes on, the row and its records as they may be.
LEMMA GoesOnMemory ==
    ASSUME MemoryInv, NEW w \in Workers, NEW j, JobOK(j), Watches(j, up),
           j.pc \notin {"closing", "reopening"}, job' = [job EXCEPT ![w] = j],
           RowOK(row'), told' \in Says,
           silent' \in BOOLEAN, faults' \in 0..MaxFaults, UNCHANGED <<up, decisive, flips, hands>>
    PROVE  MemoryInv'
<1>1. /\ job' \in [Workers -> Jobs]
      /\ \A v \in Workers : JobOK(job'[v]) /\ Watches(job'[v], up')
      /\ job'[w] = j
      /\ \A v \in Workers \ {w} : job'[v] = job[v]
  BY MovedOK
<1>2. job'[Cron].pc \notin {"closing", "reopening"}
  BY <1>1, TwoWorkers DEF MemoryInv
<1>3. RowOK(row)'
  BY DEF RowOK, RowType, Sound
<1>4. QED
  BY <1>1, <1>2, <1>3 DEF MemoryInv

\* A worker comes to rest at a stage.
LEMMA RestMemory ==
    ASSUME MemoryInv, NEW w \in Workers, NEW stage \in AtRest,
           job' = [job EXCEPT ![w] = RestingAt(stage)],
           RowOK(row'), told' \in Says,
           silent' \in BOOLEAN, faults' \in 0..MaxFaults, UNCHANGED <<up, decisive, flips, hands>>
    PROVE  MemoryInv'
<1>1. /\ JobOK(RestingAt(stage)) /\ Watches(RestingAt(stage), up)
      /\ RestingAt(stage).pc \notin {"closing", "reopening"}
  BY RestingOK DEF AtRest
<1>2. QED
  BY <1>1, GoesOnMemory

\* A scrape comes to the row of a posting that was listed.
LEMMA LoadListedMemory == ASSUME MemoryInv, NEW w \in Workers, LoadListed(w) PROVE MemoryInv'
<1>1. PICK api \in MaybeDate, prose \in MaybeDate :
        job' = [job EXCEPT ![w] = [pc |-> "writing", snap |-> row,
                                   heard |-> [api |-> api, prose |-> prose],
                                   pending |-> {}, outrun |-> @.outrun,
                                   last |-> @.last, down |-> @.down]]
  BY DEF LoadListed
<1> DEFINE news == [api |-> api, prose |-> prose]
           j == [pc |-> "writing", snap |-> row, heard |-> news, pending |-> {},
                 outrun |-> job[w].outrun, last |-> job[w].last, down |-> job[w].down]
<1>2. job[w] \in Jobs /\ RowOK(row) /\ row \in RowType /\ Sound(row)
  BY DEF MemoryInv, RowOK
<1>3. news \in PayloadNews
  BY DEF PayloadNews
<1> HIDE DEF news
<1>4. j \in Jobs
  BY <1>2, <1>3 DEF Jobs, Memories, News
<1>5. job' = [job EXCEPT ![w] = j]
  BY <1>1, <1>2 DEF news
<1>6. j.pc = "writing" /\ j.snap = row /\ j.heard = news /\ j.pending = {}
  OBVIOUS
<1> HIDE DEF j
<1>7. JobOK(j) /\ Watches(j, up)
  BY <1>2, <1>3, <1>4, <1>6 DEF JobOK, Reason, Watches, Watching, Holding, AtRest
<1>8. UNCHANGED <<row, told, up, decisive, silent, flips, faults, hands>>
  BY DEF LoadListed
<1>9. RowOK(row') /\ told' \in Says /\ silent' \in BOOLEAN /\ faults' \in 0..MaxFaults
  BY <1>2, <1>8 DEF MemoryInv
<1>10. QED
  BY <1>5, <1>6, <1>7, <1>8, <1>9, GoesOnMemory

\* A worker and the one beside it.
LEMMA OutrunMemory ==
    ASSUME MemoryInv, NEW w \in Workers, NEW fields \in SUBSET Fields, NEW stage \in AtRest,
           Outrun(w, fields, stage), RowOK(row'), told' \in Says, silent' \in BOOLEAN,
           UNCHANGED <<up, decisive, flips, faults, hands>>
    PROVE  MemoryInv'
<1>1. /\ job' \in [Workers -> Jobs]
      /\ \A v \in Workers : JobOK(job'[v]) /\ Watches(job'[v], up')
      /\ job'[w] = RestingAt(stage)
      /\ \A v \in Workers \ {w} : job'[v].pc = job[v].pc
  BY OutrunOK
<1>2. job'[Cron].pc \notin {"closing", "reopening"}
  BY <1>1, TwoWorkers DEF RestingAt, MemoryInv, AtRest
<1>3. RowOK(row)'
  BY DEF RowOK, RowType, Sound
<1>4. QED
  BY <1>1, <1>2, <1>3 DEF MemoryInv

\* What a pass records of a row, or of nothing.
LEMMA RecordedOK ==
    ASSUME NEW w \in Workers, NEW new \in RowType, NEW moves, told \in Says
    PROVE  /\ Recorded(w, new, moves) \in Says
           /\ Untold \in Says
           /\ \A f \in Fields : Recorded(w, new, moves)[f] =
                IF f \in moves \ job[w].outrun THEN new[f] ELSE told[f]
<1> DEFINE said == Recorded(w, new, moves)
<1>1. /\ new.status \in {"absent", "open", "closed"} /\ new.date \in MaybeDate
      /\ told.status \in {"absent", "open", "closed"} /\ told.date \in MaybeDate
  BY DEF RowType, Says
<1>2. /\ said = [f \in {"status", "date"} |-> said[f]]
      /\ said["status"] \in {new.status, told.status}
      /\ said["date"] \in {new.date, told.date}
      /\ \A f \in Fields : said[f] = IF f \in moves \ job[w].outrun THEN new[f] ELSE told[f]
  BY DEF Recorded, Fields
<1> HIDE DEF said
<1>3. said = [status |-> said["status"], date |-> said["date"]]
  BY <1>2
<1>4. said \in Says
  BY <1>1, <1>2, <1>3 DEF Says
<1>5. Untold \in Says
  BY DEF Untold, Says, MaybeDate
<1>6. QED
  BY <1>2, <1>4, <1>5 DEF said

\* The fields of a row that moved.
LEMMA MovedFieldsOK ==
    ASSUME NEW old, NEW new
    PROVE  /\ MovedFields(old, new) \in SUBSET Fields
           /\ \A f \in Fields : f \in MovedFields(old, new) <=> old[f] # new[f]
BY DEF MovedFields

\* What a scrape writes: its transaction's row, and the fields it says it moved.
LEMMA Commits ==
    ASSUME MemoryInv, NEW w \in Workers, WriteListed(w) \/ CloseMissing(w)
    PROVE  \E new \in RowType, moves \in SUBSET Fields :
             /\ CommitIngest(w, new, moves) /\ RowOK(new)
             /\ row.status = "open" /\ new.status # "open" =>
                  /\ job[w].pc = "ingesting"
                  /\ job[w].heard.complete /\ ~job[w].heard.listed
             /\ new.conf = Sure =>
                  \/ row.conf = Sure /\ new.date = row.date
                  \/ /\ job[w].pc = "writing"
                     /\ \/ job[w].heard.api = new.date
                        \/ job[w].snap.conf = Sure /\ job[w].snap.date = new.date
<1>1. JobOK(job[w]) /\ RowOK(row)
  BY DEF MemoryInv
<1>2. CASE WriteListed(w)
  <2> DEFINE old == job[w].snap
             said == job[w].heard
  <2>1. /\ job[w].pc = "writing" /\ old \in RowType /\ RowOK(old)
        /\ said.api \in MaybeDate /\ said.prose \in MaybeDate
    BY <1>1, <1>2 DEF WriteListed, JobOK, PayloadNews, RowOK
  <2>2. CASE CommitIngest(w, NewRow(said.api, said.prose), Fields)
    <3> DEFINE new == NewRow(said.api, said.prose)
    <3>1. /\ RowOK(new) /\ new.status = "open"
          /\ new.conf = Sure => new.date = said.api
      BY <2>1, NewRowOK
    <3>2. CommitIngest(w, new, Fields)
      BY <2>2
    <3> HIDE DEF new
    <3>3. new \in RowType
      BY <3>1 DEF RowOK
    <3>4. QED
      BY <2>1, <3>1, <3>2, <3>3
  <2>3. ASSUME NEW changed \in BOOLEAN,
               CommitIngest(w, SeenRow(old, said.api, said.prose, changed),
                            MovedFields(old, SeenRow(old, said.api, said.prose, changed)))
        PROVE  \E new \in RowType, moves \in SUBSET Fields :
                 /\ CommitIngest(w, new, moves) /\ RowOK(new)
                 /\ new.status = "open"
                 /\ new.conf = Sure => \/ said.api = new.date
                                       \/ old.conf = Sure /\ old.date = new.date
    <3> DEFINE new == SeenRow(old, said.api, said.prose, changed)
    <3>1. /\ RowOK(new) /\ new.status = "open"
          /\ new.conf = Sure => \/ old.conf = Sure /\ new.date = old.date
                                \/ new.date = said.api
      BY <2>1, SeenRowOK
    <3>2. CommitIngest(w, new, MovedFields(old, new))
      BY <2>3
    <3> HIDE DEF new
    <3>3. new \in RowType /\ MovedFields(old, new) \in SUBSET Fields
      BY <3>1, MovedFieldsOK DEF RowOK
    <3>4. QED
      BY <3>1, <3>2, <3>3
  <2>4. \/ CommitIngest(w, NewRow(said.api, said.prose), Fields)
        \/ \E changed \in BOOLEAN :
             CommitIngest(w, SeenRow(old, said.api, said.prose, changed),
                          MovedFields(old, SeenRow(old, said.api, said.prose, changed)))
    BY <1>2 DEF WriteListed
  <2>5. QED
    BY <2>1, <2>2, <2>3, <2>4
<1>3. CASE CloseMissing(w)
  <2> DEFINE new == ClosePass(row, job[w].heard)
  <2>1. /\ RowOK(new) /\ new.date = row.date /\ new.conf = row.conf
        /\ new.status # row.status =>
             job[w].heard.complete /\ ~job[w].heard.listed
    <3>1. PICK heard : heard = job[w].heard
      OBVIOUS
    <3>2. RowOK(row)
      BY <1>1 DEF MemoryInv
    <3>3. /\ RowOK(ClosePass(row, heard))
          /\ ClosePass(row, heard).date = row.date /\ ClosePass(row, heard).conf = row.conf
          /\ ClosePass(row, heard).status # row.status => heard.complete /\ ~heard.listed
      BY <3>2, ClosePassOK
    <3>4. QED
      BY <3>1, <3>3
  <2>2. CommitIngest(w, new, MovedFields(row, new)) /\ job[w].pc = "ingesting"
    BY <1>3 DEF CloseMissing
  <2> HIDE DEF new
  <2>3. new \in RowType /\ MovedFields(row, new) \in SUBSET Fields
    BY <2>1, MovedFieldsOK DEF RowOK
  <2>4. QED
    BY <2>1, <2>2, <2>3
<1>4. QED
  BY <1>2, <1>3

\* A scrape's transaction commits.
LEMMA CommitMemory ==
    ASSUME MemoryInv, NEW w \in Workers, WriteListed(w) \/ CloseMissing(w)
    PROVE  MemoryInv'
<1>1. PICK new \in RowType, moves \in SUBSET Fields : CommitIngest(w, new, moves) /\ RowOK(new)
  BY Commits
<1> DEFINE fields == IF job[w].last THEN moves ELSE {}
<1>2. fields \in SUBSET Fields /\ Next1(w, "enrich") \in AtRest
  BY NextStage DEF AtRest
<1>3. Outrun(w, fields, Next1(w, "enrich"))
  BY <1>1 DEF CommitIngest
<1> HIDE DEF fields
<1>4. /\ row' = new /\ UNCHANGED <<up, decisive, flips, faults, hands>>
      /\ silent' \in BOOLEAN
      /\ told' = IF silent' THEN Untold ELSE Recorded(w, new, moves)
  BY <1>1 DEF CommitIngest, MemoryInv, Unsaid
<1>5. told' \in Says
  BY <1>4, RecordedOK DEF MemoryInv
<1>6. QED
  BY <1>1, <1>2, <1>3, <1>4, <1>5, OutrunMemory

\* A page is written over the row.
LEMMA SavePageMemory == ASSUME MemoryInv, NEW w \in Workers, SavePage(w) PROVE MemoryInv'
<1>1. PICK page \in MaybeDate :
        /\ row' = Dated(row, PageDate(job[w].snap, page))
        /\ silent' = (silent \/ Unsaid(w, row', {}))
  BY DEF SavePage
<1>2. job[w].snap \in Snaps /\ Sound(job[w].snap) /\ RowOK(row)
  BY DEF SavePage, MemoryInv, JobOK, Holding
<1>3. RowOK(row')
  BY <1>1, <1>2, PageRowOK
<1>4. silent' \in BOOLEAN
  BY <1>1 DEF MemoryInv, Unsaid
<1>5. told' \in Says
  BY DEF SavePage, MemoryInv, MaybeDate, Untold, Says
<1>6. Next1(w, "check") \in AtRest
  BY NextStage DEF AtRest
<1>7. /\ job' = [job EXCEPT ![w] = RestingAt(Next1(w, "check"))]
      /\ UNCHANGED <<up, decisive, flips, faults, hands>>
  BY DEF SavePage, Finish
<1>8. faults' \in 0..MaxFaults
  BY <1>7 DEF MemoryInv
<1>9. QED
  BY <1>3, <1>4, <1>5, <1>6, <1>7, <1>8, RestMemory

\* The schedule skips a stage.
LEMMA SkipMemory == ASSUME MemoryInv, SkipEnrich \/ SkipCheck PROVE MemoryInv'
<1>1. PICK stage \in {"check", "rest"} : Finish(Cron, stage)
  BY DEF SkipEnrich, SkipCheck
<1>2. Next1(Cron, stage) \in AtRest
  BY NextStage DEF AtRest
<1>3. /\ job' = [job EXCEPT ![Cron] = RestingAt(Next1(Cron, stage))]
      /\ UNCHANGED <<row, told, up, decisive, silent, flips, faults, hands>>
  BY <1>1 DEF SkipEnrich, SkipCheck, Finish
<1>4. /\ RowOK(row') /\ told' \in Says
      /\ silent' \in BOOLEAN /\ faults' \in 0..MaxFaults
  BY <1>3 DEF MemoryInv
<1>5. QED
  BY <1>2, <1>3, <1>4, TwoWorkers, RestMemory

\* The provider answers.
LEMMA AskMemory == ASSUME MemoryInv, NEW w \in Workers, Ask(w) PROVE MemoryInv'
<1>1. PICK verdict \in {"verified-open", "closed", "unreachable", "needs-verification"},
           fresh \in MaybeDate :
        /\ verdict = "closed" => ~up
        /\ faults' \in {faults, faults + 1}
        /\ faults' <= MaxFaults
        /\ job' = [job EXCEPT ![w] = [pc |-> "asked", snap |-> @.snap,
                                      heard |-> [verdict |-> verdict, fresh |-> fresh],
                                      pending |-> {}, outrun |-> @.outrun,
                                      last |-> @.last, down |-> @.down]]
  BY DEF Ask
<1> DEFINE news == [verdict |-> verdict, fresh |-> fresh]
           j == [pc |-> "asked", snap |-> job[w].snap, heard |-> news, pending |-> {},
                 outrun |-> job[w].outrun, last |-> job[w].last, down |-> job[w].down]
<1>2. /\ JobOK(job[w]) /\ Watches(job[w], up) /\ job[w].pc = "checking" /\ job[w] \in Jobs
      /\ job[w].snap \in Snaps /\ Sound(job[w].snap)
  BY DEF MemoryInv, Ask, JobOK, Holding
<1>3. news \in VerifyNews /\ news.verdict = verdict
  BY DEF VerifyNews
<1> HIDE DEF news
<1>4. j \in Jobs
  BY <1>2, <1>3 DEF Jobs, Watching, Holding, News
<1>5. verdict = "closed" => job[w].down
  BY <1>1, <1>2 DEF Watches, Watching, Holding
<1>6. /\ j.pc = "asked" /\ j.snap = job[w].snap /\ j.heard = news /\ j.pending = {}
      /\ j.down = job[w].down
  OBVIOUS
<1>7. job' = [job EXCEPT ![w] = j]
  BY <1>1 DEF news
<1> HIDE DEF j
<1>8. JobOK(j) /\ Watches(j, up)
  BY <1>2, <1>3, <1>4, <1>5, <1>6 DEF JobOK, Reason, Watches, Watching, Holding, AtRest
<1>9. UNCHANGED <<row, told, up, decisive, silent, flips, hands>>
  BY DEF Ask
<1>10. faults' \in 0..MaxFaults
  BY <1>1, BoundsAssumption DEF MemoryInv
<1>11. RowOK(row') /\ told' \in Says /\ silent' \in BOOLEAN
  BY <1>9 DEF MemoryInv
<1>12. QED
  BY <1>6, <1>7, <1>8, <1>9, <1>10, <1>11, GoesOnMemory

\* The verdict is saved.
LEMMA SaveCheckMemory == ASSUME MemoryInv, NEW w \in Workers, SaveCheck(w) PROVE MemoryInv'
<1> DEFINE v == Verified(job[w].snap, job[w].heard)
           k == [pc |-> "saved", snap |-> v.row, heard |-> None, pending |-> v.moves,
                 outrun |-> job[w].outrun, last |-> job[w].last, down |-> job[w].down]
           j == IF v.moves = {} THEN Resting ELSE k
<1>1. /\ JobOK(job[w]) /\ job[w].pc = "asked" /\ job[w] \in Jobs /\ RowOK(row)
      /\ job[w].snap \in Snaps /\ Sound(job[w].snap) /\ job[w].heard \in VerifyNews
  BY DEF MemoryInv, SaveCheck, JobOK, Holding
<1>2. /\ row' = v.row /\ job' = [job EXCEPT ![w] = j]
      /\ silent' \in BOOLEAN
      /\ told' = IF silent' THEN Untold ELSE told
      /\ UNCHANGED <<up, decisive, flips, faults, hands>>
  BY DEF SaveCheck, MemoryInv, Unsaid
<1>3. RowOK(v.row) /\ v.moves \in SUBSET Fields
  BY <1>1, VerifiedOK
<1> HIDE DEF v
<1>4. k \in Jobs /\ k.pc = "saved" /\ k.snap \in RowType
  BY <1>1, <1>3 DEF Jobs, Memories, News, RowOK
<1> HIDE DEF k
<1>5. JobOK(k) /\ Watches(k, up)
  BY <1>4 DEF JobOK, Reason, Watches, Watching, Holding, AtRest
<1>6. JobOK(Resting) /\ Watches(Resting, up) /\ Resting.pc = "rest"
  BY RestingOK DEF Resting, AtRest
<1>7. JobOK(j) /\ Watches(j, up) /\ j.pc \notin {"closing", "reopening"}
  BY <1>4, <1>5, <1>6
<1> HIDE DEF j
<1>8. told' \in Says
  BY <1>2 DEF MemoryInv, MaybeDate, Untold, Says
<1>9. faults' \in 0..MaxFaults /\ RowOK(row')
  BY <1>2, <1>3 DEF MemoryInv
<1>10. QED
  BY <1>2, <1>7, <1>8, <1>9, GoesOnMemory

\* The records of a pass are written at its end.
LEMMA FlushMemory == ASSUME MemoryInv, NEW w \in Workers, Flush(w) PROVE MemoryInv'
<1>1. JobOK(job[w]) /\ job[w] \in Jobs /\ RowOK(row) /\ job[w].snap \in RowType
  BY DEF MemoryInv, JobOK, Flush
<1>2. UNCHANGED <<row, up, decisive, silent, flips, faults, hands>>
  BY DEF Flush
<1> DEFINE fields == IF job[w].last THEN job[w].pending ELSE {}
<1>3. fields \in SUBSET Fields /\ "rest" \in AtRest
  BY <1>1 DEF Jobs, AtRest
<1>4. Outrun(w, fields, "rest")
  BY DEF Flush
<1> HIDE DEF fields
<1>5. told' \in Says
  <2>1. told' = told \/ told' = Recorded(w, job[w].snap, job[w].pending)
    BY DEF Flush
  <2>2. QED
    BY <1>1, <2>1, RecordedOK DEF MemoryInv
<1>6. RowOK(row') /\ silent' \in BOOLEAN
  BY <1>1, <1>2 DEF MemoryInv
<1>7. QED
  BY <1>2, <1>3, <1>4, <1>5, <1>6, OutrunMemory

\* A repair is saved.
LEMMA SaveRepairMemory == ASSUME MemoryInv, SaveRepair PROVE MemoryInv'
<1>1. PICK status \in {row.status, "closed", "open"} :
        /\ row' = [row EXCEPT !.status = status]
        /\ silent' = (silent \/ Unsaid(Hand, row', {}))
  BY DEF SaveRepair
<1>2. RowOK(row')
  BY <1>1 DEF MemoryInv, RowOK, RowType, Sound
<1>3. silent' \in BOOLEAN /\ told' \in Says
  BY <1>1 DEF SaveRepair, MemoryInv, MaybeDate, Unsaid, Untold, Says
<1>4. Next1(Hand, "rest") \in AtRest
  BY NextStage DEF AtRest
<1>5. /\ job' = [job EXCEPT ![Hand] = RestingAt(Next1(Hand, "rest"))]
      /\ UNCHANGED <<up, decisive, flips, faults, hands>>
  BY DEF SaveRepair, Finish
<1>6. faults' \in 0..MaxFaults
  BY <1>5 DEF MemoryInv
<1>7. QED
  BY <1>2, <1>3, <1>4, <1>5, <1>6, TwoWorkers, RestMemory

\* A pass is killed.
LEMMA KillMemory == ASSUME MemoryInv, NEW w \in Workers, Kill(w) PROVE MemoryInv'
<1>1. /\ job' = [job EXCEPT ![w] = RestingAt("rest")]
      /\ UNCHANGED <<row, up, decisive, flips, hands>>
  BY DEF Kill, Resting
<1>2. /\ RowOK(row') /\ silent' \in BOOLEAN
      /\ told' \in Says
  BY <1>1 DEF Kill, MemoryInv, MaybeDate, Untold, Says
<1>3. faults' \in 0..MaxFaults
  BY BoundsAssumption DEF Kill, MemoryInv
<1>4. QED
  BY <1>1, <1>2, <1>3, RestMemory DEF AtRest

\* The firm takes the posting down, or puts it back.
LEMMA FlipMemory == ASSUME MemoryInv, Flip PROVE MemoryInv'
<1>1. /\ job' \in [Workers -> Jobs]
      /\ \A v \in Workers : JobOK(job'[v]) /\ Watches(job'[v], up')
      /\ \A v \in Workers : job'[v].pc = job[v].pc
  BY FlipOK
<1>2. /\ UNCHANGED <<row, told, decisive, silent, faults, hands>>
      /\ up' \in BOOLEAN /\ flips' \in 0..MaxFlips
  BY BoundsAssumption DEF Flip, MemoryInv
<1>3. RowOK(row)'
  BY <1>2 DEF MemoryInv, RowOK, RowType, Sound
<1>4. QED
  BY <1>1, <1>2, <1>3, TwoWorkers DEF MemoryInv

\* MemoryInv holds at first.
LEMMA MemoryInitial == Init => MemoryInv
<1> SUFFICES ASSUME Init PROVE MemoryInv
  OBVIOUS
<1>1. RowOK(row) /\ told \in Says
  BY DEF Init, RowOK, RowType, Sound, MaybeDate, Says
<1>2. /\ JobOK(Resting) /\ Watches(Resting, up) /\ Resting.pc = "rest"
  BY RestingOK DEF Resting, AtRest
<1>3. job = [w \in Workers |-> Resting]
  BY DEF Init
<1>4. \A w \in Workers : job[w] = Resting
  BY <1>3
<1>5. Resting \in Jobs
  BY <1>2 DEF JobOK
<1>6. job \in [Workers -> Jobs] /\ job[Cron].pc \notin {"closing", "reopening"}
  BY <1>2, <1>3, <1>4, <1>5, TwoWorkers
<1>7. flips \in 0..MaxFlips /\ faults \in 0..MaxFaults /\ hands \in 0..MaxHand
  BY BoundsAssumption, SMT DEF Init
<1>8. up \in BOOLEAN /\ decisive \in BOOLEAN /\ silent \in BOOLEAN
  BY Zenon DEF Init
<1>9. QED
  BY <1>1, <1>2, <1>4, <1>6, <1>7, <1>8 DEF MemoryInv

\* Every step keeps MemoryInv.
LEMMA MemoryStep == MemoryInv /\ [Next]_vars => MemoryInv'
<1> SUFFICES ASSUME MemoryInv, [Next]_vars PROVE MemoryInv'
  OBVIOUS
<1>1. ASSUME NEW w \in Workers, Step(w)
      PROVE  MemoryInv'
  <2>1. CASE LoadEnrich(w)
    <3>1. /\ Begin(w, "enriching", row, None) /\ row.status # "absent"
          /\ UNCHANGED <<row, told, up, decisive, silent, flips, faults>>
          /\ hands' \in 0..MaxHand
      BY <2>1, HandsCounted DEF LoadEnrich
    <3>2. QED
      BY <3>1, LoadMemory
  <2>2. CASE LoadCheck(w)
    <3>1. /\ Begin(w, "checking", row, None) /\ row.status # "absent"
          /\ UNCHANGED <<row, told, up, decisive, silent, flips, faults>>
          /\ hands' \in 0..MaxHand
      BY <2>2, HandsCounted DEF LoadCheck
    <3>2. QED
      BY <3>1, LoadMemory
  <2>3. QED
    BY <1>1, <2>1, <2>2, FetchMemory, LoadListedMemory, CommitMemory, SavePageMemory, AskMemory,
       SaveCheckMemory, FlushMemory DEF Step
<1>2. CASE LoadRepair
  <2> DEFINE pc == IF row.status = "open" THEN "closing" ELSE "reopening"
  <2>1. /\ Begin(Hand, pc, row, None) /\ row.status # "absent"
        /\ UNCHANGED <<row, told, up, decisive, silent, flips, faults>>
        /\ hands' \in 0..MaxHand
    BY <1>2, TwoWorkers, HandsCounted DEF LoadRepair
  <2>2. pc \in {"closing", "reopening"}
    OBVIOUS
  <2> HIDE DEF pc
  <2>3. QED
    BY <2>1, <2>2, TwoWorkers, LoadMemory
<1>3. CASE UNCHANGED vars
  <2>1. RowOK(row)'
    BY <1>3 DEF vars, MemoryInv, RowOK, RowType, Sound
  <2>2. UNCHANGED <<told, job, up, decisive, silent, flips, faults, hands>>
    BY <1>3 DEF vars
  <2>3. QED
    BY <2>1, <2>2 DEF MemoryInv
<1>4. QED
  BY <1>1, <1>2, <1>3, TwoWorkers, SkipMemory, SaveRepairMemory, KillMemory, FlipMemory
     DEF Next, CronStep, HandStep

\* MemoryInv always holds.
LEMMA MemoryAlways == Safety => []MemoryInv
BY MemoryInitial, MemoryStep, PTL DEF Safety

\* The row, the records and the workers' memory keep their shapes, and a row
\* without a date claims no confidence in one (ingest, enrich_postings and
\* reverify, whichever of them overlap).
THEOREM DirectoryTypes == Spec => []TypeOK
<1>1. MemoryInv => TypeOK
  <2> SUFFICES ASSUME MemoryInv PROVE TypeOK
    OBVIOUS
  <2>1. ASSUME NEW w \in Workers
        PROVE  /\ job[w].pc \in {"rest", "ingesting", "writing", "enrich", "enriching", "check",
                                 "checking", "asked", "saved", "closing", "reopening"}
               /\ job[w].pc \in {"enriching", "checking", "asked", "closing", "reopening"} =>
                    job[w].snap.status \in {"open", "closed"}
               /\ job[w].pending \subseteq Fields
    BY DEF MemoryInv, JobOK, Jobs, AtRest, Watching, Holding, Snaps
  <2>2. QED
    BY <2>1 DEF MemoryInv, TypeOK, RowOK, Sound, Says
<1>2. QED
  BY <1>1, MemoryAlways, PTL DEF Spec

-----------------------------------------------------------------------------
(* What a step may do to the row.                                          *)

\* Four kinds of steps write a status, a date or a confidence.
LEMMA Writers ==
    ASSUME [Next]_vars
    PROVE  \/ row' = row
           \/ SaveRepair
           \/ \E w \in Workers : WriteListed(w) \/ CloseMissing(w) \/ SavePage(w) \/ SaveCheck(w)
<1>1. ASSUME NEW w \in Workers, Fetch(w) \/ LoadListed(w) \/ LoadEnrich(w) \/ LoadCheck(w)
                                \/ Ask(w) \/ Flush(w) \/ Kill(w)
      PROVE  row' = row
  BY <1>1 DEF Fetch, LoadListed, LoadEnrich, LoadCheck, Ask, Flush, Kill
<1>2. CASE SkipEnrich \/ SkipCheck \/ LoadRepair \/ Flip \/ UNCHANGED vars
  BY <1>2 DEF SkipEnrich, SkipCheck, LoadRepair, Flip, vars
<1>3. QED
  BY <1>1, <1>2, TwoWorkers DEF Next, CronStep, HandStep, Step

\* The scrape's own row, as a fact about the two rows.
LEMMA CommitRow ==
    ASSUME MemoryInv, NEW w \in Workers, WriteListed(w) \/ CloseMissing(w)
    PROVE  /\ job'[w].pc # job[w].pc
           /\ row.status = "open" /\ row'.status # "open" =>
                /\ job[w].pc = "ingesting"
                /\ job[w].heard.complete /\ ~job[w].heard.listed
           /\ row'.conf = Sure =>
                \/ row.conf = Sure /\ row'.date = row.date
                \/ /\ job[w].pc = "writing"
                   /\ \/ job[w].heard.api = row'.date
                      \/ job[w].snap.conf = Sure /\ job[w].snap.date = row'.date
<1>1. PICK new \in RowType, moves \in SUBSET Fields :
        /\ CommitIngest(w, new, moves)
        /\ row.status = "open" /\ new.status # "open" =>
             /\ job[w].pc = "ingesting"
             /\ job[w].heard.complete /\ ~job[w].heard.listed
        /\ new.conf = Sure =>
             \/ row.conf = Sure /\ new.date = row.date
             \/ /\ job[w].pc = "writing"
                /\ \/ job[w].heard.api = new.date
                   \/ job[w].snap.conf = Sure /\ job[w].snap.date = new.date
  BY Commits
<1>2. row' = new /\ job'[w].pc = Next1(w, "enrich")
  BY <1>1 DEF CommitIngest, Outrun, RestingAt
<1>3. job[w].pc \in {"ingesting", "writing"}
  BY DEF WriteListed, CloseMissing
<1>4. QED
  BY <1>1, <1>2, <1>3 DEF Next1

\* The page's.
LEMMA SavePageRow ==
    ASSUME MemoryInv, NEW w \in Workers, SavePage(w)
    PROVE  /\ row'.status = row.status
           /\ row'.conf = Sure => row.conf = Sure /\ row'.date = row.date
<1>1. PICK page \in MaybeDate : row' = Dated(row, PageDate(job[w].snap, page))
  BY DEF SavePage
<1>2. job[w].snap \in Snaps /\ Sound(job[w].snap) /\ RowOK(row)
  BY DEF SavePage, MemoryInv, JobOK, Holding
<1>3. QED
  BY <1>1, <1>2, PageRowOK

\* The verdict's.
LEMMA SaveCheckRow ==
    ASSUME MemoryInv, NEW w \in Workers, SaveCheck(w)
    PROVE  /\ job[w].pc = "asked" /\ job'[w].pc # "asked" /\ job[w].pending = {}
           /\ row'.status # row.status => job[w].heard.verdict = "closed"
           /\ row'.conf = Sure =>
                \/ row.conf = Sure /\ row'.date = row.date
                \/ job[w].snap.conf = Sure /\ job[w].snap.date = row'.date
                \/ StructuredVerify /\ job[w].heard.fresh = row'.date
<1>1. /\ JobOK(job[w]) /\ job[w].pc = "asked" /\ job[w] \in Jobs /\ RowOK(row)
      /\ job[w].snap \in Snaps /\ Sound(job[w].snap) /\ job[w].heard \in VerifyNews
      /\ job[w].pending = {}
  BY DEF MemoryInv, SaveCheck, JobOK, Holding
<1>2. row' = Verified(job[w].snap, job[w].heard).row
  BY DEF SaveCheck
<1>3. job'[w].pc \in {"rest", "saved"}
  BY DEF SaveCheck, MemoryInv, Resting, RestingAt
<1>4. QED
  BY <1>1, <1>2, <1>3, VerifiedOK

\* The step of ConfidenceHonest.
HonestlySure ==
    row'.conf = Sure =>
        \/ row.conf = Sure /\ row'.date = row.date
        \/ \E w \in Workers :
            \/ job[w].pc = "writing" /\ job[w].heard.api = row'.date
            \/ job[w].pc \in {"writing", "enriching", "asked"} /\ job[w].snap.conf = Sure
                 /\ job[w].snap.date = row'.date
            \/ job[w].pc = "asked" /\ StructuredVerify /\ job[w].heard.fresh = row'.date

\* A date is the board's own only if a structured field states it, whichever
\* passes overlap (ingest's no-downgrade rules, _verify_confidence and
\* enrich_postings' bound).
THEOREM ConfidenceHonestHolds == Spec => ConfidenceHonest
<1>1. MemoryInv /\ [Next]_vars => [HonestlySure]_vars
  <2> SUFFICES ASSUME MemoryInv, [Next]_vars PROVE HonestlySure
    OBVIOUS
  <2>1. CASE SaveRepair
    BY <2>1 DEF SaveRepair, HonestlySure, MemoryInv, RowOK, RowType
  <2>2. ASSUME NEW w \in Workers, WriteListed(w) \/ CloseMissing(w) PROVE HonestlySure
    BY <2>2, CommitRow DEF HonestlySure
  <2>3. ASSUME NEW w \in Workers, SavePage(w) PROVE HonestlySure
    BY <2>3, SavePageRow DEF HonestlySure
  <2>4. ASSUME NEW w \in Workers, SaveCheck(w) PROVE HonestlySure
    BY <2>4, SaveCheckRow DEF HonestlySure
  <2>5. QED
    BY <2>1, <2>2, <2>3, <2>4, Writers DEF HonestlySure
<1>2. QED
  BY <1>1, MemoryAlways, PTL DEF Spec, Safety, ConfidenceHonest, HonestlySure

\* The step of NoFalseClose.
RightlyClosed ==
    row.status = "open" /\ row'.status = "closed" =>
        \E w \in Workers :
            /\ job[w] # job'[w]
            /\ \/ job[w].down
               \/ /\ job[w].pc = "ingesting" /\ job[w].heard.complete
                  /\ \/ job[w].heard.omitted
                     \/ job[w].heard.blank /\ Cardinality(Boards) > 1

\* A posting leaves the feed only if it was down while the pass that closed it
\* ran, or if a scrape had read every board of the pair whole and the posting's
\* own had left it out of its full list or answered blank beside another
\* (ingest_results over the pairs that were read whole, reverify's verdict,
\* close_confirmed_dead_rows).
THEOREM NoFalseCloseHolds == Spec => NoFalseClose
<1>1. MemoryInv /\ [Next]_vars => [RightlyClosed]_vars
  <2> SUFFICES ASSUME MemoryInv, [Next]_vars, row.status = "open", row'.status = "closed"
               PROVE  RightlyClosed
    BY DEF RightlyClosed
  <2>1. CASE SaveRepair
    <3>1. job[Hand].pc = "closing" /\ ~up /\ job'[Hand].pc = "rest"
      BY <2>1, TwoWorkers DEF SaveRepair, Finish, Next1, RestingAt, MemoryInv, RowOK, RowType
    <3>2. job[Hand].down /\ job[Hand] # job'[Hand]
      BY <3>1, TwoWorkers DEF MemoryInv, Watches, Watching, Holding
    <3>3. QED
      BY <3>2, TwoWorkers DEF RightlyClosed
  <2>2. ASSUME NEW w \in Workers, WriteListed(w) \/ CloseMissing(w) PROVE RightlyClosed
    <3>1. /\ job[w].pc = "ingesting" /\ job'[w].pc # job[w].pc
          /\ job[w].heard.complete /\ ~job[w].heard.listed
      BY <2>2, CommitRow
    <3>2. Reason(job[w])
      BY DEF MemoryInv, JobOK
    <3>3. QED
      BY <3>1, <3>2 DEF Reason, RightlyClosed
  <2>3. ASSUME NEW w \in Workers, SavePage(w) PROVE FALSE
    BY <2>3, SavePageRow
  <2>4. ASSUME NEW w \in Workers, SaveCheck(w) PROVE RightlyClosed
    <3>1. /\ job[w].pc = "asked" /\ job'[w].pc # "asked"
          /\ job[w].heard.verdict = "closed"
      BY <2>4, SaveCheckRow
    <3>2. Reason(job[w])
      BY DEF MemoryInv, JobOK
    <3>3. QED
      BY <3>1, <3>2 DEF Reason, RightlyClosed
  <2>5. QED
    BY <2>1, <2>2, <2>3, <2>4, Writers
<1>2. QED
  BY <1>1, MemoryAlways, PTL DEF Spec, Safety, NoFalseClose, RightlyClosed

-----------------------------------------------------------------------------
(* The change records.                                                     *)

\* What a pass has yet to say of a field, with nothing newer recorded of it.
ToSay(w, f) == f \in job[w].pending \ job[w].outrun

\* The records say what the row says of a field, or a pass has it to say.
Explained(f) ==
    \/ told[f] = row[f]
    \/ \E w \in Workers : ToSay(w, f) /\ job[w].snap[f] = row[f]

\* What a pass has to say of a field is what the row says, or the pass that
\* began last will have the newer word.
Topped(f) ==
    \A v \in Workers : ToSay(v, f) =>
        \/ job[v].snap[f] = row[f]
        \/ \E w \in Workers : /\ job[w].last /\ f \in job[w].pending
                              /\ job[w].snap[f] = row[f]

\* One pass began last, and nothing has outrun it; and every field is explained,
\* whichever of the passes writes its records next.
RecordsInv ==
    /\ \A v, w \in Workers : v # w => ~(job[v].last /\ job[w].last)
    /\ \A w \in Workers : job[w].last => job[w].outrun = {}
    /\ ~silent => \A f \in Fields : Explained(f) /\ Topped(f)

\* A step that only waits: what it did to the row, if anything, is known to have
\* no record, and whoever has something to record keeps it.
LEMMA QuietRecords ==
    ASSUME RecordsInv,
           \A w \in Workers :
             /\ job'[w].last => job[w].last /\ job'[w].outrun = job[w].outrun
             /\ job'[w].pending \subseteq job[w].pending,
           ~silent' =>
             /\ ~silent /\ told' = told
             /\ \A f \in Fields : row'[f] = row[f]
             /\ \A w \in Workers : job[w].pending # {} =>
                  /\ job'[w].pending = job[w].pending /\ job'[w].outrun = job[w].outrun
                  /\ job'[w].snap = job[w].snap /\ job'[w].last = job[w].last
    PROVE  RecordsInv'
<1>1. ASSUME ~silent', NEW f \in Fields
      PROVE  Explained(f)' /\ Topped(f)'
  <2>1. /\ told'[f] = told[f] /\ row'[f] = row[f] /\ Explained(f) /\ Topped(f)
    BY <1>1 DEF RecordsInv
  <2>2. \A w \in Workers : ToSay(w, f) => ToSay(w, f)' /\ job'[w].snap = job[w].snap
    BY <1>1 DEF ToSay
  <2>3. \A w \in Workers : ToSay(w, f)' => ToSay(w, f) /\ job'[w].snap = job[w].snap
    BY <1>1 DEF ToSay
  <2>4. \A w \in Workers : job[w].last /\ f \in job[w].pending =>
          job'[w].last /\ f \in job'[w].pending /\ job'[w].snap = job[w].snap
    BY <1>1
  <2>5. Explained(f)'
    BY <2>1, <2>2 DEF Explained
  <2>6. Topped(f)'
    BY <2>1, <2>3, <2>4 DEF Topped
  <2>7. QED
    BY <2>5, <2>6
<1>2. QED
  BY <1>1 DEF RecordsInv

\* A pass begins with nothing to record, and the other one is no longer last.
LEMMA BeginRecords ==
    ASSUME RecordsInv, UNCHANGED <<row, told, silent>>, NEW w \in Workers,
           job[w].pending = {}, job'[w].pending = {}, job'[w].outrun = {},
           \A v \in Workers \ {w} : /\ ~job'[v].last /\ job'[v].snap = job[v].snap
                                    /\ job'[v].pending = job[v].pending
                                    /\ job'[v].outrun = job[v].outrun
    PROVE  RecordsInv'
<1>1. ASSUME ~silent', NEW f \in Fields
      PROVE  Explained(f)' /\ Topped(f)'
  <2>1. Explained(f) /\ Topped(f)
    BY <1>1 DEF RecordsInv
  <2>2. \A v \in Workers : /\ ToSay(v, f) => v # w /\ ToSay(v, f)'
                           /\ ToSay(v, f)' => v # w /\ ToSay(v, f)
    BY DEF ToSay
  <2>3. Explained(f)'
    BY <2>1, <2>2 DEF Explained
  <2>4. ASSUME NEW v \in Workers, ToSay(v, f)'
        PROVE  job'[v].snap[f] = row'[f]
    <3>1. v # w /\ ToSay(v, f)
      BY <2>2, <2>4
    <3>2. \/ job[v].snap[f] = row[f]
          \/ \E u \in Workers : f \in job[u].pending /\ job[u].snap[f] = row[f]
      BY <2>1, <3>1 DEF Topped
    <3>3. \A u \in Workers : f \in job[u].pending => u = v
      BY <3>1, TwoWorkers
    <3>4. QED
      BY <3>1, <3>2, <3>3
  <2>5. QED
    BY <2>3, <2>4 DEF Topped
<1>2. QED
  BY <1>1 DEF RecordsInv

\* Where the row moves with a record, the other pass has been outrun, or has
\* nothing to record of that field.
LEMMA SaidFields ==
    ASSUME NEW w \in Workers, NEW new, NEW moves, ~Unsaid(w, new, moves), NEW f \in Fields,
           row[f] # new[f]
    PROVE  /\ f \in moves \ job[w].outrun
           /\ ~job[w].last => \A v \in Workers \ {w} : f \notin job[v].pending
<1>1. f \in MovedFields(row, new)
  BY MovedFieldsOK
<1>2. f \in moves /\ f \notin Behind(w)
  BY <1>1 DEF Unsaid
<1>3. QED
  BY <1>2 DEF Behind

\* A pass is over, and what it records outruns the other, if it began last.
LEMMA OutrunRecords ==
    ASSUME MemoryInv, RecordsInv, NEW w \in Workers, NEW fields \in SUBSET Fields,
           NEW stage \in AtRest, Outrun(w, fields, stage), UNCHANGED up,
           fields # {} => job[w].last,
           ~silent' => \A f \in Fields : Explained(f)' /\ Topped(f)'
    PROVE  RecordsInv'
<1>1. /\ job'[w] = RestingAt(stage) /\ ~job'[w].last
      /\ \A v \in Workers \ {w} :
           /\ job'[v].last = job[v].last
           /\ job'[v].outrun \in {job[v].outrun, job[v].outrun \union fields}
  BY OutrunOK, RestingOK
<1>2. \A v \in Workers : job'[v].last => job'[v].outrun = {}
  BY <1>1 DEF RecordsInv
<1>3. QED
  BY <1>1, <1>2 DEF RecordsInv

\* What the other pass has to say, once this one is over.
LEMMA OthersToSay ==
    ASSUME MemoryInv, NEW w \in Workers, NEW fields \in SUBSET Fields,
           NEW stage \in AtRest, Outrun(w, fields, stage), UNCHANGED up, NEW f
    PROVE  /\ ~ToSay(w, f)' /\ f \notin job'[w].pending
           /\ \A v \in Workers \ {w} :
                /\ ToSay(v, f)' <=> ToSay(v, f) /\ f \notin fields
                /\ job'[v].snap = job[v].snap /\ job'[v].last = job[v].last
                /\ job'[v].pending = job[v].pending
<1>1. job'[w] = RestingAt(stage) /\ job'[w].pending = {}
  <2>1. job'[w] = RestingAt(stage)
    BY OutrunOK
  <2>2. QED
    BY <2>1, RestingOK
<1>2. ASSUME NEW v \in Workers \ {w}
      PROVE  /\ job'[v].last = job[v].last /\ job'[v].snap = job[v].snap
             /\ job'[v].pending = job[v].pending
             /\ job[v].pc # "rest" => job'[v].outrun = job[v].outrun \union fields
  <2>1. JobOK(job[v]) /\ v \in Workers /\ v # w
    BY DEF MemoryInv
  <2>2. job'[v] = IF job[v].pc = "rest" THEN job[v]
                  ELSE [job[v] EXCEPT !.outrun = @ \union fields]
    BY <2>1 DEF Outrun
  <2>3. QED
    BY <2>1, <2>2, OutrunByOK
<1>3. \A v \in Workers : f \in job[v].pending => job[v].pc # "rest"
  BY DEF MemoryInv, JobOK
<1>4. QED
  BY <1>1, <1>2, <1>3 DEF ToSay

\* A scrape records what it moved as its transaction commits.
LEMMA CommitRecords ==
    ASSUME MemoryInv, RecordsInv, NEW w \in Workers, WriteListed(w) \/ CloseMissing(w)
    PROVE  RecordsInv'
<1>1. PICK new \in RowType, moves \in SUBSET Fields : CommitIngest(w, new, moves) /\ RowOK(new)
  BY Commits
<1> DEFINE fields == IF job[w].last THEN moves ELSE {}
<1>2. fields \in SUBSET Fields /\ Next1(w, "enrich") \in AtRest
  BY NextStage DEF AtRest
<1>3. Outrun(w, fields, Next1(w, "enrich"))
  BY <1>1 DEF CommitIngest
<1>4. /\ job[w].last => fields = moves
      /\ ~job[w].last => fields = {}
  OBVIOUS
<1> HIDE DEF fields
<1>5. /\ row' = new /\ UNCHANGED up
      /\ ~silent' => ~silent /\ ~Unsaid(w, new, moves) /\ told' = Recorded(w, new, moves)
  BY <1>1 DEF CommitIngest
<1>6. job[w].pending = {}
  BY DEF WriteListed, CloseMissing, MemoryInv, JobOK
<1>7. ASSUME ~silent', NEW f \in Fields
      PROVE  Explained(f)' /\ Topped(f)'
  <2>1. /\ Explained(f) /\ Topped(f) /\ ~ToSay(w, f)
        /\ told'[f] = IF f \in moves \ job[w].outrun THEN new[f] ELSE told[f]
    BY <1>5, <1>6, <1>7, RecordedOK DEF RecordsInv, ToSay, MemoryInv
  <2>2. /\ ~ToSay(w, f)' /\ f \notin job'[w].pending
        /\ \A v \in Workers \ {w} :
             /\ ToSay(v, f)' <=> ToSay(v, f) /\ f \notin fields
             /\ job'[v].snap = job[v].snap /\ job'[v].last = job[v].last
             /\ job'[v].pending = job[v].pending
    <3>1. UNCHANGED up /\ f \in Fields
      BY <1>5, <1>7
    <3>2. QED
      BY <1>2, <1>3, <3>1, OthersToSay
  <2>3. row[f] # new[f] =>
          /\ f \in moves \ job[w].outrun
          /\ ~job[w].last => \A v \in Workers \ {w} : f \notin job[v].pending
    BY <1>5, <1>7, SaidFields
  <2>4. job[w].last => job[w].outrun = {}
    BY DEF RecordsInv
  <2>5. Explained(f)'
    <3>1. CASE f \in moves \ job[w].outrun
      BY <1>5, <2>1, <3>1 DEF Explained
    <3>2. CASE f \notin moves \ job[w].outrun
      <4>1. row'[f] = row[f] /\ told'[f] = told[f] /\ f \notin fields
        BY <1>4, <1>5, <2>1, <2>3, <2>4, <3>2
      <4>2. QED
        BY <2>1, <2>2, <4>1 DEF Explained
    <3>3. QED
      BY <3>1, <3>2
  <2>6. Topped(f)'
    <3>1. ASSUME NEW v \in Workers, ToSay(v, f)'
          PROVE  /\ v # w /\ ToSay(v, f) /\ row'[f] = row[f]
      <4>1. v # w /\ ToSay(v, f) /\ f \notin fields
        BY <2>2, <3>1
      <4>2. QED
        BY <1>4, <1>5, <2>3, <4>1 DEF ToSay
    <3>2. QED
      BY <1>6, <2>1, <2>2, <3>1 DEF Topped
  <2>7. QED
    BY <2>5, <2>6
<1>8. QED
  BY <1>2, <1>3, <1>4, <1>5, <1>7, OutrunRecords

\* A pass writes its records: behind those that another one recorded since.
LEMMA FlushRecords == ASSUME MemoryInv, RecordsInv, NEW w \in Workers, Flush(w) PROVE RecordsInv'
<1> DEFINE fields == IF job[w].last THEN job[w].pending ELSE {}
<1>1. JobOK(job[w]) /\ job[w] \in Jobs /\ job[w].snap \in RowType
  BY DEF MemoryInv, JobOK, Flush
<1>2. fields \in SUBSET Fields /\ "rest" \in AtRest
  BY <1>1 DEF Jobs, AtRest
<1>3. /\ Outrun(w, fields, "rest") /\ UNCHANGED <<row, up, silent>>
      /\ ~silent' => told' = Recorded(w, job[w].snap, job[w].pending)
  BY DEF Flush
<1>4. /\ job[w].last => fields = job[w].pending
      /\ ~job[w].last => fields = {}
  OBVIOUS
<1> HIDE DEF fields
<1>5. ASSUME ~silent', NEW f \in Fields
      PROVE  Explained(f)' /\ Topped(f)'
  <2>1. /\ Explained(f) /\ Topped(f)
        /\ told'[f] = IF ToSay(w, f) THEN job[w].snap[f] ELSE told[f]
    BY <1>1, <1>3, <1>5, RecordedOK DEF RecordsInv, ToSay, MemoryInv
  <2>2. /\ ~ToSay(w, f)' /\ f \notin job'[w].pending
        /\ \A v \in Workers \ {w} :
             /\ ToSay(v, f)' <=> ToSay(v, f) /\ f \notin fields
             /\ job'[v].snap = job[v].snap /\ job'[v].last = job[v].last
             /\ job'[v].pending = job[v].pending
    BY <1>2, <1>3, OthersToSay
  <2>3. \A u \in Workers : job[u].last => job[u].outrun = {} /\ \A v \in Workers \ {u} : ~job[v].last
    BY DEF RecordsInv
  <2>4. Explained(f)'
    <3>1. CASE ToSay(w, f) /\ job[w].snap[f] = row[f]
      BY <1>3, <2>1, <3>1 DEF Explained
    <3>2. CASE ToSay(w, f) /\ job[w].snap[f] # row[f]
      <4>1. PICK u \in Workers : job[u].last /\ f \in job[u].pending /\ job[u].snap[f] = row[f]
        BY <2>1, <3>2 DEF Topped
      <4>2. u # w /\ ToSay(u, f) /\ f \notin fields
        BY <1>4, <2>3, <3>2, <4>1 DEF ToSay
      <4>3. QED
        BY <1>3, <2>2, <4>1, <4>2 DEF Explained
    <3>3. CASE ~ToSay(w, f)
      <4>1. f \notin fields
        BY <1>4, <2>3, <3>3 DEF ToSay
      <4>2. QED
        BY <1>3, <2>1, <2>2, <3>3, <4>1 DEF Explained
    <3>4. QED
      BY <3>1, <3>2, <3>3
  <2>5. Topped(f)'
    <3>1. ASSUME NEW v \in Workers, ToSay(v, f)'
          PROVE  \/ job'[v].snap[f] = row'[f]
                 \/ \E u \in Workers : /\ job'[u].last /\ f \in job'[u].pending
                                       /\ job'[u].snap[f] = row'[f]
      <4>1. v # w /\ ToSay(v, f) /\ f \notin fields
        BY <2>2, <3>1
      <4>2. CASE job[v].snap[f] = row[f]
        BY <1>3, <2>2, <4>1, <4>2
      <4>3. CASE \E u \in Workers : job[u].last /\ f \in job[u].pending /\ job[u].snap[f] = row[f]
        <5>1. PICK u \in Workers : job[u].last /\ f \in job[u].pending /\ job[u].snap[f] = row[f]
          BY <4>3
        <5>2. u # w
          BY <1>4, <4>1, <5>1
        <5>3. QED
          BY <1>3, <2>2, <5>1, <5>2
      <4>4. QED
        BY <2>1, <4>1, <4>2, <4>3 DEF Topped
    <3>2. QED
      BY <3>1 DEF Topped
  <2>6. QED
    BY <2>4, <2>5
<1>6. QED
  BY <1>2, <1>3, <1>4, <1>5, OutrunRecords

\* A verdict is saved; its records wait for the end of the pass.
LEMMA SaveCheckRecords == ASSUME MemoryInv, RecordsInv, NEW w \in Workers, SaveCheck(w) PROVE RecordsInv'
<1>1. PICK moves, new : /\ moves = Verified(job[w].snap, job[w].heard).moves
                        /\ new = Verified(job[w].snap, job[w].heard).row
  OBVIOUS
<1>2. job[w].pending = {} /\ row' = new
  BY <1>1, SaveCheckRow DEF SaveCheck
<1>3. /\ ~silent' => ~silent /\ ~Unsaid(w, new, moves) /\ told' = told
      /\ job' = [job EXCEPT ![w] = IF moves = {} THEN Resting
                                   ELSE [pc |-> "saved", snap |-> new, heard |-> None,
                                         pending |-> moves, outrun |-> @.outrun,
                                         last |-> @.last, down |-> @.down]]
  BY <1>1 DEF SaveCheck
<1>4. /\ job'[w].pending = moves
      /\ job'[w].last => job[w].last /\ job'[w].outrun = job[w].outrun
      /\ moves # {} => /\ job'[w].outrun = job[w].outrun /\ job'[w].snap = new
                       /\ job'[w].last = job[w].last
      /\ \A v \in Workers \ {w} : job'[v] = job[v]
  BY <1>3 DEF MemoryInv, Resting, RestingAt
<1>5. ASSUME ~silent', NEW f \in Fields
      PROVE  Explained(f)' /\ Topped(f)'
  <2>1. Explained(f) /\ Topped(f) /\ ~ToSay(w, f) /\ told' = told
    BY <1>2, <1>3, <1>5 DEF RecordsInv, ToSay
  <2>2. row[f] # new[f] =>
          /\ f \in moves \ job[w].outrun
          /\ ~job[w].last => \A v \in Workers \ {w} : f \notin job[v].pending
    BY <1>3, <1>5, SaidFields
  <2>3. \A v \in Workers \ {w} : ToSay(v, f)' <=> ToSay(v, f)
    BY <1>4 DEF ToSay
  <2>4. CASE row[f] # new[f]
    <3>1. ToSay(w, f)' /\ f \in moves /\ moves # {} /\ job'[w].snap[f] = row'[f]
      BY <1>2, <1>4, <2>2, <2>4 DEF ToSay
    <3>2. Explained(f)'
      BY <3>1 DEF Explained
    <3>3. ASSUME NEW v \in Workers \ {w}, ToSay(v, f)'
          PROVE  job'[w].last /\ f \in job'[w].pending /\ job'[w].snap[f] = row'[f]
      BY <1>4, <2>2, <2>3, <2>4, <3>1, <3>3 DEF ToSay
    <3>4. QED
      BY <3>1, <3>2, <3>3 DEF Topped
  <2>5. CASE row[f] = new[f]
    <3>1. Explained(f)'
      BY <1>2, <1>4, <2>1, <2>3, <2>5 DEF Explained
    <3>2. ToSay(w, f)' => job'[w].snap[f] = row'[f]
      BY <1>2, <1>4 DEF ToSay
    <3>3. ASSUME NEW v \in Workers \ {w}, ToSay(v, f)'
          PROVE  \/ job'[v].snap[f] = row'[f]
                 \/ \E u \in Workers : /\ job'[u].last /\ f \in job'[u].pending
                                       /\ job'[u].snap[f] = row'[f]
      <4>1. \/ job[v].snap[f] = row[f]
            \/ \E u \in Workers \ {w} : /\ job[u].last /\ f \in job[u].pending
                                        /\ job[u].snap[f] = row[f]
        BY <1>2, <2>1, <2>3, <3>3 DEF Topped
      <4>2. QED
        BY <1>2, <1>4, <2>5, <4>1
    <3>4. QED
      BY <3>1, <3>2, <3>3 DEF Topped
  <2>6. QED
    BY <2>4, <2>5
<1>6. QED
  BY <1>4, <1>5 DEF RecordsInv

\* RecordsInv holds at first.
LEMMA RecordsInitial == Init => RecordsInv
<1> SUFFICES ASSUME Init PROVE RecordsInv
  OBVIOUS
<1>1. \A f \in Fields : told[f] = row[f]
  BY DEF Init, Fields
<1>2. \A w \in Workers : ~job[w].last /\ job[w].pending = {}
  BY DEF Init, Resting, RestingAt
<1>3. QED
  BY <1>1, <1>2 DEF RecordsInv, Explained, Topped, ToSay

\* Every step keeps RecordsInv.
LEMMA RecordsStep == MemoryInv /\ RecordsInv /\ [Next]_vars => RecordsInv'
<1> SUFFICES ASSUME MemoryInv, RecordsInv, [Next]_vars PROVE RecordsInv'
  OBVIOUS
<1>1. ASSUME NEW w \in Workers, NEW stage \in AtRest, NEW pc \in Watching, NEW snap, NEW heard,
             MayStart(w, stage), CountHand(w), Begin(w, pc, snap, heard),
             UNCHANGED <<row, told, silent>>
      PROVE  RecordsInv'
  <2>1. job[w].pc \in AtRest
    BY <1>1, HandsCounted DEF AtRest
  <2>2. job[w].pending = {}
    BY <2>1 DEF MemoryInv, JobOK, AtRest
  <2>3. job'[w].outrun = {} /\ job'[w].pending = {}
    BY <1>1 DEF Begin
  <2>4. \A v \in Workers \ {w} : /\ ~job'[v].last /\ job'[v].snap = job[v].snap
                                 /\ job'[v].pending = job[v].pending
                                 /\ job'[v].outrun = job[v].outrun
    <3>1. TAKE v \in Workers \ {w}
    <3>2. job'[v] = [job[v] EXCEPT !.last = FALSE] /\ JobOK(job[v])
      BY <1>1 DEF Begin, MemoryInv
    <3>3. QED
      BY <3>2, NotLastOK
  <2>5. QED
    BY <1>1, <2>2, <2>3, <2>4, BeginRecords
<1>2. ASSUME NEW w \in Workers, Fetch(w) \/ LoadEnrich(w) \/ LoadCheck(w)
      PROVE  RecordsInv'
  BY <1>1, <1>2 DEF Fetch, LoadEnrich, LoadCheck, AtRest, Watching, Holding
<1>3. CASE LoadRepair
  BY <1>1, <1>3, TwoWorkers DEF LoadRepair, AtRest, Watching, Holding
<1>4. ASSUME NEW w \in Workers, NEW stage \in AtRest,
             job' = [job EXCEPT ![w] = RestingAt(stage)],
             ~silent' => /\ ~silent /\ told' = told /\ job[w].pending = {}
                         /\ \A f \in Fields : row'[f] = row[f]
      PROVE  RecordsInv'
  <2>1. /\ job'[w] = RestingAt(stage) /\ ~job'[w].last /\ job'[w].pending = {}
        /\ \A v \in Workers \ {w} : job'[v] = job[v]
    BY <1>4, RestingOK DEF MemoryInv
  <2>2. QED
    BY <1>4, <2>1, QuietRecords
<1>5. ASSUME NEW w \in Workers, ~Unsaid(w, row', {})
      PROVE  \A f \in Fields : row'[f] = row[f]
  BY <1>5, SaidFields
<1>6. ASSUME NEW w \in Workers, SavePage(w)
      PROVE  RecordsInv'
  <2>1. job[w].pending = {}
    BY <1>6 DEF SavePage, MemoryInv, JobOK
  <2>2. ~silent' => ~silent /\ told' = told /\ ~Unsaid(w, row', {})
    BY <1>6 DEF SavePage
  <2>3. job' = [job EXCEPT ![w] = RestingAt(Next1(w, "check"))] /\ Next1(w, "check") \in AtRest
    BY <1>6, NextStage DEF SavePage, Finish, AtRest
  <2>4. QED
    BY <1>4, <1>5, <2>1, <2>2, <2>3
<1>7. CASE SkipEnrich \/ SkipCheck
  <2>1. PICK stage \in {"check", "rest"} : Finish(Cron, stage)
    BY <1>7 DEF SkipEnrich, SkipCheck
  <2>2. UNCHANGED <<row, told, silent>> /\ job[Cron].pending = {}
    BY <1>7, TwoWorkers DEF SkipEnrich, SkipCheck, MemoryInv, JobOK
  <2>3. /\ job' = [job EXCEPT ![Cron] = RestingAt(Next1(Cron, stage))]
        /\ Next1(Cron, stage) \in AtRest
    BY <2>1, NextStage DEF Finish, AtRest
  <2>4. QED
    BY <1>4, <2>2, <2>3, TwoWorkers
<1>8. CASE SaveRepair
  <2>1. job[Hand].pending = {}
    BY <1>8, TwoWorkers DEF SaveRepair, MemoryInv, JobOK
  <2>2. ~silent' => ~silent /\ told' = told /\ ~Unsaid(Hand, row', {})
    BY <1>8 DEF SaveRepair
  <2>3. /\ job' = [job EXCEPT ![Hand] = RestingAt(Next1(Hand, "rest"))]
        /\ Next1(Hand, "rest") \in AtRest
    BY <1>8, NextStage DEF SaveRepair, Finish, AtRest
  <2>4. QED
    BY <1>4, <1>5, <2>1, <2>2, <2>3, TwoWorkers
<1>9. ASSUME NEW w \in Workers, Kill(w)
      PROVE  RecordsInv'
  <2>1. /\ ~silent' => ~silent /\ told' = told /\ job[w].pending = {}
        /\ row' = row /\ job' = [job EXCEPT ![w] = RestingAt("rest")]
    BY <1>9 DEF Kill, Resting
  <2>2. QED
    BY <1>4, <2>1 DEF AtRest
<1>10. ASSUME NEW w \in Workers, Ask(w) \/ LoadListed(w)
       PROVE  RecordsInv'
  <2>1. /\ job[w].pending = {} /\ UNCHANGED <<row, told, silent>>
    BY <1>10 DEF Ask, LoadListed, MemoryInv, JobOK
  <2>2. /\ job'[w].pending = {} /\ job'[w].outrun = job[w].outrun /\ job'[w].last = job[w].last
        /\ \A v \in Workers \ {w} : job'[v] = job[v]
    BY <1>10 DEF Ask, LoadListed, MemoryInv
  <2>3. QED
    BY <2>1, <2>2, QuietRecords
<1>11. CASE Flip
  <2>1. /\ UNCHANGED <<row, told, silent>>
        /\ \A v \in Workers :
             /\ job'[v].last = job[v].last /\ job'[v].snap = job[v].snap
             /\ job'[v].pending = job[v].pending /\ job'[v].outrun = job[v].outrun
    BY <1>11, FlipOK DEF Flip
  <2>2. QED
    BY <2>1, QuietRecords
<1>12. CASE UNCHANGED vars
  BY <1>12, QuietRecords DEF vars
<1>13. QED
  BY <1>2, <1>3, <1>6, <1>7, <1>8, <1>9, <1>10, <1>11, <1>12, TwoWorkers, CommitRecords,
     SaveCheckRecords, FlushRecords DEF Next, CronStep, HandStep, Step

\* With no pass about to write its records, the change records explain the row,
\* but for the moves that are known to keep none and those made behind a pass
\* begun later (OpportunityChange as ingest and reverify write it, each record
\* stamped with the start of its pass, read newest first).
THEOREM RecordsExplainHolds == Spec => []RecordsExplain
<1>1. MemoryInv /\ RecordsInv => RecordsExplain
  <2> SUFFICES ASSUME MemoryInv, RecordsInv, ~silent, \A w \in Workers : job[w].pending = {}
               PROVE  told = [status |-> row.status, date |-> row.date]
    BY DEF RecordsExplain
  <2>1. told.status = row.status /\ told.date = row.date
    BY DEF RecordsInv, Explained, ToSay, Fields
  <2>2. QED
    BY <2>1 DEF MemoryInv, Says
<1>2. Safety => [](MemoryInv /\ RecordsInv)
  BY MemoryInitial, MemoryStep, RecordsInitial, RecordsStep, PTL DEF Safety
<1>3. QED
  BY <1>1, <1>2, PTL DEF Spec

-----------------------------------------------------------------------------
(* CalendarMirror: the inductive invariant.                                *)

\* Version n is known to a cursor at version c, whose full read at version s had the window of day d.
Known(n, c, s, d) == c > s \/ InWindow(google[n].day, d)

\* Version n of the event is live, and known to a cursor at it.
Homed(n, s, d) == n > 0 /\ google[n].live /\ Known(n, n, s, d)

\* Google's rows that the student sees at the place where Google put them, if a cursor at n knows it.
Shown(pk, n, s, d) ==
    /\ rows[pk].source = "gcal" /\ Live(pk) /\ ~rows[pk].lost
    /\ rows[pk].starts[1] = "google" => Known(rows[pk].starts[2], n, s, d)

\* What a cursor at n promises that goes back to a full read at s with the window of d.
Covers(n, s, d) ==
    /\ \A pk \in DOMAIN rows : Shown(pk, n, s, d) => rows[pk].ver >= n
    /\ Homed(n, s, d) => \E pk \in Linked : rows[pk].ver >= n

\* Google's rows are linked, a linked row has the meeting's UID, one row has
\* it, and no row is newer than the event.
RowsInv ==
    /\ \A pk \in DOMAIN rows :
        /\ rows[pk].source = "gcal" => rows[pk].external /\ rows[pk].ver > 0
        /\ rows[pk].external => rows[pk].uid
        /\ rows[pk].ver <= Version
    /\ \A a, b \in DOMAIN rows : a # b => ~(rows[a].uid /\ rows[b].uid)
    /\ Linked = {} => made <= MaxRows

\* The row in the mail pass's hands: whose it is and whether it bears the UID
\* has not changed since it was loaded; it was found by the UID or on the
\* thread; if it bears the UID no captured row beside it does; and if it is
\* off it is not Google's and the message is as late.
ReaderInv ==
    /\ reader.at # "idle" => reader.i > 0 /\ reader.i <= Len(mail)
    /\ reader.at # "idle" /\ reader.pk # 0 =>
        /\ reader.copy \in Row
        /\ reader.at = "cancel" => reader.copy.source = "capture"
        /\ reader.copy.thread # Thread => reader.copy.uid
        /\ reader.copy.off # 0 => reader.copy.source # "gcal" /\ Sent >= reader.copy.off
        /\ reader.pk \in DOMAIN rows =>
            /\ reader.copy.uid = rows[reader.pk].uid
            /\ reader.copy.source = "gcal" <=> rows[reader.pk].source = "gcal"
        /\ reader.copy.uid =>
            \A pk \in DOMAIN rows \ {reader.pk} : rows[pk].source = "capture" => ~rows[pk].uid

\* What a sync whose connection is as it read it brings to the commit: a
\* cursor no older than the stored one, a state of the event no older than
\* any row, and with no state to bring, rows that the cursor covers already.
PassOK(p) ==
    p.fresh /\ p.at # "window" =>
        /\ p.next >= 0 /\ conn.token <= p.next /\ p.next <= Version
        /\ p.event # 0 => /\ p.next <= p.event /\ p.event <= Version
                          /\ \A pk \in DOMAIN rows : rows[pk].ver <= p.event
        /\ p.at = "resolve" => p.event \in {0, p.next} /\ p.since = p.next
        /\ Homed(p.next, p.since, p.day) /\ p.event # p.next => p.at = "commit" /\ p.event = 0
        /\ p.at = "commit" /\ p.event = 0 => Covers(p.next, p.since, p.day)

MirrorInv ==
    /\ MirrorTypeOK
    /\ RowsInv
    /\ ReaderInv
    /\ conn.token <= Version
    /\ \A p \in passes : PassOK(p)
    /\ MirrorHonest
    /\ CursorCovers

-----------------------------------------------------------------------------
(* CalendarMirror: shapes.                                                 *)

\* The bounds are numbers, and one consent may be given.
LEMMA MirrorBounds ==
    /\ MaxPasses \in Nat /\ MaxVersions \in Nat /\ MaxMail \in Nat /\ MaxGrants \in Nat
    /\ MaxTaps \in Nat /\ MaxRows \in Nat /\ MaxFailures \in Nat /\ MaxEvents \in Nat
    /\ MaxDay \in Nat /\ PastDays \in Nat /\ FutureDays \in Nat
    /\ MaxGrants > 0
BY MirrorAssumption, WindowAssumption, ConsentAssumption

Passes == [at : {"window", "resolve", "commit"}, grant : 1..MaxGrants,
           token : NoToken..MaxVersions, next : NoToken..MaxVersions,
           event : 0..MaxVersions, fresh : BOOLEAN, since : 0..MaxVersions, day : 0..MaxDay]
Conns == [grant : 1..MaxGrants, status : {"none", "active", "revoked"}, token : NoToken..MaxVersions,
          since : 0..MaxVersions, day : 0..MaxDay]

\* The stored cursor stays where it is.
StaysAt == conn'.token = conn.token /\ conn'.since = conn.since /\ conn'.day = conn.day

\* What a sync that takes a step may look like: one under way, or one that begins.
LEMMA RunningShape ==
    ASSUME MirrorTypeOK, NEW p \in Running
    PROVE  /\ p.at \in {"list", "window", "resolve", "commit"}
           /\ p.grant \in 1..MaxGrants /\ p.token \in NoToken..MaxVersions
           /\ p.next \in NoToken..MaxVersions /\ p.event \in 0..MaxVersions /\ p.fresh \in BOOLEAN
           /\ p.since \in 0..MaxVersions /\ p.day \in 0..MaxDay
           /\ p.at = "list" => p.fresh /\ p.token = conn.token /\ p.since = conn.since
           /\ p.at = "list" /\ p.token # NoToken => p.day = conn.day
           /\ p.at # "list" => p \in passes
           /\ p.at = "list" => p \notin passes /\ Cardinality(passes) < MaxPasses
<1>1. CASE p \in passes
  BY <1>1 DEF MirrorTypeOK
<1>2. CASE p = Begun /\ Cardinality(passes) < MaxPasses
  <2>1. /\ conn.grant \in 1..MaxGrants /\ conn.token \in NoToken..MaxVersions
        /\ conn.since \in 0..MaxVersions /\ conn.day \in 0..MaxDay /\ today \in 0..MaxDay
    BY DEF MirrorTypeOK
  <2>2. /\ p.at = "list" /\ p.grant = conn.grant /\ p.token = conn.token /\ p.next = NoToken
        /\ p.event = 0 /\ p.fresh = TRUE /\ p.since = conn.since
        /\ p.day = IF conn.token = NoToken THEN today ELSE conn.day
    BY <1>2 DEF Begun
  <2>3. p \notin passes
    BY <2>2 DEF MirrorTypeOK
  <2>4. p.next \in NoToken..MaxVersions /\ p.event \in 0..MaxVersions
    BY <2>2, MirrorBounds DEF NoToken
  <2>5. QED
    BY <1>2, <2>1, <2>2, <2>3, <2>4
<1>3. QED
  BY <1>1, <1>2 DEF Running

\* The state of a sync that has read.
LEMMA ReadShape ==
    ASSUME NEW p, p.grant \in 1..MaxGrants, p.token \in NoToken..MaxVersions, p.fresh \in BOOLEAN,
           p.since \in 0..MaxVersions, p.day \in 0..MaxDay,
           NEW at \in {"window", "resolve", "commit"}, NEW next \in NoToken..MaxVersions,
           NEW event \in 0..MaxVersions
    PROVE  /\ Read(p, at, next, event) \in Passes
           /\ Read(p, at, next, event).at = at /\ Read(p, at, next, event).next = next
           /\ Read(p, at, next, event).event = event /\ Read(p, at, next, event).fresh = p.fresh
           /\ Read(p, at, next, event).since = p.since /\ Read(p, at, next, event).day = p.day
BY DEF Read, Passes

\* And of one that reads the whole window.
LEMMA ReadAfreshShape ==
    ASSUME NEW p, p.grant \in 1..MaxGrants, p.fresh \in BOOLEAN,
           NEW at \in {"window", "resolve", "commit"}, NEW next \in NoToken..MaxVersions,
           NEW event \in 0..MaxVersions, NEW since \in 0..MaxVersions, NEW day \in 0..MaxDay
    PROVE  /\ ReadAfresh(p, at, next, event, since, day) \in Passes
           /\ ReadAfresh(p, at, next, event, since, day).at = at
           /\ ReadAfresh(p, at, next, event, since, day).next = next
           /\ ReadAfresh(p, at, next, event, since, day).event = event
           /\ ReadAfresh(p, at, next, event, since, day).since = since
           /\ ReadAfresh(p, at, next, event, since, day).day = day
<1>1. NoToken \in NoToken..MaxVersions
  BY MirrorBounds DEF NoToken
<1>2. QED
  BY <1>1 DEF ReadAfresh, Passes

\* One sync goes on.
LEMMA BecomesShape ==
    ASSUME MirrorTypeOK, NEW p \in Running, NEW q \in Passes, Becomes(p, q)
    PROVE  passes' \subseteq Passes /\ IsFiniteSet(passes') /\ Cardinality(passes') <= MaxPasses
<1>1. passes \subseteq Passes /\ IsFiniteSet(passes) /\ Cardinality(passes) <= MaxPasses
  BY DEF MirrorTypeOK, Passes
<1>2. Cardinality(passes) \in Nat /\ MaxPasses \in Nat
  BY <1>1, FS_CardinalityType, MirrorBounds
<1>3. p \in passes \/ Cardinality(passes) < MaxPasses
  BY RunningShape
<1>4. /\ IsFiniteSet(passes \ {p})
      /\ Cardinality(passes \ {p}) = IF p \in passes THEN Cardinality(passes) - 1 ELSE Cardinality(passes)
  BY <1>1, FS_RemoveElement
<1>5. Cardinality(passes \ {p}) \in Nat
  BY <1>4, FS_CardinalityType
<1>6. /\ IsFiniteSet((passes \ {p}) \cup {q})
      /\ Cardinality((passes \ {p}) \cup {q}) <= Cardinality(passes \ {p}) + 1
  <2>1. /\ IsFiniteSet((passes \ {p}) \cup {q})
        /\ Cardinality((passes \ {p}) \cup {q}) =
             IF q \in passes \ {p} THEN Cardinality(passes \ {p}) ELSE Cardinality(passes \ {p}) + 1
    BY <1>4, FS_AddElement
  <2>2. QED
    BY <1>5, <2>1
<1>7. Cardinality((passes \ {p}) \cup {q}) \in Nat
  BY <1>6, FS_CardinalityType
<1>8. QED
  BY <1>1, <1>2, <1>3, <1>4, <1>5, <1>6, <1>7 DEF Becomes

\* A sync is over.
LEMMA RemovedShape ==
    ASSUME MirrorTypeOK, NEW p
    PROVE  /\ passes \ {p} \subseteq Passes /\ IsFiniteSet(passes \ {p})
           /\ Cardinality(passes \ {p}) <= MaxPasses
<1>1. passes \subseteq Passes /\ IsFiniteSet(passes) /\ Cardinality(passes) <= MaxPasses
  BY DEF MirrorTypeOK, Passes
<1>2. Cardinality(passes) \in Nat /\ MaxPasses \in Nat
  BY <1>1, FS_CardinalityType, MirrorBounds
<1>3. /\ IsFiniteSet(passes \ {p})
      /\ Cardinality(passes \ {p}) \in Nat /\ Cardinality(passes \ {p}) <= Cardinality(passes)
  BY <1>1, FS_Subset, FS_CardinalityType
<1>4. QED
  BY <1>1, <1>2, <1>3

\* The connection moved on under the syncs.
LEMMA OvertakenShape ==
    ASSUME NEW ps \in SUBSET Passes, IsFiniteSet(ps), Cardinality(ps) <= MaxPasses
    PROVE  /\ Overtaken(ps) \subseteq Passes /\ IsFiniteSet(Overtaken(ps))
           /\ Cardinality(Overtaken(ps)) <= MaxPasses
           /\ \A q \in Overtaken(ps) : ~q.fresh
<1>1. ASSUME NEW q \in Overtaken(ps)
      PROVE  q \in Passes /\ ~q.fresh
  <2>1. PICK p \in ps : q = [p EXCEPT !.fresh = FALSE]
    BY DEF Overtaken
  <2>2. QED
    BY <2>1 DEF Passes
<1> DEFINE f == [p \in ps |-> [p EXCEPT !.fresh = FALSE]]
<1>2. f \in Surjection(ps, Overtaken(ps))
  BY DEF Surjection, Overtaken
<1>3. IsFiniteSet(Overtaken(ps)) /\ Cardinality(Overtaken(ps)) <= Cardinality(ps)
  BY <1>2, FS_Surjection
<1>4. Cardinality(Overtaken(ps)) \in Nat /\ Cardinality(ps) \in Nat /\ MaxPasses \in Nat
  BY <1>3, FS_CardinalityType, MirrorBounds
<1>5. QED
  BY <1>1, <1>3, <1>4

\* What Google and the mailbox hold.
LEMMA Entries ==
    ASSUME MirrorTypeOK
    PROVE  /\ Version \in 0..MaxVersions /\ Len(mail) \in 0..MaxMail
           /\ \A n \in 1..Version : google[n] \in [live : BOOLEAN, day : 0..MaxDay]
           /\ \A i \in 1..Len(mail) :
                mail[i] \in [kind : {"invite", "cancel", "booked", "asked"}, thread : 1..MaxMail]
<1> DEFINE S == [live : BOOLEAN, day : 0..MaxDay]
           T == [kind : {"invite", "cancel", "booked", "asked"}, thread : 1..MaxMail]
<1>1. google \in Seq(S) /\ Len(google) <= MaxVersions /\ mail \in Seq(T) /\ Len(mail) <= MaxMail
  BY DEF MirrorTypeOK, Version
<1> HIDE DEF S, T
<1>2. Len(google) \in Nat /\ Len(mail) \in Nat
  BY <1>1, LenProperties
<1>3. /\ \A n \in 1..Len(google) : google[n] \in S
      /\ \A i \in 1..Len(mail) : mail[i] \in T
  BY <1>1, ElementOfSeq
<1>4. QED
  BY <1>1, <1>2, <1>3, MirrorBounds DEF S, T, Version

\* There are no more threads than messages.
LEMMA ThreadsCounted ==
    ASSUME MirrorTypeOK
    PROVE  Threads \subseteq 1..MaxMail /\ Cardinality(Threads) \in 0..Len(mail)
<1>1. Len(mail) \in Nat /\ \A i \in 1..Len(mail) : mail[i].thread \in 1..MaxMail
  BY Entries
<1> DEFINE f == [i \in 1..Len(mail) |-> mail[i].thread]
<1>2. f \in Surjection(1..Len(mail), Threads)
  BY DEF Surjection, Threads
<1>3. ExistsSurjection(1..Len(mail), Threads)
  BY <1>2 DEF ExistsSurjection
<1>4. IsFiniteSet(Threads) /\ Cardinality(Threads) <= Len(mail)
  BY <1>1, <1>3, FS_NatSurjection, FS_SurjCardinalityBound
<1>5. Cardinality(Threads) \in Nat
  BY <1>4, FS_CardinalityType
<1>6. QED
  BY <1>1, <1>4, <1>5 DEF Threads

\* A sequence that goes on keeps what it says.
LEMMA Grows ==
    ASSUME NEW S, NEW seq \in Seq(S), NEW e \in S
    PROVE  /\ Append(seq, e) \in Seq(S) /\ Len(seq) \in Nat /\ Len(Append(seq, e)) = Len(seq) + 1
           /\ \A i \in 1..Len(seq) : Append(seq, e)[i] = seq[i]
BY AppendProperties, LenProperties

\* What the steps make of a row is a row.
LEMMA RowShapes ==
    ASSUME MirrorTypeOK, NEW r \in Row, NEW v \in 0..MaxVersions
    PROVE  /\ Gone(r, v) \in Row /\ Gone(r, v).off # 0
           /\ Held(r, v) \in Row
           /\ Copy(r) \in Row
<1>1. Len(mail) \in Nat
  BY DEF MirrorTypeOK
<1>2. Now \in Nat /\ Now # 0
  BY <1>1 DEF Now
<1>3. QED
  BY <1>2, MirrorBounds DEF Gone, Held, Copy, Row

\* And of a blank one.
LEMMA BlankShapes ==
    ASSUME MirrorTypeOK, NEW v \in 0..MaxVersions
    PROVE  /\ Held(Blank("gcal"), v) \in Row
           /\ Held(Blank("gcal"), v).source = "gcal" /\ Held(Blank("gcal"), v).external
           /\ Held(Blank("gcal"), v).ver = v /\ Held(Blank("gcal"), v).uid
BY MirrorBounds DEF Held, Blank, Row, Source

-----------------------------------------------------------------------------
(* CalendarMirror: what everybody but a committing sync leaves as it is.   *)

\* Google only adds states; a linked row stays, a new one is neither Google's
\* nor linked, and of an old one Google's columns stay, and all that Google
\* said of a row of its own, unless the row is known to be lost.
Kept ==
    /\ Version <= Version' /\ \A n \in 1..Version : google'[n] = google[n]
    /\ \A pk \in Linked : pk \in DOMAIN rows'
    /\ \A pk \in DOMAIN rows' \ DOMAIN rows :
        rows'[pk].source # "gcal" /\ ~rows'[pk].external /\ rows'[pk].ver = 0
    /\ \A pk \in DOMAIN rows \cap DOMAIN rows' :
        /\ rows'[pk].external = rows[pk].external /\ rows'[pk].ver = rows[pk].ver
        /\ rows'[pk].source = "gcal" <=> rows[pk].source = "gcal"
        /\ rows[pk].source = "gcal" /\ ~rows'[pk].lost =>
             ~rows[pk].lost /\ rows'[pk].off = rows[pk].off /\ rows'[pk].starts = rows[pk].starts

\* The rows as they were are kept.
LEMMA StillKept == ASSUME UNCHANGED <<google, rows>>, MirrorTypeOK PROVE Kept
BY Entries DEF Kept, Linked, Version

\* A row that Google put where it is stays where it is.
LEMMA KeptRow ==
    ASSUME MirrorTypeOK, RowsInv, MirrorHonest, Kept, NEW pk \in DOMAIN rows',
           rows'[pk].source = "gcal", ~rows'[pk].lost
    PROVE  /\ pk \in DOMAIN rows /\ rows[pk].source = "gcal" /\ ~rows[pk].lost
           /\ rows'[pk].off = rows[pk].off /\ rows'[pk].starts = rows[pk].starts
           /\ rows'[pk].ver = rows[pk].ver /\ rows[pk].ver \in 1..Version
           /\ google'[rows[pk].ver] = google[rows[pk].ver]
           /\ Live(pk)' <=> Live(pk)
           /\ IF Live(pk) THEN google[rows[pk].ver].live /\ rows[pk].starts = <<"google", rows[pk].ver>>
              ELSE ~google[rows[pk].ver].live
<1>1. pk \in DOMAIN rows
  BY DEF Kept
<1>2. /\ rows[pk].source = "gcal" /\ ~rows[pk].lost
      /\ rows'[pk].off = rows[pk].off /\ rows'[pk].starts = rows[pk].starts
      /\ rows'[pk].ver = rows[pk].ver
  BY <1>1 DEF Kept
<1>3. rows[pk] \in Row /\ Version \in Nat
  BY <1>1, Entries DEF MirrorTypeOK
<1>4. rows[pk].ver \in 1..Version
  BY <1>1, <1>2, <1>3, MirrorBounds DEF RowsInv, Row
<1>5. google'[rows[pk].ver] = google[rows[pk].ver]
  BY <1>4 DEF Kept
<1>6. Live(pk)' <=> Live(pk)
  BY <1>2 DEF Live
<1>7. IF Live(pk) THEN google[rows[pk].ver].live /\ rows[pk].starts = <<"google", rows[pk].ver>>
      ELSE ~google[rows[pk].ver].live
  BY <1>1, <1>2 DEF MirrorHonest
<1>8. QED
  BY <1>1, <1>2, <1>4, <1>5, <1>6, <1>7

\* Google's rows stay honest.
LEMMA KeptHonest ==
    ASSUME MirrorTypeOK, RowsInv, MirrorHonest, Kept
    PROVE  MirrorHonest'
<1> SUFFICES ASSUME NEW pk \in DOMAIN rows', rows'[pk].source = "gcal", ~rows'[pk].lost
             PROVE  IF Live(pk)' THEN google'[rows'[pk].ver].live /\ rows'[pk].starts = <<"google", rows'[pk].ver>>
                    ELSE ~google'[rows'[pk].ver].live
  BY DEF MirrorHonest
<1> QED
  BY KeptRow

\* No row gets older, or newer than the event.
LEMMA KeptVersions ==
    ASSUME MirrorTypeOK, RowsInv, Kept, Version' \in Nat
    PROVE  /\ \A pk \in DOMAIN rows' :
                /\ rows'[pk].source = "gcal" => rows'[pk].external /\ rows'[pk].ver > 0
                /\ rows'[pk].ver <= Version'
           /\ \A pk \in DOMAIN rows \cap DOMAIN rows' : rows'[pk].ver >= rows[pk].ver
<1>1. Version \in Nat /\ \A pk \in DOMAIN rows : rows[pk].ver \in Nat
  BY Entries, MirrorBounds DEF MirrorTypeOK, Row
<1>2. \A pk \in DOMAIN rows :
        /\ rows[pk].source = "gcal" => rows[pk].external /\ rows[pk].ver > 0
        /\ rows[pk].ver <= Version
  BY DEF RowsInv
<1>3. QED
  BY <1>1, <1>2 DEF Kept

\* What a cursor covers stays covered.
LEMMA KeptCovers ==
    ASSUME MirrorTypeOK, RowsInv, MirrorHonest, Kept, NEW n \in 0..Version, NEW s, NEW d, Covers(n, s, d)
    PROVE  Covers(n, s, d)'
<1>1. ASSUME NEW pk \in DOMAIN rows', Shown(pk, n, s, d)'
      PROVE  rows'[pk].ver >= n
  <2>1. /\ rows'[pk].source = "gcal" /\ ~rows'[pk].lost /\ Live(pk)'
        /\ rows'[pk].starts[1] = "google" => n > s \/ InWindow(google'[rows'[pk].starts[2]].day, d)
    BY <1>1 DEF Shown, Known, InWindow
  <2>2. /\ pk \in DOMAIN rows /\ rows[pk].source = "gcal" /\ ~rows[pk].lost /\ Live(pk)
        /\ rows'[pk].starts = rows[pk].starts
        /\ rows'[pk].ver = rows[pk].ver /\ rows[pk].ver \in 1..Version
        /\ google'[rows[pk].ver] = google[rows[pk].ver]
        /\ rows[pk].starts = <<"google", rows[pk].ver>>
    BY <2>1, KeptRow
  <2>3. Known(rows[pk].ver, n, s, d)
    BY <2>1, <2>2 DEF Known
  <2>4. Shown(pk, n, s, d)
    BY <2>2, <2>3 DEF Shown
  <2>5. QED
    BY <2>2, <2>4 DEF Covers
<1>2. ASSUME Homed(n, s, d)'
      PROVE  \E pk \in Linked' : rows'[pk].ver >= n
  <2>1. n \in 1..Version
    BY <1>2, Entries DEF Homed
  <2>2. google'[n] = google[n]
    BY <2>1 DEF Kept
  <2>3. Homed(n, s, d)
    BY <1>2, <2>2 DEF Homed, Known, InWindow
  <2>4. PICK pk \in Linked : rows[pk].ver >= n
    BY <2>3 DEF Covers
  <2>5. pk \in Linked' /\ rows'[pk].ver = rows[pk].ver
    BY DEF Kept, Linked
  <2>6. QED
    BY <2>4, <2>5
<1>3. QED
  BY <1>1, <1>2 DEF Covers

\* And with the cursor, what every sync brings to its commit.
LEMMA KeptPasses ==
    ASSUME MirrorTypeOK, RowsInv, MirrorHonest, Kept, Version' \in Nat,
           conn'.token = conn.token, NEW p \in passes, PassOK(p)
    PROVE  PassOK(p)'
<1> SUFFICES ASSUME p.fresh, p.at # "window"
             PROVE  PassOK(p)'
  BY DEF PassOK
<1>1. /\ p.next >= 0 /\ conn.token <= p.next /\ p.next <= Version
      /\ p.event # 0 => /\ p.next <= p.event /\ p.event <= Version
                        /\ \A pk \in DOMAIN rows : rows[pk].ver <= p.event
      /\ p.at = "resolve" => p.event \in {0, p.next} /\ p.since = p.next
      /\ Homed(p.next, p.since, p.day) /\ p.event # p.next => p.at = "commit" /\ p.event = 0
      /\ p.at = "commit" /\ p.event = 0 => Covers(p.next, p.since, p.day)
  BY DEF PassOK
<1>2. p.next \in Int /\ p.event \in Nat /\ Version \in Nat /\ Version <= Version'
  <2>1. p.next \in NoToken..MaxVersions /\ p.event \in 0..MaxVersions
    BY DEF MirrorTypeOK
  <2>2. QED
    BY <2>1, Entries, MirrorBounds DEF Kept, NoToken
<1>3. p.next \in 0..Version
  BY <1>1, <1>2
<1>4. Homed(p.next, p.since, p.day)' => Homed(p.next, p.since, p.day)
  BY <1>3 DEF Homed, Known, InWindow, Kept
<1>5. p.at = "commit" /\ p.event = 0 => Covers(p.next, p.since, p.day)'
  BY <1>1, <1>3, KeptCovers
<1>6. p.event # 0 => \A pk \in DOMAIN rows' : rows'[pk].ver <= p.event
  BY <1>1, <1>2 DEF Kept
<1>7. conn'.token <= p.next /\ p.next <= Version' /\ (p.event # 0 => p.event <= Version')
  BY <1>1, <1>2
<1>8. QED
  BY <1>1, <1>4, <1>5, <1>6, <1>7 DEF PassOK

\* The stored cursor as a promise.
LEMMA CursorIsCovers ==
    CursorCovers <=> (conn.token > 0 => Covers(conn.token, conn.since, conn.day))
BY DEF CursorCovers, Mirrored, Reached, Covers, Shown, Homed, Known

\* And what a step promises as the stored cursor.
LEMMA CoversIsCursor ==
    ASSUME NEW n, NEW s, NEW d, conn'.token = n, conn'.since = s, conn'.day = d, Covers(n, s, d)'
    PROVE  CursorCovers'
BY DEF CursorCovers, Mirrored, Reached, Covers, Shown, Homed, Known

\* Everything about the cursor and the syncs, while the stored cursor stays.
LEMMA KeptCursor ==
    ASSUME MirrorInv, Kept, Version' \in Nat, conn'.token = NoToken \/ StaysAt,
           \A p \in passes' : PassOK(p)' \/ (p \in passes /\ conn'.token = conn.token)
    PROVE  /\ MirrorHonest' /\ CursorCovers' /\ conn'.token <= Version'
           /\ \A p \in passes' : PassOK(p)'
<1>1. /\ MirrorTypeOK /\ RowsInv /\ MirrorHonest /\ CursorCovers /\ conn.token <= Version
      /\ \A p \in passes : PassOK(p)
  BY DEF MirrorInv
<1>2. conn.token \in Int /\ Version \in Nat /\ Version <= Version'
  BY <1>1, Entries, MirrorBounds DEF MirrorTypeOK, Kept, NoToken
<1>3. ASSUME NEW p \in passes' PROVE PassOK(p)'
  <2>1. CASE p \in passes /\ conn'.token = conn.token
    BY <1>1, <2>1, KeptPasses
  <2>2. QED
    BY <2>1
<1>4. CursorCovers'
  <2>1. CASE conn'.token > 0
    <3>1. /\ StaysAt /\ conn'.token = conn.token /\ conn.token \in 0..Version
          /\ Covers(conn.token, conn.since, conn.day)
      BY <1>1, <1>2, <2>1, CursorIsCovers DEF NoToken, StaysAt
    <3>2. PICK n \in 0..Version : n = conn.token
      BY <3>1
    <3>3. PICK s, d : s = conn.since /\ d = conn.day
      OBVIOUS
    <3>4. Covers(n, s, d)
      BY <3>1, <3>2, <3>3
    <3>5. Covers(n, s, d)'
      BY <1>1, <3>4, KeptCovers
    <3>6. conn'.token = n /\ conn'.since = s /\ conn'.day = d
      BY <3>1, <3>2, <3>3 DEF StaysAt
    <3>7. QED
      BY <3>5, <3>6, CoversIsCursor
  <2>2. CASE ~(conn'.token > 0)
    BY <2>2 DEF CursorCovers
  <2>3. QED
    BY <2>1, <2>2
<1>5. conn'.token <= Version'
  BY <1>1, <1>2, Entries DEF NoToken, StaysAt
<1>6. QED
  BY <1>1, <1>3, <1>4, <1>5, KeptHonest

-----------------------------------------------------------------------------
(* CalendarMirror: the steps that write no row.                            *)

\* A step that leaves the rows and the reader alone.
LEMMA QuietStep ==
    ASSUME MirrorInv, UNCHANGED <<rows, made, reader>>, MirrorTypeOK',
           Version <= Version', \A n \in 1..Version : google'[n] = google[n],
           Len(mail) <= Len(mail'), \A i \in 1..Len(mail) : mail'[i] = mail[i],
           conn'.token = NoToken \/ StaysAt,
           \A p \in passes' : PassOK(p)' \/ (p \in passes /\ conn'.token = conn.token)
    PROVE  MirrorInv'
<1>1. MirrorTypeOK /\ RowsInv /\ ReaderInv
  BY DEF MirrorInv
<1>2. Version \in Nat /\ Version' \in Nat /\ Len(mail) \in Nat /\ Len(mail') \in Nat
  <2>1. Version' \in Nat /\ Len(mail') \in Nat
    BY LenProperties DEF MirrorTypeOK, Version
  <2>2. QED
    BY <1>1, <2>1, Entries
<1>3. Kept
  BY DEF Kept, Linked
<1>4. MirrorHonest' /\ CursorCovers' /\ conn'.token <= Version' /\ \A p \in passes' : PassOK(p)'
  BY <1>2, <1>3, KeptCursor
<1>5. RowsInv'
  <2>1. \A pk \in DOMAIN rows' :
          /\ rows'[pk].source = "gcal" => rows'[pk].external /\ rows'[pk].ver > 0
          /\ rows'[pk].ver <= Version'
    BY <1>1, <1>2, <1>3, KeptVersions
  <2>2. QED
    BY <1>1, <2>1 DEF RowsInv, Linked
<1>6. ReaderInv'
  <2>1. reader.i \in Nat
    BY <1>1 DEF MirrorTypeOK
  <2>2. reader.at # "idle" => reader.i \in 1..Len(mail) /\ reader.i <= Len(mail')
    BY <1>1, <1>2, <2>1 DEF ReaderInv
  <2>3. reader.at # "idle" => Thread' = Thread
    BY <2>2 DEF Thread
  <2>4. Sent' = Sent
    BY DEF Sent
  <2>5. QED
    BY <1>1, <2>2, <2>3, <2>4 DEF ReaderInv
<1>7. QED
  BY <1>4, <1>5, <1>6 DEF MirrorInv

\* A day passes, Google changes the event, or a message about it comes.
LEMMA WorldStep == ASSUME MirrorInv, NextDay \/ Edit \/ Send PROVE MirrorInv'
<1>1. MirrorTypeOK
  BY DEF MirrorInv
<1>2. Version \in 0..MaxVersions /\ Len(mail) \in 0..MaxMail
  BY <1>1, Entries
<1>3. CASE Edit
  <2> DEFINE S == [live : BOOLEAN, day : 0..MaxDay]
  <2>1. PICK e \in S : google' = Append(google, e)
    BY <1>3 DEF Edit
  <2>2. google \in Seq(S)
    BY <1>1 DEF MirrorTypeOK
  <2> HIDE DEF S
  <2>3. google' \in Seq(S) /\ Version' = Version + 1 /\ \A n \in 1..Version : google'[n] = google[n]
    BY <2>1, <2>2, Grows DEF Version
  <2>4. UNCHANGED <<today, mail, rows, made, conn, dead, passes, reader, taps, failures>> /\ Version < MaxVersions
    BY <1>3 DEF Edit
  <2>5. Version' <= MaxVersions /\ Version <= Version'
    BY <1>2, <2>3, <2>4, MirrorBounds
  <2>6. MirrorTypeOK'
    BY <1>1, <2>3, <2>4, <2>5 DEF MirrorTypeOK, S
  <2>7. QED
    BY <1>2, <2>3, <2>4, <2>5, <2>6, QuietStep DEF StaysAt
<1>4. CASE Send
  <2> DEFINE T == [kind : {"invite", "cancel", "booked", "asked"}, thread : 1..MaxMail]
  <2>1. Threads \subseteq 1..MaxMail /\ Cardinality(Threads) + 1 \in 1..MaxMail
    BY <1>1, <1>2, <1>4, ThreadsCounted, MirrorBounds DEF Send
  <2>2. PICK e \in T : mail' = Append(mail, e)
    BY <1>4, <2>1 DEF Send
  <2>3. mail \in Seq(T)
    BY <1>1 DEF MirrorTypeOK
  <2> HIDE DEF T
  <2>4. mail' \in Seq(T) /\ Len(mail') = Len(mail) + 1 /\ \A i \in 1..Len(mail) : mail'[i] = mail[i]
    BY <2>2, <2>3, Grows
  <2>5. UNCHANGED <<today, google, rows, made, conn, dead, passes, reader, taps, failures>> /\ Len(mail) < MaxMail
    BY <1>4 DEF Send
  <2>6. Len(mail') <= MaxMail /\ Len(mail) <= Len(mail')
    BY <1>2, <2>4, <2>5, MirrorBounds
  <2>7. MirrorTypeOK'
    BY <1>1, <2>4, <2>5, <2>6 DEF MirrorTypeOK, T, Version
  <2>8. QED
    BY <1>2, <2>4, <2>5, <2>6, <2>7, QuietStep DEF Version, StaysAt
<1>5. CASE NextDay
  <2>1. /\ today' = today + 1 /\ today < MaxDay
        /\ UNCHANGED <<google, mail, rows, made, conn, dead, passes, reader, taps, failures>>
    BY <1>5 DEF NextDay
  <2>2. today' \in 0..MaxDay
    BY <1>1, <2>1, MirrorBounds DEF MirrorTypeOK
  <2>3. MirrorTypeOK'
    BY <1>1, <2>1, <2>2 DEF MirrorTypeOK, Version
  <2>4. /\ Version <= Version' /\ \A n \in 1..Version : google'[n] = google[n]
        /\ Len(mail) <= Len(mail') /\ \A i \in 1..Len(mail) : mail'[i] = mail[i]
    BY <1>2, <2>1 DEF Version
  <2>5. QED
    BY <2>1, <2>3, <2>4, QuietStep DEF StaysAt
<1>6. QED
  BY <1>3, <1>4, <1>5

\* The types, where only the connection and its syncs move.
LEMMA SyncTypes ==
    ASSUME MirrorTypeOK, UNCHANGED <<today, google, mail, rows, made, reader, taps>>,
           conn' \in Conns,
           dead' \in 0..MaxGrants, failures' \in 0..MaxFailures,
           passes' \subseteq Passes, IsFiniteSet(passes'), Cardinality(passes') <= MaxPasses
    PROVE  MirrorTypeOK'
BY DEF MirrorTypeOK, Passes, Conns, Version

\* A step of the connection or of a sync that writes no row.
LEMMA SyncQuiet ==
    ASSUME MirrorInv, UNCHANGED <<today, google, mail, rows, made, reader, taps>>,
           conn' \in Conns,
           conn'.token = NoToken \/ StaysAt,
           dead' \in 0..MaxGrants, failures' \in 0..MaxFailures,
           passes' \subseteq Passes, IsFiniteSet(passes'), Cardinality(passes') <= MaxPasses,
           \A p \in passes' : PassOK(p)' \/ (p \in passes /\ conn'.token = conn.token)
    PROVE  MirrorInv'
<1>1. MirrorTypeOK' /\ MirrorTypeOK
  BY SyncTypes DEF MirrorInv
<1>2. Version \in Nat /\ Len(mail) \in Nat
  BY <1>1, Entries
<1>3. /\ Version <= Version' /\ \A n \in 1..Version : google'[n] = google[n]
      /\ Len(mail) <= Len(mail') /\ \A i \in 1..Len(mail) : mail'[i] = mail[i]
  BY <1>2 DEF Version
<1>4. QED
  BY <1>1, <1>3, QuietStep

\* Google still answers, or nobody has asked: the counter of what fails.
LEMMA FailureCounted ==
    ASSUME MirrorTypeOK, Calm, failures' = failures + 1
    PROVE  failures' \in 0..MaxFailures
<1>1. conn.grant \in Int /\ conn.grant >= 1 /\ failures \in 0..MaxFailures
  BY MirrorBounds DEF MirrorTypeOK
<1>2. QED
  BY <1>1, MirrorBounds DEF Calm

\* A sync whose connection has moved on has nothing to bring.
LEMMA OvertakenOK ==
    ASSUME MirrorTypeOK, NEW ps \in SUBSET passes, passes' = Overtaken(ps)
    PROVE  /\ passes' \subseteq Passes /\ IsFiniteSet(passes') /\ Cardinality(passes') <= MaxPasses
           /\ \A p \in passes' : PassOK(p)'
<1>1. /\ passes \subseteq Passes /\ IsFiniteSet(passes) /\ Cardinality(passes) <= MaxPasses
  BY DEF MirrorTypeOK, Passes
<1>2. IsFiniteSet(ps) /\ Cardinality(ps) <= Cardinality(passes)
  BY <1>1, FS_Subset
<1>3. Cardinality(ps) \in Nat /\ Cardinality(passes) \in Nat /\ MaxPasses \in Nat
  BY <1>1, <1>2, FS_CardinalityType, MirrorBounds
<1>4. ps \in SUBSET Passes /\ Cardinality(ps) <= MaxPasses
  BY <1>1, <1>2, <1>3
<1>5. /\ passes' \subseteq Passes /\ IsFiniteSet(passes') /\ Cardinality(passes') <= MaxPasses
      /\ \A p \in passes' : ~p.fresh
  BY <1>2, <1>4, OvertakenShape
<1>6. QED
  BY <1>5 DEF PassOK

\* The connection is made, withdrawn or ended.
LEMMA ConnectionStep == ASSUME MirrorInv, Connect \/ Withdraw \/ Disconnect PROVE MirrorInv'
<1>1. MirrorTypeOK
  BY DEF MirrorInv
<1>2. /\ conn \in Conns
      /\ dead \in 0..MaxGrants /\ failures \in 0..MaxFailures
      /\ passes \subseteq Passes /\ IsFiniteSet(passes) /\ Cardinality(passes) <= MaxPasses
      /\ NoToken \in NoToken..MaxVersions
  BY <1>1, MirrorBounds DEF MirrorTypeOK, Passes, Conns, NoToken
<1>3. CASE Connect
  <2>1. /\ conn.grant < MaxGrants /\ passes' = Overtaken(passes)
        /\ conn' = Granted(conn.grant + 1, "active")
        /\ UNCHANGED <<today, google, mail, rows, made, dead, reader, taps, failures>>
    BY <1>3 DEF Connect
  <2>2. conn.grant + 1 \in 1..MaxGrants
    BY <1>2, <2>1, MirrorBounds DEF Conns
  <2>3. /\ passes' \subseteq Passes /\ IsFiniteSet(passes') /\ Cardinality(passes') <= MaxPasses
        /\ \A p \in passes' : PassOK(p)'
    BY <1>1, <2>1, OvertakenOK
  <2>4. conn' \in Conns /\ conn'.token = NoToken
    BY <1>2, <2>1, <2>2, MirrorBounds DEF Granted, Conns
  <2>5. QED
    BY <1>2, <2>1, <2>3, <2>4, SyncQuiet
<1>4. CASE Withdraw
  <2>1. /\ dead' = conn.grant
        /\ UNCHANGED <<today, google, mail, rows, made, conn, passes, reader, taps, failures>>
    BY <1>4 DEF Withdraw
  <2>2. dead' \in 0..MaxGrants
    BY <1>2, <2>1, MirrorBounds DEF Conns
  <2>3. QED
    BY <1>2, <2>1, <2>2, SyncQuiet DEF StaysAt
<1>5. CASE Disconnect
  <2>1. /\ passes' = Overtaken(passes)
        /\ conn' = Granted(conn.grant, "none")
        /\ UNCHANGED <<today, google, mail, rows, made, dead, reader, taps, failures>>
    BY <1>5 DEF Disconnect
  <2>2. /\ passes' \subseteq Passes /\ IsFiniteSet(passes') /\ Cardinality(passes') <= MaxPasses
        /\ \A p \in passes' : PassOK(p)'
    BY <1>1, <2>1, OvertakenOK
  <2>3. conn' \in Conns /\ conn'.token = NoToken
    <3>1. conn.grant \in 1..MaxGrants
      BY <1>2 DEF Conns
    <3>2. QED
      BY <1>2, <2>1, <3>1, MirrorBounds DEF Granted, Conns
  <2>4. QED
    BY <1>2, <2>1, <2>2, <2>3, SyncQuiet
<1>6. QED
  BY <1>3, <1>4, <1>5

\* A sync is refused, gives up or dies.
LEMMA EndStep ==
    ASSUME MirrorInv, NEW p \in Running, Refused(p) \/ GiveUp(p) \/ Fail(p)
    PROVE  MirrorInv'
<1>1. MirrorTypeOK
  BY DEF MirrorInv
<1>2. /\ conn \in Conns
      /\ dead \in 0..MaxGrants /\ failures \in 0..MaxFailures
      /\ passes \subseteq Passes /\ IsFiniteSet(passes) /\ Cardinality(passes) <= MaxPasses
  BY <1>1 DEF MirrorTypeOK, Passes, Conns
<1>3. /\ passes \ {p} \subseteq Passes /\ IsFiniteSet(passes \ {p})
      /\ Cardinality(passes \ {p}) <= MaxPasses
  BY <1>1, RemovedShape
<1>4. CASE GiveUp(p) \/ Fail(p)
  <2>1. /\ passes' = passes \ {p}
        /\ UNCHANGED <<today, google, mail, rows, made, conn, dead, reader, taps>>
    BY <1>4 DEF GiveUp, Fail
  <2>2. failures' \in 0..MaxFailures
    BY <1>1, <1>2, <1>4, FailureCounted DEF GiveUp, Fail
  <2>3. QED
    BY <1>2, <1>3, <2>1, <2>2, SyncQuiet DEF StaysAt
<1>5. CASE Refused(p)
  <2> DEFINE same == conn.grant = p.grant /\ conn.status # "none"
  <2>1. /\ conn' = IF same THEN [conn EXCEPT !.status = "revoked"] ELSE conn
        /\ passes' = IF same THEN Overtaken(passes \ {p}) ELSE passes \ {p}
        /\ UNCHANGED <<today, google, mail, rows, made, dead, reader, taps, failures>>
    BY <1>5 DEF Refused
  <2> HIDE DEF same
  <2>2. /\ conn' \in Conns
        /\ conn'.token = conn.token /\ StaysAt
    BY <1>2, <2>1 DEF Conns, StaysAt
  <2>3. CASE same
    <3>1. /\ passes' \subseteq Passes /\ IsFiniteSet(passes') /\ Cardinality(passes') <= MaxPasses
          /\ \A q \in passes' : PassOK(q)'
      BY <1>1, <2>1, <2>3, OvertakenOK
    <3>2. QED
      BY <1>2, <2>1, <2>2, <3>1, SyncQuiet
  <2>4. CASE ~same
    <3>1. passes' = passes \ {p}
      BY <2>1, <2>4
    <3>2. QED
      BY <1>2, <1>3, <2>1, <2>2, <3>1, SyncQuiet
  <2>5. QED
    BY <2>3, <2>4
<1>6. QED
  BY <1>4, <1>5

\* A sync goes on with what it has read.
LEMMA ReadsOn ==
    ASSUME MirrorInv, NEW p \in Running, NEW q \in Passes, Becomes(p, q), PassOK(q),
           UNCHANGED <<today, google, mail, rows, made, conn, dead, reader, taps>>,
           failures' \in 0..MaxFailures
    PROVE  MirrorInv'
<1>1. MirrorTypeOK
  BY DEF MirrorInv
<1>2. /\ conn \in Conns
      /\ dead \in 0..MaxGrants
  BY <1>1 DEF MirrorTypeOK, Conns
<1>3. passes' \subseteq Passes /\ IsFiniteSet(passes') /\ Cardinality(passes') <= MaxPasses
  BY <1>1, BecomesShape
<1>4. PassOK(q)'
  BY DEF PassOK, Covers, Shown, Homed, Known, Linked, Live, InWindow, Version
<1>5. \A x \in passes' : PassOK(x)' \/ (x \in passes /\ conn'.token = conn.token)
  BY <1>4 DEF Becomes
<1>6. QED
  BY <1>2, <1>3, <1>5, SyncQuiet DEF StaysAt

\* What every sync may count on: the rows are no newer than the event, and a
\* cursor at the event's own version covers them as the stored one does.
LEMMA RowsKnown ==
    ASSUME MirrorInv
    PROVE  /\ Version \in 0..MaxVersions /\ conn.token \in NoToken..MaxVersions /\ conn.token <= Version
           /\ \A pk \in DOMAIN rows : rows[pk].ver \in 0..Version
           /\ conn.token >= 0 => Covers(conn.token, conn.since, conn.day)
           /\ \A s, d : Covers(0, s, d)
<1>1. MirrorTypeOK /\ RowsInv /\ CursorCovers /\ conn.token <= Version
  BY DEF MirrorInv
<1>2. Version \in 0..MaxVersions /\ conn.token \in NoToken..MaxVersions
  BY <1>1, Entries DEF MirrorTypeOK
<1>3. \A pk \in DOMAIN rows : rows[pk].ver \in 0..Version
  BY <1>1, <1>2, MirrorBounds DEF MirrorTypeOK, Row, RowsInv
<1>4. \A s, d : Covers(0, s, d)
  BY <1>2, <1>3 DEF Covers, Homed
<1>5. CASE conn.token > 0
  BY <1>1, <1>2, <1>3, <1>4, <1>5, CursorIsCovers
<1>6. CASE conn.token = 0
  BY <1>1, <1>2, <1>3, <1>4, <1>6 DEF Covers, Homed
<1>7. QED
  BY <1>1, <1>2, <1>3, <1>4, <1>5, <1>6, MirrorBounds DEF NoToken

\* The changes since the stored cursor are read.
LEMMA ListChangesStep == ASSUME MirrorInv, NEW p \in Running, ListChanges(p) PROVE MirrorInv'
<1> DEFINE event == IF Version > p.token THEN Version ELSE 0
<1>1. MirrorTypeOK
  BY DEF MirrorInv
<1>2. /\ p.at = "list" /\ p.token # NoToken /\ Becomes(p, Read(p, "commit", Version, event))
      /\ UNCHANGED <<today, google, mail, rows, made, conn, dead, reader, taps, failures>>
  BY DEF ListChanges
<1>3. /\ p.grant \in 1..MaxGrants /\ p.token \in NoToken..MaxVersions /\ p.fresh \in BOOLEAN
      /\ p.since \in 0..MaxVersions /\ p.day \in 0..MaxDay
      /\ p.fresh /\ p.token = conn.token /\ p.since = conn.since /\ p.day = conn.day
  BY <1>1, <1>2, RunningShape
<1>4. /\ Version \in 0..MaxVersions /\ conn.token \in 0..Version
      /\ \A pk \in DOMAIN rows : rows[pk].ver \in 0..Version
      /\ Covers(conn.token, conn.since, conn.day)
  BY <1>2, <1>3, RowsKnown, MirrorBounds DEF NoToken
<1>5. event \in {0, Version} /\ (event = 0 => Version = conn.token)
  BY <1>3, <1>4, MirrorBounds
<1> HIDE DEF event
<1>6. Version \in NoToken..MaxVersions /\ event \in 0..MaxVersions
  BY <1>4, <1>5, MirrorBounds DEF NoToken
<1>7. PICK q \in Passes : /\ q = Read(p, "commit", Version, event)
                          /\ q.at = "commit" /\ q.next = Version /\ q.event = event
                          /\ q.since = conn.since /\ q.day = conn.day
  <2>1. /\ p.grant \in 1..MaxGrants /\ p.token \in NoToken..MaxVersions /\ p.fresh \in BOOLEAN
        /\ p.since \in 0..MaxVersions /\ p.day \in 0..MaxDay
    BY <1>3
  <2>2. QED
    <3>1. PICK q \in Passes : /\ q = Read(p, "commit", Version, event)
                              /\ q.at = "commit" /\ q.next = Version /\ q.event = event
                              /\ q.since = p.since /\ q.day = p.day
      BY <1>6, <2>1, ReadShape
    <3>2. QED
      BY <1>3, <3>1
<1>8. event = 0 => Covers(q.next, q.since, q.day)
  BY <1>4, <1>5, <1>7
<1>9. PassOK(q)
  BY <1>4, <1>5, <1>7, <1>8 DEF PassOK
<1>10. failures' \in 0..MaxFailures
  BY <1>1, <1>2 DEF MirrorTypeOK
<1>11. QED
  BY <1>2, <1>7, <1>9, <1>10, ReadsOn

\* The cursor has expired.
LEMMA ExpireStep == ASSUME MirrorInv, NEW p \in Running, Expire(p) PROVE MirrorInv'
<1>1. MirrorTypeOK
  BY DEF MirrorInv
<1>2. /\ Becomes(p, ReadAfresh(p, "window", NoToken, 0, 0, today))
      /\ UNCHANGED <<today, google, mail, rows, made, conn, dead, reader, taps>>
  BY DEF Expire
<1>3. p.grant \in 1..MaxGrants /\ p.fresh \in BOOLEAN
  BY <1>1, RunningShape
<1>4. NoToken \in NoToken..MaxVersions /\ 0 \in 0..MaxVersions /\ today \in 0..MaxDay
  BY <1>1, MirrorBounds DEF NoToken, MirrorTypeOK
<1>5. PICK q \in Passes : q = ReadAfresh(p, "window", NoToken, 0, 0, today) /\ q.at = "window"
  BY <1>3, <1>4, ReadAfreshShape
<1>6. PassOK(q)
  BY <1>5 DEF PassOK
<1>7. failures' \in 0..MaxFailures
  BY <1>1, FailureCounted DEF Expire
<1>8. QED
  BY <1>2, <1>5, <1>6, <1>7, ReadsOn

\* The window is read.
LEMMA ListWindowStep == ASSUME MirrorInv, NEW p \in Running, ListWindow(p) PROVE MirrorInv'
<1>1. MirrorTypeOK
  BY DEF MirrorInv
<1>2. PICK listed \in Listed(p) :
        Becomes(p, ReadAfresh(p, "resolve", Version, IF listed THEN Version ELSE 0, Version, p.day))
  BY DEF ListWindow
<1> DEFINE event == IF listed THEN Version ELSE 0
<1>3. UNCHANGED <<today, google, mail, rows, made, conn, dead, reader, taps, failures>>
  BY DEF ListWindow
<1>4. p.grant \in 1..MaxGrants /\ p.fresh \in BOOLEAN /\ p.day \in 0..MaxDay
  BY <1>1, RunningShape
<1>5. /\ Version \in 0..MaxVersions /\ conn.token \in NoToken..MaxVersions /\ conn.token <= Version
      /\ \A pk \in DOMAIN rows : rows[pk].ver \in 0..Version
  BY RowsKnown
<1>6. event \in {0, Version} /\ (Homed(Version, Version, p.day) => event = Version)
  <2>1. event \in {0, Version}
    OBVIOUS
  <2>2. ASSUME Homed(Version, Version, p.day) PROVE event = Version
    <3>1. ~(Version > Version) /\ Version # 0
      BY <1>5, <2>2, MirrorBounds DEF Homed
    <3>2. google[Version].live /\ InWindow(google[Version].day, p.day)
      BY <2>2, <3>1, Zenon DEF Homed, Known
    <3>3. Listed(p) = {TRUE}
      BY <3>1, <3>2 DEF Listed
    <3>4. listed = TRUE
      BY <3>3
    <3>5. QED
      BY <3>4
  <2>3. QED
    BY <2>1, <2>2
<1>7. Becomes(p, ReadAfresh(p, "resolve", Version, event, Version, p.day))
  BY <1>2
<1> HIDE DEF event
<1>8. Version \in NoToken..MaxVersions /\ event \in 0..MaxVersions
  BY <1>5, <1>6, MirrorBounds DEF NoToken
<1>9. PICK q \in Passes : /\ q = ReadAfresh(p, "resolve", Version, event, Version, p.day)
                          /\ q.at = "resolve" /\ q.next = Version /\ q.event = event
                          /\ q.since = Version /\ q.day = p.day
  BY <1>4, <1>5, <1>8, ReadAfreshShape
<1>10. PassOK(q)
  BY <1>5, <1>6, <1>9 DEF PassOK
<1>11. failures' \in 0..MaxFailures
  BY <1>1, <1>3 DEF MirrorTypeOK
<1>12. QED
  BY <1>3, <1>7, <1>9, <1>10, <1>11, ReadsOn

\* The rows that the window's list lacks are asked for.
LEMMA ResolveStep == ASSUME MirrorInv, NEW p \in Running, Resolve(p) PROVE MirrorInv'
<1> DEFINE event == IF Missing(p) # {} THEN Version ELSE p.event
<1>1. MirrorTypeOK /\ RowsInv
  BY DEF MirrorInv
<1>2. /\ p.at = "resolve" /\ Becomes(p, Read(p, "commit", p.next, event))
      /\ UNCHANGED <<today, google, mail, rows, made, conn, dead, reader, taps, failures>>
  BY DEF Resolve
<1>3. /\ p.grant \in 1..MaxGrants /\ p.token \in NoToken..MaxVersions /\ p.fresh \in BOOLEAN
      /\ p.since \in 0..MaxVersions /\ p.day \in 0..MaxDay
      /\ p.next \in NoToken..MaxVersions /\ p.event \in 0..MaxVersions /\ p \in passes
  BY <1>1, <1>2, RunningShape
<1>4. /\ Version \in 0..MaxVersions
      /\ \A pk \in DOMAIN rows : rows[pk].ver \in 0..Version
      /\ \A s, d : Covers(0, s, d)
  BY RowsKnown
<1>5. event \in {Version, p.event} /\ event \in 0..MaxVersions
  BY <1>3, <1>4
<1>6. PICK q \in Passes : /\ q = Read(p, "commit", p.next, event)
                          /\ q.at = "commit" /\ q.next = p.next /\ q.event = event /\ q.fresh = p.fresh
                          /\ q.since = p.since /\ q.day = p.day
  BY <1>3, <1>5, ReadShape
<1>7. ASSUME p.fresh PROVE PassOK(q)
  <2>1. /\ p.next >= 0 /\ conn.token <= p.next /\ p.next <= Version
        /\ p.event # 0 => \A pk \in DOMAIN rows : rows[pk].ver <= p.event
        /\ p.event \in {0, p.next} /\ p.since = p.next
        /\ Homed(p.next, p.since, p.day) => p.event = p.next
    BY <1>2, <1>3, <1>7 DEF MirrorInv, PassOK
  <2>2. CASE Missing(p) # {}
    <3>1. p.event = 0 /\ event = Version
      BY <2>2 DEF Missing
    <3>2. ~Homed(p.next, p.since, p.day)
      BY <2>1, <3>1 DEF Homed
    <3>3. event = 0 => p.next = 0
      BY <1>3, <1>4, <2>1, <3>1
    <3>4. event = 0 => Covers(q.next, q.since, q.day)
      BY <1>4, <1>6, <3>3
    <3>5. /\ q.next >= 0 /\ conn.token <= q.next /\ q.next <= Version /\ q.event = Version
          /\ ~Homed(q.next, q.since, q.day)
      BY <1>6, <2>1, <3>1, <3>2
    <3>6. QED
      BY <1>4, <1>6, <3>4, <3>5 DEF PassOK
  <2>3. CASE Missing(p) = {}
    <3>1. event = p.event
      BY <2>3
    <3>2. event = 0 => Covers(q.next, q.since, q.day)
      <4>1. SUFFICES ASSUME event = 0 PROVE Covers(q.next, q.since, q.day)
        OBVIOUS
      <4>2. \A pk \in DOMAIN rows : ~Shown(pk, q.next, q.since, q.day)
        <5>1. ~(q.next > q.since)
          BY <1>3, <1>6, <2>1, MirrorBounds DEF NoToken
        <5>2. QED
          BY <1>1, <1>6, <2>3, <3>1, <4>1, <5>1 DEF Missing, StartsIn, Shown, Known, RowsInv
      <4>3. ~Homed(q.next, q.since, q.day)
        BY <1>6, <2>1, <3>1, <4>1 DEF Homed
      <4>4. QED
        BY <4>2, <4>3 DEF Covers
    <3>3. QED
      BY <1>3, <1>4, <1>6, <2>1, <3>1, <3>2 DEF PassOK
  <2>4. QED
    BY <2>2, <2>3
<1>8. PassOK(q)
  BY <1>6, <1>7 DEF PassOK
<1>9. failures' \in 0..MaxFailures
  BY <1>1, <1>2 DEF MirrorTypeOK
<1>10. QED
  BY <1>2, <1>6, <1>8, <1>9, ReadsOn

-----------------------------------------------------------------------------
(* CalendarMirror: a sync commits.                                         *)

\* The rows that stand for the event: all of Google's and all that are linked,
\* and each bears the meeting's UID.
LEMMA MatchedRows ==
    ASSUME RowsInv
    PROVE  /\ Matched \subseteq DOMAIN rows /\ Linked \subseteq Matched
           /\ \A pk \in DOMAIN rows : rows[pk].source = "gcal" => pk \in Matched
           /\ \A pk \in Matched : rows[pk].uid
           /\ Matched = {} => Linked = {} /\ \A pk \in DOMAIN rows : ~rows[pk].uid
BY DEF RowsInv, Matched, Linked, Identified

\* What version v of the event makes of the rows.
Upserted(v) ==
    /\ made' \in 0..(MaxRows + 1) /\ made <= made'
    /\ DOMAIN rows \subseteq DOMAIN rows' /\ DOMAIN rows' \subseteq 1..made'
    /\ \A pk \in DOMAIN rows' : rows'[pk] \in Row
    /\ \A pk \in DOMAIN rows :
        /\ rows'[pk].source = rows[pk].source /\ rows'[pk].uid = rows[pk].uid
        /\ rows[pk].external => rows'[pk].external
        /\ rows'[pk].ver \in {rows[pk].ver, v}
        /\ rows[pk].off # 0 /\ rows'[pk].off = 0 =>
             google[v].live /\ rows'[pk].starts = <<"google", rows'[pk].ver>> /\ rows'[pk].ver = v
    /\ \A pk \in DOMAIN rows' \ DOMAIN rows :
        /\ pk = made + 1 /\ rows'[pk].source = "gcal" /\ rows'[pk].external /\ rows'[pk].ver = v
        /\ \A k \in DOMAIN rows : ~rows[k].uid
    /\ \A pk \in DOMAIN rows' :
        /\ rows'[pk].external => rows'[pk].uid
        /\ rows'[pk].source = "gcal" => rows'[pk].external
        /\ rows'[pk].source = "gcal" => \/ rows'[pk].off # 0 /\ ~google[v].live
                                           /\ (pk \in DOMAIN rows => rows'[pk] = rows[pk] \/ rows'[pk].ver = v)
                                           /\ (pk \in DOMAIN rows /\ rows'[pk] = rows[pk] => rows[pk].off # 0)
                                        \/ /\ google[v].live /\ rows'[pk].off = 0 /\ rows'[pk].ver = v
                                           /\ rows'[pk].starts = <<"google", v>>
    /\ google[v].live => \E pk \in DOMAIN rows' : rows'[pk].external /\ rows'[pk].ver = v
    /\ made' = made \/ \E pk \in DOMAIN rows' : rows'[pk].external

\* The event was deleted.
LEMMA GoneUpserts ==
    ASSUME MirrorTypeOK, RowsInv, NEW v \in 1..Version, Upsert(v), ~google[v].live
    PROVE  Upserted(v)
<1>1. Version \in 0..MaxVersions /\ v \in 0..MaxVersions
  BY Entries, MirrorBounds
<1>2. /\ made' = made /\ DOMAIN rows' = DOMAIN rows
      /\ \A pk \in DOMAIN rows :
           rows'[pk] = IF pk \in Matched /\ Live(pk) THEN Gone(rows[pk], v) ELSE rows[pk]
  BY DEF Upsert
<1>3. made \in 0..(MaxRows + 1) /\ DOMAIN rows \subseteq 1..made /\ \A pk \in DOMAIN rows : rows[pk] \in Row
  BY DEF MirrorTypeOK
<1>4. ASSUME NEW pk \in DOMAIN rows
      PROVE  /\ rows'[pk] \in Row
             /\ rows'[pk].source = rows[pk].source /\ rows'[pk].uid = rows[pk].uid
             /\ rows[pk].external => rows'[pk].external
             /\ rows'[pk].ver \in {rows[pk].ver, v}
             /\ rows[pk].off # 0 => rows'[pk].off # 0
             /\ rows'[pk].external => rows'[pk].uid
             /\ rows[pk].source = "gcal" => /\ rows'[pk].external /\ rows'[pk].off # 0
                                            /\ rows'[pk] = rows[pk] \/ rows'[pk].ver = v
                                            /\ rows'[pk] = rows[pk] => rows[pk].off # 0
  <2>1. /\ rows[pk] \in Row
        /\ rows[pk].external => rows[pk].uid
        /\ rows[pk].source = "gcal" => rows[pk].external /\ pk \in Matched
        /\ pk \in Matched => rows[pk].uid
    BY <1>3, MatchedRows DEF RowsInv
  <2>2. CASE pk \in Matched /\ Live(pk)
    <3>1. rows'[pk] = Gone(rows[pk], v)
      BY <1>2, <2>2
    <3>2. Gone(rows[pk], v) \in Row /\ Gone(rows[pk], v).off # 0
      BY <1>1, <1>3, RowShapes
    <3>3. /\ Gone(rows[pk], v).source = rows[pk].source /\ Gone(rows[pk], v).uid = rows[pk].uid
          /\ Gone(rows[pk], v).external /\ Gone(rows[pk], v).ver = v
      BY DEF Gone
    <3>4. rows[pk].off = 0
      BY <2>2 DEF Live
    <3>5. QED
      BY <2>1, <2>2, <3>1, <3>2, <3>3, <3>4
  <2>3. CASE ~(pk \in Matched /\ Live(pk))
    <3>1. rows'[pk] = rows[pk]
      BY <1>2, <2>3
    <3>2. rows[pk].source = "gcal" => rows[pk].off # 0
      BY <2>1, <2>3 DEF Live
    <3>3. QED
      BY <2>1, <3>1, <3>2
  <2>4. QED
    BY <2>2, <2>3
<1>5. QED
  BY <1>2, <1>3, <1>4 DEF Upserted

\* The event is new.
LEMMA NewUpserts ==
    ASSUME MirrorTypeOK, RowsInv, NEW v \in 1..Version, Upsert(v), google[v].live, Matched = {}
    PROVE  Upserted(v)
<1>1. Version \in 0..MaxVersions /\ v \in 0..MaxVersions
  BY Entries, MirrorBounds
<1>2. /\ made \in 0..(MaxRows + 1) /\ DOMAIN rows \subseteq 1..made
      /\ \A pk \in DOMAIN rows : rows[pk] \in Row
  BY DEF MirrorTypeOK
<1>3. Linked = {} /\ made <= MaxRows /\ \A pk \in DOMAIN rows : ~rows[pk].uid
  BY MatchedRows DEF RowsInv
<1> DEFINE new == Held(Blank("gcal"), v)
<1>4. made' = made + 1 /\ rows' = Put(made + 1, new)
  BY DEF Upsert
<1>5. new \in Row /\ new.source = "gcal" /\ new.external /\ new.ver = v /\ new.uid
  BY <1>1, BlankShapes
<1>6. new.off = 0 /\ new.starts = <<"google", v>>
  BY DEF Held
<1> HIDE DEF new
<1>7. made + 1 \in 1..(MaxRows + 1) /\ made + 1 \notin DOMAIN rows /\ made <= made'
  BY <1>2, <1>3, <1>4, MirrorBounds
<1>8. /\ DOMAIN rows' = DOMAIN rows \cup {made + 1} /\ rows'[made + 1] = new
      /\ \A pk \in DOMAIN rows : rows'[pk] = rows[pk]
  BY <1>4, <1>7 DEF Put
<1>9. DOMAIN rows' \subseteq 1..made'
  BY <1>2, <1>4, <1>7, <1>8
<1>10. \A pk \in DOMAIN rows : rows[pk].source # "gcal" /\ ~rows[pk].external
  BY <1>3 DEF RowsInv
<1>11. QED
  <2>1. \A pk \in DOMAIN rows' \ DOMAIN rows : pk = made + 1 /\ rows'[pk] = new
    BY <1>8
  <2>2. made' \in 0..(MaxRows + 1)
    BY <1>4, <1>7
  <2>3. \A pk \in DOMAIN rows' : rows'[pk] \in Row
    BY <1>2, <1>5, <1>8
  <2>4. \A pk \in DOMAIN rows' :
        /\ rows'[pk].external => rows'[pk].uid
        /\ rows'[pk].source = "gcal" => rows'[pk] = new
    BY <1>5, <1>8, <1>10
  <2>5. made + 1 \in DOMAIN rows' /\ DOMAIN rows \subseteq DOMAIN rows'
    BY <1>8
  <2>6. QED
    BY <1>3, <1>5, <1>6, <1>7, <1>8, <1>9, <1>10, <2>1, <2>2, <2>3, <2>4, <2>5 DEF Upserted

\* The event was made or moved, and has a row.
LEMMA HeldUpserts ==
    ASSUME MirrorTypeOK, RowsInv, NEW v \in 1..Version, Upsert(v), google[v].live, Matched # {}
    PROVE  Upserted(v)
<1>1. Version \in 0..MaxVersions /\ v \in 0..MaxVersions
  BY Entries, MirrorBounds
<1>2. /\ made' = made /\ DOMAIN rows' = DOMAIN rows
      /\ \A pk \in DOMAIN rows : rows'[pk] = IF pk \in Matched THEN Held(rows[pk], v) ELSE rows[pk]
  BY DEF Upsert
<1>3. made \in 0..(MaxRows + 1) /\ DOMAIN rows \subseteq 1..made /\ \A pk \in DOMAIN rows : rows[pk] \in Row
  BY DEF MirrorTypeOK
<1>4. ASSUME NEW pk \in DOMAIN rows
      PROVE  /\ rows'[pk] \in Row
             /\ rows'[pk].source = rows[pk].source /\ rows'[pk].uid = rows[pk].uid
             /\ rows[pk].external => rows'[pk].external
             /\ rows'[pk].ver \in {rows[pk].ver, v}
             /\ rows'[pk].external => rows'[pk].uid
             /\ pk \in Matched => /\ rows'[pk].external /\ rows'[pk].off = 0 /\ rows'[pk].ver = v
                                  /\ rows'[pk].starts = <<"google", v>>
             /\ pk \notin Matched => rows'[pk] = rows[pk] /\ rows[pk].source # "gcal"
  <2>1. /\ rows[pk] \in Row
        /\ rows[pk].external => rows[pk].uid
        /\ rows[pk].source = "gcal" => pk \in Matched
        /\ pk \in Matched => rows[pk].uid
    BY <1>3, MatchedRows DEF RowsInv
  <2>2. CASE pk \in Matched
    <3>1. rows'[pk] = Held(rows[pk], v)
      BY <1>2, <2>2
    <3>2. Held(rows[pk], v) \in Row
      BY <1>1, <1>3, RowShapes
    <3>3. /\ Held(rows[pk], v).source = rows[pk].source /\ Held(rows[pk], v).uid = TRUE
          /\ Held(rows[pk], v).external /\ Held(rows[pk], v).ver = v /\ Held(rows[pk], v).off = 0
          /\ Held(rows[pk], v).starts = <<"google", v>>
      BY DEF Held
    <3>4. rows[pk].uid = TRUE
      BY <1>3, <2>1, <2>2 DEF Row
    <3>5. QED
      BY <2>2, <3>1, <3>2, <3>3, <3>4
  <2>3. CASE pk \notin Matched
    <3>1. rows'[pk] = rows[pk]
      BY <1>2, <2>3
    <3>2. QED
      BY <2>1, <2>3, <3>1
  <2>4. QED
    BY <2>2, <2>3
<1>5. \E pk \in DOMAIN rows' : rows'[pk].external /\ rows'[pk].ver = v
  BY <1>2, <1>4, MatchedRows
<1>6. ASSUME NEW pk \in DOMAIN rows, rows[pk].off # 0, rows'[pk].off = 0
      PROVE  rows'[pk].starts = <<"google", rows'[pk].ver>> /\ rows'[pk].ver = v
  BY <1>4, <1>6
<1>7. QED
  BY <1>2, <1>3, <1>4, <1>5, <1>6 DEF Upserted

\* The event is made to stand for version v.
LEMMA UpsertDone ==
    ASSUME MirrorTypeOK, RowsInv, NEW v \in 1..Version, Upsert(v)
    PROVE  Upserted(v)
BY GoneUpserts, NewUpserts, HeldUpserts

\* The rows after it.
LEMMA UpsertedRows ==
    ASSUME MirrorTypeOK, RowsInv, NEW v \in 1..Version, Upserted(v), google' = google,
           \A pk \in DOMAIN rows : rows[pk].ver <= v
    PROVE  RowsInv' /\ \A pk \in DOMAIN rows : rows'[pk].ver >= rows[pk].ver
<1>1. Version' = Version /\ Version \in Nat /\ v \in Nat /\ v > 0 /\ v <= Version
  BY Entries DEF Version
<1>2. \A pk \in DOMAIN rows : rows[pk].ver \in Nat /\ rows[pk].ver <= v
  BY MirrorBounds DEF MirrorTypeOK, Row
<1>3. ASSUME NEW pk \in DOMAIN rows'
      PROVE  /\ rows'[pk].source = "gcal" => rows'[pk].external /\ rows'[pk].ver > 0
             /\ rows'[pk].external => rows'[pk].uid
             /\ rows'[pk].ver <= Version'
             /\ pk \in DOMAIN rows => rows'[pk].ver >= rows[pk].ver
  <2>1. rows'[pk].source = "gcal" => rows'[pk].external
    BY DEF Upserted
  <2>2. rows'[pk].external => rows'[pk].uid
    BY DEF Upserted
  <2>3. CASE pk \in DOMAIN rows
    <3>1. /\ rows'[pk].ver \in {rows[pk].ver, v}
          /\ rows'[pk].source = rows[pk].source
      BY <2>3 DEF Upserted
    <3>2. rows[pk].source = "gcal" => rows[pk].ver > 0
      BY <2>3 DEF RowsInv
    <3>3. rows'[pk].ver <= Version' /\ rows'[pk].ver >= rows[pk].ver
      BY <1>1, <1>2, <2>3, <3>1
    <3>4. rows'[pk].source = "gcal" => rows'[pk].ver > 0
      BY <1>1, <3>1, <3>2
    <3>5. QED
      BY <2>1, <2>2, <3>3, <3>4
  <2>4. CASE pk \notin DOMAIN rows
    <3>1. rows'[pk].ver = v
      BY <2>4 DEF Upserted
    <3>2. QED
      BY <1>1, <2>1, <2>2, <2>4, <3>1
  <2>5. QED
    BY <2>3, <2>4
<1>4. ASSUME NEW a \in DOMAIN rows', NEW b \in DOMAIN rows', a # b, rows'[a].uid, rows'[b].uid
      PROVE  FALSE
  <2>1. CASE a \in DOMAIN rows /\ b \in DOMAIN rows
    <3>1. rows[a].uid /\ rows[b].uid
      BY <1>4, <2>1 DEF Upserted
    <3>2. QED
      BY <1>4, <2>1, <3>1 DEF RowsInv
  <2>2. CASE a \in DOMAIN rows /\ b \notin DOMAIN rows
    <3>1. rows'[a].uid = rows[a].uid /\ ~rows[a].uid
      BY <2>2 DEF Upserted
    <3>2. QED
      BY <1>4, <3>1
  <2>3. CASE a \notin DOMAIN rows /\ b \in DOMAIN rows
    <3>1. rows'[b].uid = rows[b].uid /\ ~rows[b].uid
      BY <2>3 DEF Upserted
    <3>2. QED
      BY <1>4, <3>1
  <2>4. CASE a \notin DOMAIN rows /\ b \notin DOMAIN rows
    <3>1. a = made + 1 /\ b = made + 1
      BY <2>4 DEF Upserted
    <3>2. QED
      BY <1>4, <3>1
  <2>5. QED
    BY <2>1, <2>2, <2>3, <2>4
<1>5. ASSUME Linked' = {} PROVE made' <= MaxRows
  <2>1. \A pk \in DOMAIN rows' : ~rows'[pk].external
    BY <1>5 DEF Linked
  <2>2. made' = made
    BY <2>1 DEF Upserted
  <2>3. \A pk \in DOMAIN rows : ~rows[pk].external
    BY <2>1 DEF Upserted
  <2>4. Linked = {}
    BY <2>3 DEF Linked
  <2>5. QED
    BY <2>2, <2>4 DEF RowsInv
<1>6. QED
  <2>1. \A a, b \in DOMAIN rows' : a # b => ~(rows'[a].uid /\ rows'[b].uid)
    BY <1>4
  <2>2. DOMAIN rows \subseteq DOMAIN rows'
    BY DEF Upserted
  <2>3. RowsInv'
    BY <1>3, <1>5, <2>1 DEF RowsInv
  <2>4. QED
    BY <1>3, <2>2, <2>3

\* They show what Google said.
LEMMA UpsertedHonest ==
    ASSUME MirrorHonest, NEW v \in 1..Version, Upserted(v), google' = google
    PROVE  MirrorHonest'
<1> SUFFICES ASSUME NEW pk \in DOMAIN rows', rows'[pk].source = "gcal", ~rows'[pk].lost
             PROVE  IF Live(pk)' THEN google'[rows'[pk].ver].live /\ rows'[pk].starts = <<"google", rows'[pk].ver>>
                    ELSE ~google'[rows'[pk].ver].live
  BY DEF MirrorHonest
<1>1. \/ /\ rows'[pk].off # 0 /\ ~google[v].live
         /\ (pk \in DOMAIN rows => rows'[pk] = rows[pk] \/ rows'[pk].ver = v)
         /\ (pk \in DOMAIN rows /\ rows'[pk] = rows[pk] => rows[pk].off # 0)
      \/ /\ google[v].live /\ rows'[pk].off = 0 /\ rows'[pk].ver = v
         /\ rows'[pk].starts = <<"google", v>>
  BY DEF Upserted
<1>2. pk \notin DOMAIN rows => rows'[pk].ver = v
  BY DEF Upserted
<1>3. CASE google[v].live /\ rows'[pk].off = 0 /\ rows'[pk].ver = v /\ rows'[pk].starts = <<"google", v>>
  BY <1>3 DEF Live
<1>4. CASE rows'[pk].off # 0 /\ ~google[v].live /\ rows'[pk].ver = v
  BY <1>4 DEF Live
<1>5. CASE pk \in DOMAIN rows /\ rows'[pk] = rows[pk] /\ rows[pk].off # 0
  <2>1. ~google[rows[pk].ver].live
    BY <1>5 DEF MirrorHonest, Live
  <2>2. QED
    BY <1>5, <2>1 DEF Live
<1>6. QED
  BY <1>1, <1>2, <1>3, <1>4, <1>5

\* They are covered by a cursor that came with version v.
LEMMA UpsertedCovers ==
    ASSUME NEW v \in 1..Version, Upserted(v), google' = google, NEW n \in 0..v, NEW s, NEW d,
           Homed(n, s, d) => v = n
    PROVE  Covers(n, s, d)'
<1>1. ASSUME NEW pk \in DOMAIN rows', Shown(pk, n, s, d)' PROVE rows'[pk].ver >= n
  <2>1. rows'[pk].source = "gcal" /\ rows'[pk].off = 0
    BY <1>1 DEF Shown, Live
  <2>2. rows'[pk].ver = v
    BY <2>1 DEF Upserted
  <2>3. QED
    BY <2>2
<1>2. ASSUME Homed(n, s, d)' PROVE \E pk \in Linked' : rows'[pk].ver >= n
  <2>1. Homed(n, s, d) /\ v = n
    BY <1>2 DEF Homed, Known, InWindow
  <2>2. PICK pk \in DOMAIN rows' : rows'[pk].external /\ rows'[pk].ver = v
    BY <2>1 DEF Homed, Upserted
  <2>3. QED
    BY <2>1, <2>2 DEF Linked
<1>3. QED
  BY <1>1, <1>2 DEF Covers

\* The row in the mail pass's hands is still whose it was.
LEMMA SteadyReader ==
    ASSUME MirrorTypeOK, ReaderInv, UNCHANGED <<mail, reader>>,
           \A pk \in DOMAIN rows \cap DOMAIN rows' :
               rows'[pk].source = rows[pk].source /\ rows'[pk].uid = rows[pk].uid,
           \A pk \in DOMAIN rows' \ DOMAIN rows : pk = made + 1 /\ rows'[pk].source # "capture"
    PROVE  ReaderInv'
<1>1. Sent' = Sent /\ Thread' = Thread /\ made \in Nat /\ reader.pk \in 0..made
  BY MirrorBounds DEF Sent, Thread, MirrorTypeOK
<1>2. ASSUME reader.at # "idle", reader.pk # 0, reader.pk \in DOMAIN rows'
      PROVE  /\ reader.copy.uid = rows'[reader.pk].uid
             /\ reader.copy.source = "gcal" <=> rows'[reader.pk].source = "gcal"
  <2>1. reader.pk \in DOMAIN rows
    BY <1>1, <1>2
  <2>2. rows'[reader.pk].source = rows[reader.pk].source /\ rows'[reader.pk].uid = rows[reader.pk].uid
    BY <1>2, <2>1
  <2>3. QED
    BY <1>2, <2>1, <2>2 DEF ReaderInv
<1>3. ASSUME reader.at # "idle", reader.pk # 0, reader.copy.uid,
             NEW pk \in DOMAIN rows' \ {reader.pk}, rows'[pk].source = "capture"
      PROVE  ~rows'[pk].uid
  <2>1. pk \in DOMAIN rows
    BY <1>3
  <2>2. rows'[pk].source = rows[pk].source /\ rows'[pk].uid = rows[pk].uid
    BY <2>1
  <2>3. QED
    BY <1>3, <2>1, <2>2 DEF ReaderInv
<1>4. QED
  BY <1>1, <1>2, <1>3 DEF ReaderInv

-----------------------------------------------------------------------------
(* CalendarMirror: what a step may never do.                               *)

\* No row and no cursor goes back.
Forward ==
    /\ \A pk \in DOMAIN rows \cap DOMAIN rows' : rows'[pk].ver >= rows[pk].ver
    /\ conn'.grant = conn.grant /\ conn'.token # NoToken => conn'.token >= conn.token

\* What is off comes back only with good reason.
BackForAReason ==
    \A pk \in DOMAIN rows \cap DOMAIN rows' :
        rows[pk].off # 0 /\ rows'[pk].off = 0 =>
            \/ rows'[pk].starts = <<"google", rows'[pk].ver>> /\ google[rows'[pk].ver].live /\ reader' = reader
            \/ Sent >= rows[pk].off /\ rows[pk].source # "gcal"
            \/ reader.copy.off # rows[pk].off

\* A sync commits.
LEMMA CommitStep ==
    ASSUME MirrorInv, NEW p \in Running, Commit(p)
    PROVE  MirrorInv' /\ Forward /\ BackForAReason
<1>1. /\ MirrorTypeOK /\ RowsInv /\ ReaderInv /\ MirrorHonest /\ conn.token <= Version
      /\ \A q \in passes : PassOK(q)
  BY DEF MirrorInv
<1>2. /\ p.at = "commit" /\ p.fresh
      /\ conn' = Synced(p, p.next) /\ passes' = Overtaken(passes \ {p})
      /\ UNCHANGED <<today, google, mail, dead, reader, taps, failures>>
  BY DEF Commit, SameConnection
<1>3. /\ p \in passes /\ p.next \in NoToken..MaxVersions /\ p.event \in 0..MaxVersions
      /\ p.since \in 0..MaxVersions /\ p.day \in 0..MaxDay
  BY <1>1, <1>2, RunningShape
<1>4. /\ p.next >= 0 /\ conn.token <= p.next /\ p.next <= Version
      /\ p.event # 0 => /\ p.next <= p.event /\ p.event <= Version
                        /\ \A pk \in DOMAIN rows : rows[pk].ver <= p.event
      /\ p.event # 0 /\ Homed(p.next, p.since, p.day) => p.event = p.next
      /\ p.event = 0 => Covers(p.next, p.since, p.day)
  BY <1>1, <1>2, <1>3 DEF PassOK
<1>5. Version \in 0..MaxVersions /\ Version' = Version
  BY <1>1, <1>2, Entries DEF Version
<1>6. /\ conn' \in Conns
      /\ conn'.token = p.next /\ conn'.since = p.since /\ conn'.day = p.day
      /\ conn.token \in NoToken..MaxVersions
  BY <1>1, <1>2, <1>3 DEF MirrorTypeOK, Conns, Synced
<1>7. /\ passes' \subseteq Passes /\ IsFiniteSet(passes') /\ Cardinality(passes') <= MaxPasses
      /\ \A q \in passes' : PassOK(q)'
  BY <1>1, <1>2, OvertakenOK
<1>8. conn'.token <= Version' /\ conn'.token >= conn.token
  BY <1>4, <1>5, <1>6
<1>9. PICK n \in 0..Version : n = p.next
  BY <1>3, <1>4, <1>5, MirrorBounds DEF NoToken
<1>10. PICK s, d : s = p.since /\ d = p.day
  OBVIOUS
<1>11. CASE p.event = 0
  <2>1. UNCHANGED <<rows, made>>
    BY <1>11 DEF Commit
  <2>2. MirrorTypeOK'
    BY <1>1, <1>2, <1>6, <1>7, <2>1 DEF MirrorTypeOK, Passes, Conns, Version
  <2>3. RowsInv' /\ MirrorHonest'
    BY <1>1, <1>2, <1>5, <2>1 DEF RowsInv, Linked, MirrorHonest, Live
  <2>4. ReaderInv'
    BY <1>1, <1>2, <2>1 DEF ReaderInv, Sent, Thread
  <2>5. Covers(n, s, d)
    BY <1>4, <1>9, <1>10, <1>11
  <2>6. Covers(n, s, d)'
    BY <1>2, <2>1, <2>5 DEF Covers, Shown, Homed, Known, Linked, Live, InWindow
  <2>7. CursorCovers'
    BY <1>6, <1>9, <1>10, <2>6, CoversIsCursor
  <2>8. Forward
    <3>1. \A pk \in DOMAIN rows : rows[pk].ver \in Nat
      BY <1>1, MirrorBounds DEF MirrorTypeOK, Row
    <3>2. QED
      BY <1>8, <2>1, <3>1 DEF Forward
  <2>9. BackForAReason
    BY <2>1 DEF BackForAReason
  <2>10. QED
    BY <1>7, <1>8, <2>2, <2>3, <2>4, <2>7, <2>8, <2>9 DEF MirrorInv
<1>12. CASE p.event # 0
  <2>1. PICK v \in 1..Version : v = p.event
    BY <1>3, <1>4, <1>5, <1>12, MirrorBounds
  <2>2. Upsert(v)
    BY <1>12, <2>1 DEF Commit
  <2>3. Upserted(v)
    BY <1>1, <2>2, UpsertDone
  <2>4. RowsInv' /\ \A pk \in DOMAIN rows : rows'[pk].ver >= rows[pk].ver
    BY <1>1, <1>2, <1>4, <1>12, <2>1, <2>3, UpsertedRows
  <2>5. MirrorHonest'
    BY <1>1, <1>2, <2>3, UpsertedHonest
  <2>6. ReaderInv'
    <3>1. /\ \A pk \in DOMAIN rows \cap DOMAIN rows' :
               rows'[pk].source = rows[pk].source /\ rows'[pk].uid = rows[pk].uid
          /\ \A pk \in DOMAIN rows' \ DOMAIN rows : pk = made + 1 /\ rows'[pk].source # "capture"
      BY <2>3 DEF Upserted
    <3>2. QED
      BY <1>1, <1>2, <3>1, SteadyReader
  <2>7. n \in 0..v /\ (Homed(n, s, d) => v = n)
    BY <1>4, <1>5, <1>9, <1>10, <1>12, <2>1
  <2>8. Covers(n, s, d)'
    BY <1>2, <2>3, <2>7, UpsertedCovers
  <2>9. CursorCovers'
    BY <1>6, <1>9, <1>10, <2>8, CoversIsCursor
  <2>10. MirrorTypeOK'
    <3>1. /\ made' \in 0..(MaxRows + 1) /\ DOMAIN rows' \subseteq 1..made' /\ made <= made'
          /\ \A pk \in DOMAIN rows' : rows'[pk] \in Row
      BY <2>3 DEF Upserted
    <3>2. /\ reader.pk \in 0..made /\ made \in Nat
      BY <1>1, MirrorBounds DEF MirrorTypeOK
    <3>3. made' \in Nat
      BY <3>1, MirrorBounds
    <3>4. reader.pk \in 0..made'
      BY <3>1, <3>2, <3>3
    <3>5. reader' \in [at : {"idle", "invite", "cancel", "booked", "asked"}, i : 0..MaxMail,
                       pk : 0..made', copy : Row \cup {NoRow}]
      BY <1>1, <1>2, <3>4 DEF MirrorTypeOK
    <3>6. QED
      BY <1>1, <1>2, <1>5, <1>6, <1>7, <3>1, <3>5 DEF MirrorTypeOK, Passes, Conns, Version
  <2>11. Forward
    BY <1>8, <2>4 DEF Forward
  <2>12. BackForAReason
    <3> SUFFICES ASSUME NEW pk \in DOMAIN rows, rows[pk].off # 0, rows'[pk].off = 0
                 PROVE  rows'[pk].starts = <<"google", rows'[pk].ver>> /\ google[rows'[pk].ver].live
      BY <1>2 DEF BackForAReason
    <3>1. QED
      BY <2>3 DEF Upserted
  <2>13. QED
    BY <1>7, <1>8, <2>4, <2>5, <2>6, <2>9, <2>10, <2>11, <2>12 DEF MirrorInv
<1>13. QED
  BY <1>11, <1>12

-----------------------------------------------------------------------------
(* CalendarMirror: the mail pass and the student.                          *)

\* The mail pass's memory: as it was, or empty.
LEMMA ReaderTypes ==
    ASSUME MirrorTypeOK, made <= made', made' \in Nat, reader' \in {reader, NotReading}
    PROVE  reader' \in [at : {"idle", "invite", "cancel", "booked", "asked"}, i : 0..MaxMail,
                        pk : 0..made', copy : Row \cup {NoRow}]
<1>1. made \in Nat /\ reader.pk \in 0..made
  BY MirrorBounds DEF MirrorTypeOK
<1>2. reader.pk \in 0..made' /\ 0 \in 0..made' /\ 0 \in 0..MaxMail
  BY <1>1, MirrorBounds
<1>3. CASE reader' = reader
  BY <1>2, <1>3 DEF MirrorTypeOK
<1>4. CASE reader' = NotReading
  BY <1>2, <1>4 DEF NotReading
<1>5. QED
  BY <1>3, <1>4

\* The types, where only rows, the mail pass and the taps move.
LEMMA RowTypes ==
    ASSUME MirrorTypeOK, UNCHANGED <<today, google, mail, conn, dead, passes, failures>>,
           made' = made \/ (made < MaxRows /\ made' = made + 1),
           DOMAIN rows' \subseteq 1..made', \A pk \in DOMAIN rows' : rows'[pk] \in Row,
           reader' \in {reader, NotReading}, taps' \in 0..MaxTaps
    PROVE  MirrorTypeOK'
<1>1. made \in 0..(MaxRows + 1)
  BY DEF MirrorTypeOK
<1>2. made' \in 0..(MaxRows + 1) /\ made <= made' /\ made' \in Nat
  BY <1>1, MirrorBounds
<1>3. reader' \in [at : {"idle", "invite", "cancel", "booked", "asked"}, i : 0..MaxMail,
                   pk : 0..made', copy : Row \cup {NoRow}]
  BY <1>2, ReaderTypes
<1>4. QED
  BY <1>2, <1>3 DEF MirrorTypeOK, Version

\* A step in which nothing is heard from Google.
LEMMA RowStep ==
    ASSUME MirrorInv, Kept, UNCHANGED <<today, google, mail, conn, passes>>, MirrorTypeOK', ReaderInv',
           made' = made \/ made' <= MaxRows,
           \A pk \in DOMAIN rows' : rows'[pk].external => rows'[pk].uid,
           \A a, b \in DOMAIN rows' : a # b => ~(rows'[a].uid /\ rows'[b].uid)
    PROVE  MirrorInv' /\ Forward
<1>1. MirrorTypeOK /\ RowsInv /\ \A p \in passes : PassOK(p)
  BY DEF MirrorInv
<1>2. Version' \in Nat /\ conn.token \in Int
  BY <1>1, Entries, MirrorBounds DEF Version, MirrorTypeOK, NoToken
<1>3. MirrorHonest' /\ CursorCovers' /\ conn'.token <= Version' /\ \A p \in passes' : PassOK(p)'
  BY <1>2, KeptCursor DEF StaysAt
<1>4. /\ \A pk \in DOMAIN rows' :
           /\ rows'[pk].source = "gcal" => rows'[pk].external /\ rows'[pk].ver > 0
           /\ rows'[pk].ver <= Version'
      /\ \A pk \in DOMAIN rows \cap DOMAIN rows' : rows'[pk].ver >= rows[pk].ver
  BY <1>1, <1>2, KeptVersions
<1>5. Linked' = {} => Linked = {}
  BY DEF Kept, Linked
<1>6. RowsInv'
  BY <1>1, <1>4, <1>5 DEF RowsInv
<1>7. Forward
  BY <1>2, <1>4 DEF Forward
<1>8. QED
  BY <1>3, <1>6, <1>7 DEF MirrorInv

\* What a message finds.
LEMMA Found ==
    ASSUME NEW i, NEW among, NEW pk \in Lookup(i, among)
    PROVE  pk \in among /\ (rows[pk].uid \/ rows[pk].thread = mail[i].thread)
BY DEF Lookup

\* A message is read, with the row it is about or without one.
LEMMA LoadStep ==
    ASSUME MirrorInv, UNCHANGED <<today, google, mail, rows, made, conn, dead, passes, taps, failures>>,
           NEW i \in 1..Len(mail), NEW pk \in DOMAIN rows \cup {0}, Loads(i, pk),
           pk # 0 => /\ rows[pk].uid \/ rows[pk].thread = mail[i].thread
                     /\ Live(pk) \/ MayRevive(i, rows[pk])
                     /\ mail[i].kind = "cancel" => rows[pk].source = "capture"
    PROVE  MirrorInv' /\ Forward
<1>1. MirrorTypeOK /\ RowsInv
  BY DEF MirrorInv
<1>2. /\ Len(mail) \in 0..MaxMail /\ i \in 0..MaxMail /\ i > 0 /\ i <= Len(mail)
      /\ mail[i].kind \in {"invite", "cancel", "booked", "asked"}
  BY <1>1, Entries, MirrorBounds
<1>3. /\ reader'.at = mail[i].kind /\ reader'.i = i /\ reader'.pk = pk
      /\ reader'.copy = IF pk = 0 THEN NoRow ELSE Copy(rows[pk])
      /\ reader' = [at |-> mail[i].kind, i |-> i, pk |-> pk,
                    copy |-> IF pk = 0 THEN NoRow ELSE Copy(rows[pk])]
  BY DEF Loads
<1>4. Sent' = 2 * i /\ Thread' = mail[i].thread
  BY <1>3 DEF Sent, Thread
<1>5. made \in Nat /\ DOMAIN rows \subseteq 1..made
  BY <1>1, MirrorBounds DEF MirrorTypeOK
<1>6. pk \in 0..made
  BY <1>5
<1>7. pk # 0 => /\ pk \in DOMAIN rows /\ rows[pk] \in Row /\ Copy(rows[pk]) \in Row
                /\ Copy(rows[pk]).source = rows[pk].source /\ Copy(rows[pk]).uid = rows[pk].uid
                /\ Copy(rows[pk]).thread = rows[pk].thread /\ Copy(rows[pk]).off = rows[pk].off
  <2> SUFFICES ASSUME pk # 0
               PROVE  /\ pk \in DOMAIN rows /\ rows[pk] \in Row /\ Copy(rows[pk]) \in Row
                      /\ Copy(rows[pk]).source = rows[pk].source /\ Copy(rows[pk]).uid = rows[pk].uid
                      /\ Copy(rows[pk]).thread = rows[pk].thread /\ Copy(rows[pk]).off = rows[pk].off
    OBVIOUS
  <2>1. pk \in DOMAIN rows /\ rows[pk] \in Row
    BY <1>1 DEF MirrorTypeOK
  <2>2. 0 \in 0..MaxVersions
    BY MirrorBounds
  <2>3. Copy(rows[pk]) \in Row
    BY <1>1, <2>1, <2>2, RowShapes
  <2>4. QED
    BY <2>1, <2>3 DEF Copy
<1>8. reader' \in [at : {"idle", "invite", "cancel", "booked", "asked"}, i : 0..MaxMail,
                   pk : 0..made', copy : Row \cup {NoRow}]
  <2>1. (IF pk = 0 THEN NoRow ELSE Copy(rows[pk])) \in Row \cup {NoRow}
    BY <1>7
  <2>2. QED
    BY <1>2, <1>3, <1>6, <2>1
<1>9. MirrorTypeOK'
  BY <1>1, <1>8 DEF MirrorTypeOK, Version
<1>10. ReaderInv'
  <2> SUFFICES ASSUME pk # 0
               PROVE  /\ reader'.copy \in Row
                      /\ reader'.at = "cancel" => reader'.copy.source = "capture"
                      /\ reader'.copy.thread # Thread' => reader'.copy.uid
                      /\ reader'.copy.off # 0 => reader'.copy.source # "gcal" /\ Sent' >= reader'.copy.off
                      /\ reader'.copy.uid = rows[pk].uid
                      /\ reader'.copy.source = "gcal" <=> rows[pk].source = "gcal"
                      /\ reader'.copy.uid =>
                           \A k \in DOMAIN rows \ {pk} : rows[k].source = "capture" => ~rows[k].uid
    BY <1>2, <1>3 DEF ReaderInv
  <2>1. reader'.copy = Copy(rows[pk])
    BY <1>3
  <2>2. reader'.copy.off # 0 => reader'.copy.source # "gcal" /\ Sent' >= reader'.copy.off
    BY <1>4, <1>7, <2>1 DEF MayRevive, Live
  <2>3. reader'.copy.uid =>
           \A k \in DOMAIN rows \ {pk} : rows[k].source = "capture" => ~rows[k].uid
    BY <1>1, <1>7, <2>1 DEF RowsInv
  <2>4. QED
    BY <1>3, <1>4, <1>7, <2>1, <2>2, <2>3
<1>11. Kept
  BY <1>1, StillKept
<1>12. QED
  BY <1>1, <1>9, <1>10, <1>11, RowStep DEF RowsInv

\* The reading of a message.
LEMMA ReadStep ==
    ASSUME MirrorInv, ReadInvite \/ ReadCancel
    PROVE  MirrorInv' /\ Forward /\ BackForAReason
<1>1. UNCHANGED <<today, google, mail, rows, made, conn, dead, passes, taps, failures>>
  BY DEF ReadInvite, ReadCancel
<1>2. BackForAReason
  BY <1>1 DEF BackForAReason
<1>3. CASE ReadInvite
  <2>1. PICK i \in {k \in 1..Len(mail) : mail[k].kind # "cancel"} :
           \/ Loads(i, 0)
           \/ \E pk \in Lookup(i, DOMAIN rows) :
                (Live(pk) \/ MayRevive(i, rows[pk])) /\ Loads(i, pk)
    BY <1>3 DEF ReadInvite
  <2>2. CASE Loads(i, 0)
    BY <1>1, <1>2, <2>2, LoadStep
  <2>3. CASE \E pk \in Lookup(i, DOMAIN rows) : (Live(pk) \/ MayRevive(i, rows[pk])) /\ Loads(i, pk)
    <3>1. PICK pk \in Lookup(i, DOMAIN rows) : (Live(pk) \/ MayRevive(i, rows[pk])) /\ Loads(i, pk)
      BY <2>3
    <3>2. pk \in DOMAIN rows /\ (rows[pk].uid \/ rows[pk].thread = mail[i].thread)
      BY Found
    <3>3. QED
      BY <1>1, <1>2, <3>1, <3>2, LoadStep
  <2>4. QED
    BY <2>1, <2>2, <2>3
<1>4. CASE ReadCancel
  <2>1. PICK i \in 1..Len(mail) :
           \E pk \in Lookup(i, {k \in DOMAIN rows : rows[k].source = "capture" /\ Live(k)}) : Loads(i, pk)
    BY <1>4 DEF ReadCancel
  <2> PICK pk \in Lookup(i, {k \in DOMAIN rows : rows[k].source = "capture" /\ Live(k)}) : Loads(i, pk)
    BY <2>1
  <2>2. /\ pk \in {k \in DOMAIN rows : rows[k].source = "capture" /\ Live(k)}
        /\ rows[pk].uid \/ rows[pk].thread = mail[i].thread
    BY Found
  <2>3. QED
    BY <1>1, <1>2, <2>2, LoadStep
<1>5. QED
  BY <1>3, <1>4

\* The messages that are being applied.
LEMMA InHand ==
    ASSUME MirrorTypeOK, ReaderInv, reader.at # "idle"
    PROVE  /\ reader.i \in 1..Len(mail) /\ reader.i \in Nat /\ Thread \in 1..MaxMail
           /\ Sent \in Nat /\ Sent # 0 /\ Prose(reader.i) \in BOOLEAN
<1>1. reader.i \in Nat /\ reader.i > 0 /\ reader.i <= Len(mail)
  BY MirrorBounds DEF MirrorTypeOK, ReaderInv
<1>2. Len(mail) \in Nat /\ \A i \in 1..Len(mail) : mail[i].thread \in 1..MaxMail
  BY Entries
<1>3. reader.i \in 1..Len(mail)
  BY <1>1, <1>2
<1>4. QED
  BY <1>1, <1>2, <1>3 DEF Thread, Sent, Prose

\* A message that found no row makes one.
LEMMA SaveNewStep == ASSUME MirrorInv, SaveNew PROVE MirrorInv' /\ Forward /\ BackForAReason
<1> DEFINE new == [source |-> "capture", thread |-> Thread, uid |-> ~Prose(reader.i), external |-> FALSE,
                   starts |-> <<"mail", reader.i>>, sent |-> Sent, off |-> 0,
                   stated |-> ~Prose(reader.i), ver |-> 0, lost |-> FALSE]
<1>1. MirrorTypeOK /\ RowsInv /\ ReaderInv
  BY DEF MirrorInv
<1>2. /\ reader' = NotReading
      /\ UNCHANGED <<today, google, mail, conn, dead, passes, taps, failures>>
      /\ \/ UNCHANGED <<rows, made>>
         \/ /\ ~Clash(new, DOMAIN rows) /\ made < MaxRows /\ made' = made + 1
            /\ rows' = Put(made', new)
  BY DEF SaveNew
<1>3. ReaderInv'
  BY <1>2 DEF ReaderInv, NotReading
<1>4. made \in Nat /\ DOMAIN rows \subseteq 1..made /\ taps' \in 0..MaxTaps
      /\ \A pk \in DOMAIN rows : rows[pk] \in Row
  BY <1>1, <1>2, MirrorBounds DEF MirrorTypeOK
<1>5. CASE UNCHANGED <<rows, made>>
  <2>1. MirrorTypeOK'
    BY <1>1, <1>2, <1>4, <1>5, RowTypes
  <2>2. Kept
    BY <1>1, <1>2, <1>5, StillKept
  <2>3. BackForAReason
    BY <1>5 DEF BackForAReason
  <2>4. QED
    BY <1>1, <1>2, <1>3, <1>5, <2>1, <2>2, <2>3, RowStep DEF RowsInv
<1>6. CASE /\ ~Clash(new, DOMAIN rows) /\ made < MaxRows /\ made' = made + 1
           /\ rows' = Put(made', new)
  <2>1. reader.at # "idle"
    BY DEF SaveNew
  <2>2. /\ reader.i \in Nat /\ Thread \in 1..MaxMail /\ Sent \in Nat
        /\ (~Prose(reader.i)) \in BOOLEAN
    BY <1>1, <2>1, InHand
  <2>3. new \in Row
    BY <2>2, MirrorBounds DEF Row, Source
  <2>4. new.source = "capture" /\ ~new.external /\ new.ver = 0
    OBVIOUS
  <2>5. new.uid => \A pk \in DOMAIN rows : ~rows[pk].uid
    BY <1>6 DEF Clash
  <2> HIDE DEF new
  <2>6. made + 1 \notin DOMAIN rows
    BY <1>4
  <2>7. /\ DOMAIN rows' = DOMAIN rows \cup {made + 1} /\ rows'[made + 1] = new
        /\ \A pk \in DOMAIN rows : rows'[pk] = rows[pk]
    BY <1>6, <2>6 DEF Put
  <2>8. DOMAIN rows' \subseteq 1..made' /\ made' <= MaxRows
    BY <1>4, <1>6, <2>7, MirrorBounds
  <2>9. \A pk \in DOMAIN rows' : rows'[pk] \in Row
    BY <1>4, <2>3, <2>7
  <2>10. MirrorTypeOK'
    BY <1>1, <1>2, <1>4, <1>6, <2>8, <2>9, RowTypes
  <2>11. Kept
    BY <1>1, <1>2, <2>4, <2>7, Entries DEF Kept, Linked, Version
  <2>12. \A pk \in DOMAIN rows' : rows'[pk].external => rows'[pk].uid
    BY <1>1, <2>4, <2>7 DEF RowsInv
  <2>13. \A a, b \in DOMAIN rows' : a # b => ~(rows'[a].uid /\ rows'[b].uid)
    BY <1>1, <2>5, <2>7 DEF RowsInv
  <2>14. BackForAReason
    BY <2>7 DEF BackForAReason
  <2>15. QED
    BY <1>2, <1>3, <2>8, <2>10, <2>11, <2>12, <2>13, <2>14, RowStep
<1>7. QED
  BY <1>2, <1>5, <1>6

\* The captured chats that a message folds into the row it found are not linked.
LEMMA DuplicatesUnlinked ==
    ASSUME RowsInv, ReaderInv, reader.at # "idle", reader.pk # 0, NEW pk \in Duplicates
    PROVE  pk \notin Linked
<1>1. /\ reader.copy.thread # Thread /\ pk \in DOMAIN rows \ {reader.pk}
      /\ rows[pk].source = "capture"
  BY DEF Duplicates
<1>2. reader.copy.uid
  BY <1>1 DEF ReaderInv
<1>3. ~rows[pk].uid
  BY <1>1, <1>2 DEF ReaderInv
<1>4. QED
  BY <1>1, <1>3 DEF RowsInv, Linked

\* What a message writes over the row that it found.
LEMMA WrittenShape ==
    ASSUME MirrorTypeOK, ReaderInv, reader.at # "idle", reader.pk # 0, reader.pk \in DOMAIN rows,
           NEW w, w = Written(Rewritten(reader.copy)), NEW now, now = rows[reader.pk]
    PROVE  /\ w \in Row
           /\ w.external = now.external /\ w.ver = now.ver /\ w.off = 0
           /\ w.source = "gcal" <=> now.source = "gcal"
           /\ w.uid = Rewritten(reader.copy).uid /\ (now.uid => w.uid)
           /\ now.source = "gcal" /\ ~w.lost => ~now.lost /\ w.off = now.off /\ w.starts = now.starts
           /\ now.off # 0 => \/ Sent >= now.off /\ now.source # "gcal"
                             \/ reader.copy.off # now.off
<1> DEFINE copy == reader.copy
           r == Rewritten(copy)
           prose == Prose(reader.i)
           taken == ~(copy.source = "gcal") /\ Speaks(copy)
<1>1. /\ copy \in Row /\ now \in Row /\ copy.uid = now.uid
      /\ copy.source = "gcal" <=> now.source = "gcal"
  BY DEF MirrorTypeOK, ReaderInv
<1>2. copy.off # 0 => copy.source # "gcal" /\ Sent >= copy.off
  BY DEF ReaderInv
<1>3. reader.i \in Nat /\ Thread \in 1..MaxMail /\ Sent \in Nat /\ prose \in BOOLEAN
  BY InHand
<1>4. /\ r.source = IF copy.source = "gcal" THEN "gcal" ELSE "capture"
      /\ r.thread = IF copy.source = "gcal" \/ taken THEN Thread ELSE copy.thread
      /\ r.uid = (copy.uid \/ ~prose)
      /\ r.starts = IF taken THEN <<"mail", reader.i>> ELSE copy.starts
      /\ r.sent = IF taken THEN Sent ELSE copy.sent
      /\ r.off = 0
      /\ r.stated = IF taken THEN ~prose ELSE copy.stated
  BY DEF Rewritten
<1>5. w = [source |-> r.source, thread |-> r.thread, uid |-> r.uid, external |-> now.external,
           starts |-> r.starts, sent |-> r.sent, off |-> r.off, stated |-> r.stated,
           ver |-> now.ver, lost |-> now.lost \/ (copy.starts # now.starts \/ copy.off # now.off)]
  BY DEF Written
<1> HIDE DEF r, copy, taken, prose
<1>6. /\ w.source = r.source /\ w.uid = r.uid /\ w.external = now.external /\ w.starts = r.starts
      /\ w.off = r.off /\ w.ver = now.ver
      /\ w.lost = (now.lost \/ (copy.starts # now.starts \/ copy.off # now.off))
  BY <1>5
<1>7. w \in Row
  <2>1. r.source \in Source
    BY <1>4 DEF Source
  <2>2. r.thread \in 0..MaxMail
    BY <1>1, <1>3, <1>4, MirrorBounds DEF Row
  <2>3. r.uid \in BOOLEAN
    BY <1>4
  <2>4. r.starts \in {"google", "mail", "tap"} \X Nat
    BY <1>1, <1>3, <1>4 DEF Row
  <2>5. r.sent \in Nat /\ r.off \in Nat
    BY <1>1, <1>3, <1>4 DEF Row
  <2>6. r.stated \in BOOLEAN
    BY <1>1, <1>3, <1>4 DEF Row
  <2>7. now.external \in BOOLEAN /\ now.ver \in 0..MaxVersions
    BY <1>1 DEF Row
  <2>8. (now.lost \/ (copy.starts # now.starts \/ copy.off # now.off)) \in BOOLEAN
    OBVIOUS
  <2>9. QED
    BY <1>5, <2>1, <2>2, <2>3, <2>4, <2>5, <2>6, <2>7, <2>8 DEF Row
<1>8. w.source = "gcal" <=> now.source = "gcal"
  BY <1>1, <1>4, <1>6
<1>9. now.uid => w.uid
  BY <1>1, <1>4, <1>6
<1>10. ASSUME now.source = "gcal", ~w.lost
       PROVE  ~now.lost /\ w.off = now.off /\ w.starts = now.starts
  <2>1. copy.source = "gcal" /\ copy.starts = now.starts /\ copy.off = now.off /\ ~now.lost
    BY <1>1, <1>6, <1>10
  <2>2. ~taken /\ copy.off = 0
    BY <1>2, <2>1 DEF taken
  <2>3. QED
    BY <1>4, <1>6, <2>1, <2>2
<1>11. now.off # 0 => \/ Sent >= now.off /\ now.source # "gcal"
                      \/ copy.off # now.off
  BY <1>1, <1>2
<1>12. QED
  BY <1>4, <1>6, <1>7, <1>8, <1>9, <1>10, <1>11 DEF r, copy

\* A message is written to the row that it found.
LEMMA SaveStep == ASSUME MirrorInv, Save PROVE MirrorInv' /\ Forward /\ BackForAReason
<1> DEFINE kept == DOMAIN rows \ Duplicates
           r == Rewritten(reader.copy)
           w == Written(r)
           writes == /\ reader.pk \in kept
                     /\ r # reader.copy \/ Duplicates # {}
                     /\ ~Clash(r, kept \ {reader.pk})
<1>1. MirrorTypeOK /\ RowsInv /\ ReaderInv
  BY DEF MirrorInv
<1>2. /\ reader.at # "idle" /\ reader.pk # 0 /\ reader' = NotReading
      /\ UNCHANGED <<today, google, mail, made, conn, dead, passes, taps, failures>>
      /\ rows' = [pk \in kept |-> IF writes /\ pk = reader.pk THEN w ELSE rows[pk]]
  BY DEF Save
<1>3. writes => reader.pk \in DOMAIN rows /\ (r.uid => \A pk \in kept \ {reader.pk} : ~rows[pk].uid)
  BY DEF Clash
<1>4. \A pk \in Linked : pk \in kept
  BY <1>1, <1>2, DuplicatesUnlinked DEF Linked
<1>5. kept \subseteq DOMAIN rows
  OBVIOUS
<1>6. writes =>
        /\ w \in Row
        /\ w.external = rows[reader.pk].external /\ w.ver = rows[reader.pk].ver /\ w.off = 0
        /\ w.source = "gcal" <=> rows[reader.pk].source = "gcal"
        /\ w.uid = r.uid /\ (rows[reader.pk].uid => w.uid)
        /\ rows[reader.pk].source = "gcal" /\ ~w.lost =>
             /\ ~rows[reader.pk].lost /\ w.off = rows[reader.pk].off
             /\ w.starts = rows[reader.pk].starts
        /\ rows[reader.pk].off # 0 => \/ Sent >= rows[reader.pk].off /\ rows[reader.pk].source # "gcal"
                                      \/ reader.copy.off # rows[reader.pk].off
  BY <1>1, <1>2, <1>3, WrittenShape
<1> HIDE DEF kept, r, w, writes
<1>7. /\ DOMAIN rows' = kept
      /\ \A pk \in kept : rows'[pk] = IF writes /\ pk = reader.pk THEN w ELSE rows[pk]
  BY <1>2
<1>8. ReaderInv'
  BY <1>2 DEF ReaderInv, NotReading
<1>9. \A pk \in kept : rows'[pk] = rows[pk] \/ (writes /\ pk = reader.pk /\ rows'[pk] = w)
  BY <1>7
<1>10. MirrorTypeOK'
  <2>1. DOMAIN rows' \subseteq 1..made' /\ taps' \in 0..MaxTaps
    BY <1>1, <1>2, <1>5, <1>7 DEF MirrorTypeOK
  <2>2. \A pk \in DOMAIN rows' : rows'[pk] \in Row
    BY <1>1, <1>5, <1>6, <1>7, <1>9 DEF MirrorTypeOK
  <2>3. QED
    BY <1>1, <1>2, <2>1, <2>2, RowTypes
<1>11. Kept
  <2>1. Version <= Version' /\ \A n \in 1..Version : google'[n] = google[n]
    BY <1>1, <1>2, Entries DEF Version
  <2>2. \A pk \in DOMAIN rows \cap DOMAIN rows' :
          /\ rows'[pk].external = rows[pk].external /\ rows'[pk].ver = rows[pk].ver
          /\ rows'[pk].source = "gcal" <=> rows[pk].source = "gcal"
          /\ rows[pk].source = "gcal" /\ ~rows'[pk].lost =>
               ~rows[pk].lost /\ rows'[pk].off = rows[pk].off /\ rows'[pk].starts = rows[pk].starts
    BY <1>6, <1>7, <1>9
  <2>3. QED
    BY <1>4, <1>5, <1>7, <2>1, <2>2 DEF Kept
<1>12. \A pk \in DOMAIN rows' : rows'[pk].external => rows'[pk].uid
  BY <1>1, <1>5, <1>6, <1>7, <1>9 DEF RowsInv
<1>13. \A a, b \in DOMAIN rows' : a # b => ~(rows'[a].uid /\ rows'[b].uid)
  <2>1. \A a, b \in kept : a # b => ~(rows[a].uid /\ rows[b].uid)
    BY <1>1, <1>5 DEF RowsInv
  <2>2. QED
    BY <1>3, <1>6, <1>7, <1>9, <2>1
<1>14. BackForAReason
  BY <1>5, <1>6, <1>7, <1>9 DEF BackForAReason
<1>15. QED
  BY <1>2, <1>8, <1>10, <1>11, <1>12, <1>13, <1>14, RowStep

\* A cancellation is written.
LEMMA RetireStep == ASSUME MirrorInv, Retire PROVE MirrorInv' /\ Forward /\ BackForAReason
<1>1. MirrorTypeOK /\ RowsInv /\ ReaderInv
  BY DEF MirrorInv
<1>2. /\ reader.at = "cancel" /\ reader' = NotReading
      /\ UNCHANGED <<today, google, mail, made, conn, dead, passes, taps, failures>>
      /\ DOMAIN rows' = DOMAIN rows
      /\ \A pk \in DOMAIN rows :
           rows'[pk] = IF pk = reader.pk THEN [rows[pk] EXCEPT !.off = Sent] ELSE rows[pk]
  BY DEF Retire
<1>3. Sent \in Nat /\ Sent # 0
  BY <1>1, <1>2, InHand
<1>4. ASSUME NEW pk \in DOMAIN rows
      PROVE  /\ rows'[pk] \in Row
             /\ rows'[pk].source = rows[pk].source /\ rows'[pk].external = rows[pk].external
             /\ rows'[pk].uid = rows[pk].uid /\ rows'[pk].ver = rows[pk].ver
             /\ rows'[pk].lost = rows[pk].lost /\ rows'[pk].starts = rows[pk].starts
             /\ rows[pk].source = "gcal" => rows'[pk].off = rows[pk].off
             /\ rows[pk].off # 0 => rows'[pk].off # 0
  <2>1. rows[pk] \in Row
    BY <1>1 DEF MirrorTypeOK
  <2>2. CASE pk # reader.pk
    <3>1. rows'[pk] = rows[pk]
      BY <1>2, <2>2
    <3>2. QED
      BY <2>1, <3>1
  <2>3. CASE pk = reader.pk
    <3>1. rows'[pk] = [rows[pk] EXCEPT !.off = Sent]
      BY <1>2, <2>3
    <3>2. reader.pk # 0
      BY <1>1, <2>3, MirrorBounds DEF MirrorTypeOK
    <3>3. rows[pk].source # "gcal"
      BY <1>1, <1>2, <2>3, <3>2 DEF ReaderInv
    <3>4. QED
      BY <1>3, <2>1, <3>1, <3>3 DEF Row
  <2>4. QED
    BY <2>2, <2>3
<1>5. ReaderInv'
  BY <1>2 DEF ReaderInv, NotReading
<1>6. MirrorTypeOK'
  <2>1. DOMAIN rows' \subseteq 1..made' /\ taps' \in 0..MaxTaps
    BY <1>1, <1>2 DEF MirrorTypeOK
  <2>2. QED
    BY <1>1, <1>2, <1>4, <2>1, RowTypes
<1>7. Kept
  BY <1>1, <1>2, <1>4, Entries DEF Kept, Linked, Version
<1>8. \A pk \in DOMAIN rows' : rows'[pk].external => rows'[pk].uid
  BY <1>1, <1>2, <1>4 DEF RowsInv
<1>9. \A a, b \in DOMAIN rows' : a # b => ~(rows'[a].uid /\ rows'[b].uid)
  BY <1>1, <1>2, <1>4 DEF RowsInv
<1>10. BackForAReason
  BY <1>2, <1>4 DEF BackForAReason
<1>11. QED
  BY <1>2, <1>5, <1>6, <1>7, <1>8, <1>9, <1>10, RowStep

\* The student moves a meeting, or notes one beside what is off.
LEMMA RescheduleStep == ASSUME MirrorInv, Reschedule PROVE MirrorInv' /\ Forward /\ BackForAReason
<1>1. MirrorTypeOK /\ RowsInv /\ ReaderInv
  BY DEF MirrorInv
<1>2. /\ taps' = taps + 1 /\ taps < MaxTaps
      /\ UNCHANGED <<today, google, mail, conn, dead, passes, reader, failures>>
  BY DEF Reschedule
<1>3. /\ made \in Nat /\ DOMAIN rows \subseteq 1..made /\ taps \in Nat /\ Now \in Nat
      /\ \A pk \in DOMAIN rows : rows[pk] \in Row
  <2>1. Len(mail) \in Nat
    BY <1>1, Entries
  <2>2. QED
    BY <1>1, <2>1, MirrorBounds DEF MirrorTypeOK, Now
<1>4. taps' \in 0..MaxTaps /\ taps' \in Nat
  BY <1>2, <1>3, MirrorBounds
<1>5. ASSUME NEW k \in DOMAIN rows, rows[k].source # "gcal", Live(k),
             rows' = [rows EXCEPT ![k] = Tapped(rows[k])], made' = made
      PROVE  MirrorInv' /\ Forward /\ BackForAReason
  <2> DEFINE t == Tapped(rows[k])
  <2>1. /\ t.source = rows[k].source /\ t.external = rows[k].external /\ t.uid = rows[k].uid
        /\ t.ver = rows[k].ver /\ t.off = rows[k].off
    BY DEF Tapped
  <2>2. t \in Row
    BY <1>3, <1>4 DEF Tapped, Row
  <2> HIDE DEF t
  <2>3. /\ DOMAIN rows' = DOMAIN rows
        /\ \A pk \in DOMAIN rows : rows'[pk] = IF pk = k THEN t ELSE rows[pk]
    BY <1>5 DEF t
  <2>4. \A pk \in DOMAIN rows : rows'[pk] = rows[pk] \/ (pk = k /\ rows'[pk] = t)
    BY <2>3
  <2>5. MirrorTypeOK'
    <3>1. \A pk \in DOMAIN rows' : rows'[pk] \in Row
      BY <1>3, <2>2, <2>3, <2>4
    <3>2. QED
      BY <1>1, <1>2, <1>3, <1>4, <1>5, <2>3, <3>1, RowTypes
  <2>6. ReaderInv'
    BY <1>1, <1>2, <2>1, <2>3, <2>4, SteadyReader
  <2>7. Kept
    BY <1>1, <1>2, <1>5, <2>1, <2>3, <2>4, Entries DEF Kept, Linked, Version
  <2>8. \A pk \in DOMAIN rows' : rows'[pk].external => rows'[pk].uid
    BY <1>1, <2>1, <2>3, <2>4 DEF RowsInv
  <2>9. \A a, b \in DOMAIN rows' : a # b => ~(rows'[a].uid /\ rows'[b].uid)
    BY <1>1, <2>1, <2>3, <2>4 DEF RowsInv
  <2>10. BackForAReason
    BY <1>5, <2>1, <2>3, <2>4 DEF BackForAReason
  <2>11. QED
    BY <1>2, <1>5, <2>5, <2>6, <2>7, <2>8, <2>9, <2>10, RowStep
<1>6. ASSUME made < MaxRows, made' = made + 1, rows' = Put(made', Tapped(Blank("manual")))
      PROVE  MirrorInv' /\ Forward /\ BackForAReason
  <2> DEFINE t == Tapped(Blank("manual"))
  <2>1. t.source = "manual" /\ ~t.external /\ ~t.uid /\ t.ver = 0
    BY DEF Tapped, Blank
  <2>2. t \in Row
    BY <1>3, <1>4, MirrorBounds DEF Tapped, Blank, Row, Source
  <2> HIDE DEF t
  <2>3. made + 1 \notin DOMAIN rows
    BY <1>3
  <2>4. /\ DOMAIN rows' = DOMAIN rows \cup {made + 1} /\ rows'[made + 1] = t
        /\ \A pk \in DOMAIN rows : rows'[pk] = rows[pk]
    BY <1>6, <2>3 DEF Put, t
  <2>5. DOMAIN rows' \subseteq 1..made' /\ made' <= MaxRows
    BY <1>3, <1>6, <2>4, MirrorBounds
  <2>6. MirrorTypeOK'
    <3>1. \A pk \in DOMAIN rows' : rows'[pk] \in Row
      BY <1>3, <2>2, <2>4
    <3>2. QED
      BY <1>1, <1>2, <1>4, <1>6, <2>5, <3>1, RowTypes
  <2>7. ReaderInv'
    BY <1>1, <1>2, <2>1, <2>4, SteadyReader
  <2>8. Kept
    BY <1>1, <1>2, <2>1, <2>4, Entries DEF Kept, Linked, Version
  <2>9. \A pk \in DOMAIN rows' : rows'[pk].external => rows'[pk].uid
    BY <1>1, <2>1, <2>4 DEF RowsInv
  <2>10. \A a, b \in DOMAIN rows' : a # b => ~(rows'[a].uid /\ rows'[b].uid)
    BY <1>1, <2>1, <2>4 DEF RowsInv
  <2>11. BackForAReason
    BY <2>4 DEF BackForAReason
  <2>12. QED
    BY <1>2, <2>5, <2>6, <2>7, <2>8, <2>9, <2>10, <2>11, RowStep
<1>7. QED
  BY <1>5, <1>6 DEF Reschedule

\* The student removes a row that Google does not stand behind.
LEMMA RemoveStep == ASSUME MirrorInv, Remove PROVE MirrorInv' /\ Forward /\ BackForAReason
<1>1. MirrorTypeOK /\ RowsInv /\ ReaderInv
  BY DEF MirrorInv
<1>2. /\ taps' = taps + 1 /\ taps < MaxTaps
      /\ UNCHANGED <<today, google, mail, made, conn, dead, passes, reader, failures>>
  BY DEF Remove
<1>3. PICK gone \in DOMAIN rows \ Linked : rows' = [pk \in DOMAIN rows \ {gone} |-> rows[pk]]
  BY DEF Remove
<1>4. DOMAIN rows' = DOMAIN rows \ {gone} /\ \A pk \in DOMAIN rows' : rows'[pk] = rows[pk]
  BY <1>3
<1>5. taps' \in 0..MaxTaps
  BY <1>1, <1>2, MirrorBounds DEF MirrorTypeOK
<1>6. MirrorTypeOK'
  <2>1. DOMAIN rows' \subseteq 1..made' /\ \A pk \in DOMAIN rows' : rows'[pk] \in Row
    BY <1>1, <1>2, <1>4 DEF MirrorTypeOK
  <2>2. QED
    BY <1>1, <1>2, <1>5, <2>1, RowTypes
<1>7. ReaderInv'
  BY <1>1, <1>2, <1>4, SteadyReader
<1>8. Kept
  BY <1>1, <1>2, <1>4, Entries DEF Kept, Linked, Version
<1>9. /\ \A pk \in DOMAIN rows' : rows'[pk].external => rows'[pk].uid
      /\ \A a, b \in DOMAIN rows' : a # b => ~(rows'[a].uid /\ rows'[b].uid)
  BY <1>1, <1>4 DEF RowsInv
<1>10. BackForAReason
  BY <1>4 DEF BackForAReason
<1>11. QED
  BY <1>2, <1>6, <1>7, <1>8, <1>9, <1>10, RowStep

-----------------------------------------------------------------------------
(* CalendarMirror: the theorems.                                           *)

\* The steps that touch neither the rows nor, but for forgetting it, the cursor.
LEMMA NothingBack ==
    ASSUME MirrorTypeOK, rows' = rows, conn'.token \in {conn.token, NoToken}
    PROVE  Forward /\ BackForAReason
<1>1. conn.token \in Int /\ \A pk \in DOMAIN rows : rows[pk].ver \in Int
  BY MirrorBounds DEF MirrorTypeOK, Row, NoToken
<1>2. QED
  BY <1>1 DEF Forward, BackForAReason

\* Nothing has happened yet.
LEMMA MirrorInitial == ASSUME MirrorInit PROVE MirrorInv
<1>1. MirrorTypeOK
  <2>1. IsFiniteSet({}) /\ Cardinality({}) = 0
    BY FS_EmptySet
  <2>2. reader \in [at : {"idle", "invite", "cancel", "booked", "asked"}, i : 0..MaxMail,
                    pk : 0..made, copy : Row \cup {NoRow}]
    BY MirrorBounds DEF MirrorInit, NotReading
  <2>3. google = <<>> /\ mail = <<>> /\ rows = <<>> /\ made = 0 /\ passes = {}
    BY DEF MirrorInit
  <2>4. QED
    BY <2>1, <2>2, <2>3, MirrorBounds DEF MirrorInit, MirrorTypeOK, Granted, Version, NoToken
<1>2. /\ google = <<>> /\ DOMAIN rows = {} /\ made = 0 /\ passes = {} /\ reader.at = "idle"
      /\ conn.token = -1 /\ Version = 0
  BY DEF MirrorInit, Granted, NotReading, NoToken, Version
<1>3. QED
  BY <1>1, <1>2, MirrorBounds DEF MirrorInv, RowsInv, ReaderInv, MirrorHonest, CursorCovers

\* A sync's step.
LEMMA PassStep ==
    ASSUME MirrorInv, NEW p \in Running, Pass(p) \/ Expire(p) \/ Fail(p)
    PROVE  MirrorInv' /\ Forward /\ BackForAReason
<1>1. MirrorTypeOK
  BY DEF MirrorInv
<1>2. CASE Commit(p)
  BY <1>2, CommitStep
<1>3. CASE Refused(p) \/ GiveUp(p) \/ Fail(p)
  <2>1. rows' = rows /\ conn'.token = conn.token
    BY <1>1, <1>3 DEF Refused, GiveUp, Fail, MirrorTypeOK
  <2>2. QED
    BY <1>1, <1>3, <2>1, EndStep, NothingBack
<1>4. CASE ListChanges(p)
  BY <1>1, <1>4, ListChangesStep, NothingBack DEF ListChanges
<1>5. CASE ListWindow(p)
  BY <1>1, <1>5, ListWindowStep, NothingBack DEF ListWindow
<1>6. CASE Resolve(p)
  BY <1>1, <1>6, ResolveStep, NothingBack DEF Resolve
<1>7. CASE Expire(p)
  BY <1>1, <1>7, ExpireStep, NothingBack DEF Expire
<1>8. QED
  BY <1>2, <1>3, <1>4, <1>5, <1>6, <1>7 DEF Pass

\* Every step keeps the invariant, and what a step may never do it does not.
LEMMA MirrorStep ==
    ASSUME MirrorInv, [MirrorNext]_mirrorVars
    PROVE  MirrorInv' /\ [Forward /\ BackForAReason]_mirrorVars
<1>1. MirrorTypeOK
  BY DEF MirrorInv
<1>2. CASE NextDay \/ Edit \/ Send
  <2>1. rows' = rows /\ conn' = conn
    BY <1>2 DEF NextDay, Edit, Send
  <2>2. QED
    BY <1>1, <1>2, <2>1, WorldStep, NothingBack
<1>3. CASE Connect \/ Withdraw \/ Disconnect
  <2>1. rows' = rows /\ conn'.token \in {conn.token, NoToken}
    BY <1>3 DEF Connect, Withdraw, Disconnect, Granted
  <2>2. QED
    BY <1>1, <1>3, <2>1, ConnectionStep, NothingBack
<1>4. CASE \E p \in Running : Pass(p) \/ Expire(p) \/ Fail(p)
  BY <1>4, PassStep
<1>5. CASE ReadInvite \/ ReadCancel
  BY <1>5, ReadStep
<1>6. CASE SaveNew \/ Save \/ Retire
  BY <1>6, SaveNewStep, SaveStep, RetireStep
<1>7. CASE Reschedule \/ Remove
  BY <1>7, RescheduleStep, RemoveStep
<1>8. CASE UNCHANGED mirrorVars
  <2>1. /\ UNCHANGED <<today, google, mail, rows, made, conn, dead, passes, reader, taps, failures>>
    BY <1>8 DEF mirrorVars
  <2>2. MirrorInv'
    BY <2>1 DEF MirrorInv, MirrorTypeOK, RowsInv, ReaderInv, PassOK, MirrorHonest, CursorCovers,
       Mirrored, Reached, Covers, Shown, Homed, Known, Linked, Live, InWindow, Version, Sent, Thread
  <2>3. QED
    BY <1>8, <2>2
<1>9. QED
  BY <1>2, <1>3, <1>4, <1>5, <1>6, <1>7, <1>8 DEF MirrorNext

\* The invariant holds in every state that is reached.
LEMMA MirrorAlways == MirrorSpec => []MirrorInv
<1>1. MirrorInit => MirrorInv
  BY MirrorInitial
<1>2. MirrorInv /\ [MirrorNext]_mirrorVars => MirrorInv'
  BY MirrorStep
<1>3. QED
  BY <1>1, <1>2, PTL DEF MirrorSpec

\* Every variable of the calendar's mirror is well typed: no key is given twice, and no more
\* rows are made, syncs run or consents given than the bounds allow.
THEOREM MirrorTypes == MirrorSpec => []MirrorTypeOK
<1>1. MirrorInv => MirrorTypeOK
  BY DEF MirrorInv
<1>2. QED
  BY <1>1, MirrorAlways, PTL

\* A row that is Google's shows the state of the event that it last took from Google
\* (gcal_live._upsert_event, gmail._upsert_scheduled_chat, gmail._retire_cancelled_chat).
THEOREM MirrorHonestHolds == MirrorSpec => []MirrorHonest
<1>1. MirrorInv => MirrorHonest
  BY DEF MirrorInv
<1>2. QED
  BY <1>1, MirrorAlways, PTL

\* Nothing behind the stored sync token is missing from the timeline
\* (gcal_live.sync_connection, _reconcile_missing_events).
THEOREM CursorCoversHolds == MirrorSpec => []CursorCovers
<1>1. MirrorInv => CursorCovers
  BY DEF MirrorInv
<1>2. QED
  BY <1>1, MirrorAlways, PTL

\* No sync takes a row or the cursor of a grant back, two at once included
\* (the re-read under the lock in gcal_live.sync_connection).
THEOREM NeverBackHolds == MirrorSpec => NeverBack
<1>1. MirrorInv /\ [MirrorNext]_mirrorVars =>
        [/\ \A pk \in DOMAIN rows \cap DOMAIN rows' : rows'[pk].ver >= rows[pk].ver
         /\ conn'.grant = conn.grant /\ conn'.token # NoToken => conn'.token >= conn.token]_mirrorVars
  BY MirrorStep DEF Forward
<1>2. QED
  BY <1>1, MirrorAlways, PTL DEF MirrorSpec, NeverBack

\* A cancelled meeting comes back only with good reason
\* (gmail._upsert_scheduled_chat, gcal_live._upsert_event).
THEOREM StaysOffHolds == MirrorSpec => StaysOff
<1>1. MirrorInv /\ [MirrorNext]_mirrorVars =>
        [\A pk \in DOMAIN rows \cap DOMAIN rows' :
          rows[pk].off # 0 /\ rows'[pk].off = 0 =>
              \/ rows'[pk].starts = <<"google", rows'[pk].ver>> /\ google[rows'[pk].ver].live /\ reader' = reader
              \/ Sent >= rows[pk].off /\ rows[pk].source # "gcal"
              \/ reader.copy.off # rows[pk].off]_mirrorVars
  BY MirrorStep DEF BackForAReason
<1>2. QED
  BY <1>1, MirrorAlways, PTL DEF MirrorSpec, StaysOff
=============================================================================
