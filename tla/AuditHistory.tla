---------------------------- MODULE AuditHistory ----------------------------
(***************************************************************************)
(* The audit history: Append and List (internal/audit/postgres.go) under   *)
(* the handlers that write it and a client that pages through it (the UI,  *)
(* or GET /api/audit).  An event takes its time when its INSERT begins,    *)
(* its id from a sequence while it runs, and is seen when it commits.      *)
(***************************************************************************)
EXTENDS Integers, FiniteSets

CONSTANTS
    Writers, Readers,
    Limits,       \* what a reader may ask for
    DefaultLimit, MaxLimit,
    OldEvents,    \* how many events there are at the start
    MaxTime       \* bound of the clock

ASSUME HistoryAssumption ==
    /\ Limits \subseteq Int /\ DefaultLimit \in Nat \ {0} /\ MaxLimit \in Nat \ {0}
    /\ DefaultLimit <= MaxLimit /\ OldEvents \in Nat /\ MaxTime \in Nat
    /\ Writers \intersect Readers = {} /\ "old" \notin Writers

VARIABLES
    clock,    \* now() of the database
    lastId,   \* the sequence of audit_events
    events,   \* the committed rows: their ids, times and writers
    writer,   \* per writer: the handler's step, and its INSERT's time and id
    before,   \* history, per writer: those who had been answered when it began
    reader    \* per reader: the walk through the pages, see NewWalk

histVars == <<clock, lastId, events, writer, before, reader>>

Event == [at : Nat, id : Nat \ {0}, by : Writers \union {"old"}]
WriterSteps == {"new", "begun", "inserting", "drawn", "answered", "unheard", "late",
                "orphan", "adrift", "stray", "dead"}

\* first: history, the events visible when the walk began; seen: those on its pages;
\* late: an event came between COUNT and SELECT of the last page.
NewWalk == [pc |-> "idle", want |-> 0, offset |-> 0, total |-> 0, first |-> {}, seen |-> {},
            late |-> FALSE]

HistTypeOK ==
    /\ clock \in 0..MaxTime /\ lastId \in Nat /\ events \subseteq Event
    /\ writer \in [Writers -> [pc : WriterSteps, at : Nat, id : Nat]]
    /\ before \in [Writers -> SUBSET Writers]
    /\ reader \in [Readers -> [pc : {"idle", "count", "select", "done"}, want : Int,
                               offset : Nat, total : Nat, first : SUBSET Event,
                               seen : SUBSET Event, late : BOOLEAN]]

HistInit ==
    /\ clock = 0 /\ lastId = OldEvents
    /\ events = {[at |-> 0, id |-> i, by |-> "old"] : i \in 1..OldEvents}
    /\ writer = [w \in Writers |-> [pc |-> "new", at |-> 0, id |-> 0]]
    /\ before = [w \in Writers |-> {}]
    /\ reader = [r \in Readers |-> NewWalk]

-----------------------------------------------------------------------------
(* Append. *)

\* The requests that a handler is at work for.
Busy == {w \in Writers : writer[w].pc \in {"begun", "inserting", "drawn"}}
            \union {r \in Readers : reader[r].pc = "select"}

\* The handler's locals are gone.
Over(step) == [pc |-> step, at |-> 0, id |-> 0]

Answered == {w \in Writers : writer[w].pc \in {"answered", "unheard", "late"}}

\* A request that changes something arrives; it writes its event when the change is made.
Begin(w) ==
    /\ writer[w].pc = "new"
    /\ writer' = [writer EXCEPT ![w].pc = "begun"]
    /\ before' = [before EXCEPT ![w] = Answered]
    /\ UNCHANGED <<clock, lastId, events, reader>>

\* INSERT begins: at DEFAULT now().
StartInsert(w) ==
    /\ writer[w].pc = "begun"
    /\ writer' = [writer EXCEPT ![w].pc = "inserting", ![w].at = clock]
    /\ UNCHANGED <<clock, lastId, events, before, reader>>

\* id BIGSERIAL.
DrawId(w) ==
    /\ writer[w].pc = "inserting"
    /\ lastId' = lastId + 1
    /\ writer' = [writer EXCEPT ![w].pc = "drawn", ![w].id = lastId']
    /\ UNCHANGED <<clock, events, before, reader>>

\* The row becomes visible, also to a reader that has counted already.
Committed(w, id) ==
    /\ events' = events \union {[at |-> writer[w].at, id |-> id, by |-> w]}
    /\ reader' = [r \in Readers |-> [reader[r] EXCEPT !.late = @ \/ reader[r].pc = "select"]]

CommitInsert(w) ==
    /\ writer[w].pc = "drawn"
    /\ Committed(w, writer[w].id)
    /\ writer' = [writer EXCEPT ![w] = Over("answered")]
    /\ UNCHANGED <<clock, lastId, before>>

\* recordAudit logs the error, and the handler answers all the same; an INSERT that the
\* database had begun, or that was sent, may yet commit.
InsertFails(w) ==
    /\ w \in Busy
    /\ writer' = [writer EXCEPT ![w].pc = IF @ = "begun" THEN "adrift" ELSE "unheard"]
    /\ UNCHANGED <<clock, lastId, events, before, reader>>

AppendStep(w) == StartInsert(w) \/ DrawId(w) \/ CommitInsert(w) \/ InsertFails(w)

\* The process dies with these requests; a page is asked for again.
Kill(dying) ==
    /\ writer' = [w \in Writers |->
           IF w \notin dying THEN writer[w]
           ELSE [writer[w] EXCEPT !.pc = IF @ = "begun" THEN "adrift" ELSE "orphan"]]
    /\ reader' = [r \in Readers |->
           IF r \notin dying THEN reader[r] ELSE [reader[r] EXCEPT !.pc = "count"]]
    /\ UNCHANGED <<clock, lastId, events, before>>

\* An INSERT that was sent begins only when nobody waits for it any more.
StartLate(w) ==
    /\ writer[w].pc = "adrift"
    /\ writer' = [writer EXCEPT ![w].pc = "stray", ![w].at = clock]
    /\ UNCHANGED <<clock, lastId, events, before, reader>>

\* An INSERT that nobody waits for any more commits.
CommitLate(w) ==
    /\ writer[w].pc \in {"unheard", "orphan", "stray"}
    /\ LET drawn == writer[w].id # 0
       IN  /\ Committed(w, IF drawn THEN writer[w].id ELSE lastId + 1)
           /\ lastId' = IF drawn THEN lastId ELSE lastId + 1
    /\ writer' = [writer EXCEPT ![w] = Over(IF @.pc = "unheard" THEN "late" ELSE "dead")]
    /\ UNCHANGED <<clock, before>>

Tick ==
    /\ clock < MaxTime /\ clock' = clock + 1
    /\ UNCHANGED <<lastId, events, writer, before, reader>>

-----------------------------------------------------------------------------
(* List. *)

\* Mutant: only the upper bound.
ClampMax(limit) == IF limit > MaxLimit THEN MaxLimit ELSE limit

\* parsePagination; a limit that is missing or no number is 0 here.
Clamp(limit) ==
    IF limit <= 0 THEN DefaultLimit ELSE IF limit > MaxLimit THEN MaxLimit ELSE limit

\* Mutant: ORDER BY at DESC.
NewerByTime(a, b) == a.at > b.at

\* ORDER BY at DESC, id DESC: a is listed before b.
Newer(a, b) == a.at > b.at \/ (a.at = b.at /\ a.id > b.id)

Rank(e, table) == Cardinality({x \in table : Newer(x, e)})

Page(table, limit, offset) ==
    {e \in table : Rank(e, table) >= offset /\ Rank(e, table) < offset + limit}

\* The first page; later ones follow as long as the answers say that there are more.
BeginWalk(r) ==
    /\ reader[r].pc = "idle"
    /\ \E limit \in Limits :
         reader' = [reader EXCEPT ![r] = [NewWalk EXCEPT !.pc = "count", !.want = limit, !.first = events]]
    /\ UNCHANGED <<clock, lastId, events, writer, before>>

Count(r) ==
    /\ reader[r].pc = "count"
    /\ reader' = [reader EXCEPT ![r].pc = "select", ![r].total = Cardinality(events), ![r].late = FALSE]
    /\ UNCHANGED <<clock, lastId, events, writer, before>>

\* The client has got a page that ends before position end: there is more, or it is done.
Turn(d, end, page) ==
    IF end < d.total
      THEN [d EXCEPT !.pc = "count", !.offset = end, !.seen = @ \union page]
      ELSE [NewWalk EXCEPT !.pc = "done", !.first = d.first, !.seen = d.seen \union page,
                           !.late = d.late]

\* Mutant: the answer names the limit that was asked for.
SelectByWant(r) ==
    LET d == reader[r] IN
    /\ d.pc = "select"
    /\ reader' = [reader EXCEPT ![r] = Turn(d, d.offset + d.want, Page(events, Clamp(d.want), d.offset))]
    /\ UNCHANGED <<clock, lastId, events, writer, before>>

\* The page, with the count and the limit that was used; the client goes on from there.
Select(r) ==
    LET d == reader[r]
        limit == Clamp(d.want)
    IN  /\ d.pc = "select"
        /\ reader' = [reader EXCEPT ![r] = Turn(d, d.offset + limit, Page(events, limit, d.offset))]
        /\ UNCHANGED <<clock, lastId, events, writer, before>>

\* An error, or no answer: the client asks for the same page again.
ListFails(r) ==
    /\ reader[r].pc = "select"
    /\ reader' = [reader EXCEPT ![r].pc = "count"]
    /\ UNCHANGED <<clock, lastId, events, writer, before>>

HistNext ==
    \/ \E w \in Writers : Begin(w) \/ AppendStep(w) \/ StartLate(w) \/ CommitLate(w)
    \/ \E dying \in SUBSET Busy : Kill(dying)
    \/ \E r \in Readers : BeginWalk(r) \/ Count(r) \/ Select(r) \/ ListFails(r)
    \/ Tick

HistSpec == HistInit /\ [][HistNext]_histVars

-----------------------------------------------------------------------------
\* The history tells the order of what happened one after the other: a change that was
\* answered before another was asked for has no later time, on whatever process and
\* however late an INSERT commits, and is listed as the older one if its append was heard
\* of.  Not so a change whose handler gave up before its INSERT had begun: that event, if
\* it comes, has the time at which it was begun.
HistoryRespectsTime ==
    \A a, b \in events : a.by \in Writers /\ b.by \in Writers /\ a.by \in before[b.by] =>
        a.at <= b.at /\ (writer[a.by].pc = "answered" => Newer(b, a))

\* Who has paged to the end has seen every event that was there at the beginning, unless
\* one was added between the COUNT and the SELECT of the last page, although pages shift
\* with every event that is added meanwhile.
NothingSkipped ==
    \A r \in Readers : reader[r].pc = "done" => reader[r].first \subseteq reader[r].seen \/ reader[r].late
=============================================================================
