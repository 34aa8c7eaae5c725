------------------------- MODULE AuditHistoryProofs -------------------------
(***************************************************************************)
(* Theorems of AuditHistory, for any number of writers and readers, any    *)
(* limits and any clock: the run of Service.cfg shows the same on one      *)
(* instance.                                                               *)
(***************************************************************************)
EXTENDS AuditHistory, FiniteSetTheorems, TLAPS

USE HistoryAssumption

LEMMA BusyWriters ==
    ASSUME NEW w \in Writers
    PROVE  w \in Busy <=> writer[w].pc \in {"begun", "inserting", "drawn"}
BY DEF Busy

LEMMA ClampPositive == \A limit \in Int : Clamp(limit) \in Nat \ {0}
BY DEF Clamp

-----------------------------------------------------------------------------
(* The table is finite, and an INSERT knows its id once it has drawn it.   *)

Finite == IsFiniteSet(events)
Drawn == \A w \in Writers : writer[w].pc = "drawn" => writer[w].id # 0

LEMMA HistInitTyped == HistInit => HistTypeOK /\ Finite /\ Drawn
<1> SUFFICES ASSUME HistInit PROVE HistTypeOK /\ Finite /\ Drawn
  OBVIOUS
<1>1. HistTypeOK /\ Drawn
  BY DEF HistInit, HistTypeOK, Event, WriterSteps, NewWalk, Drawn
<1>2. Finite
  <2> DEFINE row(i) == [at |-> 0, id |-> i, by |-> "old"]
  <2>1. IsFiniteSet(1..OldEvents)
    BY FS_Interval
  <2>2. events = {row(i) : i \in 1..OldEvents}
    BY DEF HistInit
  <2> DEFINE f == [i \in 1..OldEvents |-> row(i)]
  <2>3. f \in Surjection(1..OldEvents, events)
    BY <2>2 DEF Surjection
  <2>4. QED
    BY <2>1, <2>3, FS_Surjection DEF Finite
<1>3. QED
  BY <1>1, <1>2

LEMMA HistStepFinite == HistTypeOK /\ Finite /\ [HistNext]_histVars => Finite'
<1> SUFFICES ASSUME HistTypeOK, Finite, [HistNext]_histVars PROVE Finite'
  OBVIOUS
<1>1. ASSUME NEW w \in Writers, NEW id, Committed(w, id) PROVE Finite'
  BY <1>1, FS_AddElement DEF Committed, Finite
<1>2. ASSUME NEW w \in Writers, CommitInsert(w) \/ CommitLate(w) PROVE Finite'
  BY <1>1, <1>2 DEF CommitInsert, CommitLate
<1>3. CASE UNCHANGED events
  BY <1>3 DEF Finite
<1>4. QED
  BY <1>2, <1>3 DEF HistNext, AppendStep, Begin, StartInsert, DrawId, InsertFails, StartLate, Kill,
                    Tick, BeginWalk, Count, Select, ListFails, histVars

LEMMA HistStepDrawn == HistTypeOK /\ Drawn /\ [HistNext]_histVars => Drawn'
<1> SUFFICES ASSUME HistTypeOK, Drawn, [HistNext]_histVars PROVE Drawn'
  OBVIOUS
<1> USE DEF HistTypeOK, Drawn
<1>1. ASSUME NEW w \in Writers, Begin(w) \/ StartInsert(w) \/ DrawId(w) PROVE Drawn'
  <2>1. CASE Begin(w) \/ StartInsert(w)
    BY <2>1 DEF Begin, StartInsert
  <2>2. CASE DrawId(w)
    <3> DEFINE loc == [writer[w] EXCEPT !.pc = "drawn", !.id = lastId']
    <3>1. lastId' # 0
      BY <2>2 DEF DrawId
    <3>2. writer' = [writer EXCEPT ![w] = loc]
      BY <2>2 DEF DrawId
    <3>3. QED
      BY <3>1, <3>2
  <2>3. QED
    BY <1>1, <2>1, <2>2
<1>2. ASSUME NEW w \in Writers,
             CommitInsert(w) \/ InsertFails(w) \/ StartLate(w) \/ CommitLate(w)
      PROVE  Drawn'
  BY <1>2 DEF CommitInsert, InsertFails, StartLate, CommitLate, Over
<1>3. ASSUME NEW dying \in SUBSET Busy, Kill(dying) PROVE Drawn'
  BY <1>3 DEF Kill
<1>4. CASE UNCHANGED writer
  BY <1>4
<1>5. QED
  BY <1>1, <1>2, <1>3, <1>4 DEF HistNext, AppendStep, Tick, BeginWalk, Count, Select, ListFails,
                                histVars

LEMMA HistStepTyped ==
    HistTypeOK /\ Finite /\ Drawn /\ [HistNext]_histVars => HistTypeOK'
<1> SUFFICES ASSUME HistTypeOK, Finite, Drawn, [HistNext]_histVars PROVE HistTypeOK'
  OBVIOUS
<1> DEFINE Writing == [pc : WriterSteps, at : Nat, id : Nat]
           Walk == [pc : {"idle", "count", "select", "done"}, want : Int,
                    offset : Nat, total : Nat, first : SUBSET Event,
                    seen : SUBSET Event, late : BOOLEAN]
<1>0. /\ clock \in Nat /\ clock <= MaxTime /\ lastId \in Nat /\ events \subseteq Event
      /\ writer \in [Writers -> Writing] /\ before \in [Writers -> SUBSET Writers]
      /\ reader \in [Readers -> Walk]
  BY DEF HistTypeOK
<1>1. ASSUME NEW w \in Writers, Begin(w) PROVE HistTypeOK'
  <2>1. Answered \subseteq Writers
    BY DEF Answered
  <2>2. writer' \in [Writers -> Writing]
    BY <1>0, <1>1 DEF Begin, WriterSteps
  <2>3. QED
    BY <1>1, <2>1, <2>2 DEF Begin, HistTypeOK
<1>2. ASSUME NEW w \in Writers, StartInsert(w) PROVE HistTypeOK'
  <2> DEFINE loc == [writer[w] EXCEPT !.pc = "inserting", !.at = clock]
  <2>1. loc \in Writing /\ writer' = [writer EXCEPT ![w] = loc]
    BY <1>0, <1>2 DEF StartInsert, WriterSteps
  <2>2. writer' \in [Writers -> Writing]
    BY <1>0, <2>1
  <2>3. QED
    BY <1>2, <2>2 DEF StartInsert, HistTypeOK
<1>3. ASSUME NEW w \in Writers, DrawId(w) PROVE HistTypeOK'
  <2> DEFINE loc == [writer[w] EXCEPT !.pc = "drawn", !.id = lastId']
  <2>1. lastId' \in Nat
    BY <1>0, <1>3 DEF DrawId
  <2>2. loc \in Writing
    <3>1. ASSUME NEW n \in Nat PROVE [writer[w] EXCEPT !.pc = "drawn", !.id = n] \in Writing
      <4>1. writer[w] \in Writing /\ "drawn" \in WriterSteps
        BY <1>0 DEF WriterSteps
      <4>2. QED
        BY <4>1
    <3>2. QED
      BY <2>1, <3>1
  <2>3. writer' = [writer EXCEPT ![w] = loc]
    BY <1>3 DEF DrawId
  <2>4. writer' \in [Writers -> Writing]
    BY <1>0, <2>2, <2>3
  <2>5. QED
    BY <1>0, <1>3, <2>1, <2>4 DEF DrawId, HistTypeOK
<1>4. ASSUME NEW w \in Writers, NEW id \in Nat \ {0}, Committed(w, id)
      PROVE  events' \subseteq Event /\ reader' \in [Readers -> Walk]
  <2>1. [at |-> writer[w].at, id |-> id, by |-> w] \in Event
    BY <1>0 DEF Event
  <2>2. ASSUME NEW r \in Readers
        PROVE  [reader[r] EXCEPT !.late = @ \/ reader[r].pc = "select"] \in Walk
    BY <1>0
  <2>3. QED
    BY <1>0, <1>4, <2>1, <2>2 DEF Committed
<1>5. ASSUME NEW w \in Writers, CommitInsert(w) PROVE HistTypeOK'
  <2>1. writer' \in [Writers -> Writing]
    BY <1>0, <1>5 DEF CommitInsert, Over, WriterSteps
  <2>2. writer[w].id \in Nat \ {0}
    BY <1>0, <1>5 DEF CommitInsert, Drawn
  <2>3. events' \subseteq Event /\ reader' \in [Readers -> Walk]
    BY <1>4, <1>5, <2>2 DEF CommitInsert
  <2>4. QED
    BY <1>5, <2>1, <2>3 DEF CommitInsert, HistTypeOK
<1>6. ASSUME NEW w \in Writers, InsertFails(w) PROVE HistTypeOK'
  <2>1. writer' \in [Writers -> Writing]
    BY <1>0, <1>6 DEF InsertFails, WriterSteps
  <2>2. QED
    BY <1>6, <2>1 DEF InsertFails, HistTypeOK
<1>7. ASSUME NEW dying \in SUBSET Busy, Kill(dying) PROVE HistTypeOK'
  <2>1. writer' \in [Writers -> Writing]
    BY <1>0, <1>7 DEF Kill, WriterSteps
  <2>2. reader' \in [Readers -> Walk]
    BY <1>0, <1>7 DEF Kill
  <2>3. QED
    BY <1>7, <2>1, <2>2 DEF Kill, HistTypeOK
<1>8. ASSUME NEW w \in Writers, CommitLate(w) PROVE HistTypeOK'
  <2>1. writer' \in [Writers -> Writing] /\ lastId' \in Nat
    BY <1>0, <1>8 DEF CommitLate, Over, WriterSteps
  <2>2. events' \subseteq Event /\ reader' \in [Readers -> Walk]
    BY <1>0, <1>4, <1>8 DEF CommitLate
  <2>3. QED
    BY <1>8, <2>1, <2>2 DEF CommitLate, HistTypeOK
<1>9. ASSUME NEW w \in Writers, StartLate(w) PROVE HistTypeOK'
  <2> DEFINE loc == [writer[w] EXCEPT !.pc = "stray", !.at = clock]
  <2>1. loc \in Writing /\ writer' = [writer EXCEPT ![w] = loc]
    BY <1>0, <1>9 DEF StartLate, WriterSteps
  <2>2. writer' \in [Writers -> Writing]
    BY <1>0, <2>1
  <2>3. QED
    BY <1>9, <2>2 DEF StartLate, HistTypeOK
<1>10. CASE Tick
  BY <1>10 DEF Tick, HistTypeOK
<1>11. ASSUME NEW r \in Readers, BeginWalk(r) PROVE HistTypeOK'
  <2>1. PICK limit \in Limits : reader' = [reader EXCEPT ![r] =
            [pc |-> "count", want |-> limit, offset |-> 0, total |-> 0, first |-> events,
             seen |-> {}, late |-> FALSE]]
    BY <1>11 DEF BeginWalk, NewWalk
  <2>2. reader' \in [Readers -> Walk]
    BY <1>0, <2>1
  <2>3. QED
    BY <1>11, <2>2 DEF BeginWalk, HistTypeOK
<1>12. ASSUME NEW r \in Readers, Count(r) PROVE HistTypeOK'
  <2>1. Cardinality(events) \in Nat
    BY FS_CardinalityType DEF Finite
  <2> DEFINE loc == [reader[r] EXCEPT !.pc = "select", !.total = Cardinality(events), !.late = FALSE]
  <2>2. loc \in Walk /\ reader' = [reader EXCEPT ![r] = loc]
    BY <1>0, <1>12, <2>1 DEF Count
  <2>3. reader' \in [Readers -> Walk]
    BY <1>0, <2>2
  <2>4. QED
    BY <1>12, <2>3 DEF Count, HistTypeOK
<1>13. ASSUME NEW r \in Readers, Select(r) PROVE HistTypeOK'
  <2> DEFINE d == reader[r]
             limit == Clamp(d.want)
             page == Page(events, limit, d.offset)
  <2>1. limit \in Nat /\ page \subseteq Event /\ d \in Walk
    BY <1>0, ClampPositive DEF Page
  <2> HIDE DEF limit, page
  <2>2. Turn(d, d.offset + limit, page) \in Walk
    <3>1. CASE d.offset + limit < d.total
      <4>1. Turn(d, d.offset + limit, page) =
              [pc |-> "count", want |-> d.want, offset |-> d.offset + limit, total |-> d.total,
               first |-> d.first, seen |-> d.seen \union page, late |-> d.late]
        BY <2>1, <3>1 DEF Turn
      <4>2. QED
        BY <2>1, <4>1
    <3>2. CASE ~(d.offset + limit < d.total)
      <4>1. Turn(d, d.offset + limit, page) =
              [pc |-> "done", want |-> 0, offset |-> 0, total |-> 0, first |-> d.first,
               seen |-> d.seen \union page, late |-> d.late]
        BY <3>2 DEF Turn, NewWalk
      <4>2. QED
        BY <2>1, <4>1
    <3>3. QED
      BY <3>1, <3>2
  <2>3. reader' = [reader EXCEPT ![r] = Turn(d, d.offset + limit, page)]
    BY <1>13 DEF Select, limit, page
  <2>4. QED
    BY <1>0, <1>13, <2>2, <2>3 DEF Select, HistTypeOK
<1>14. ASSUME NEW r \in Readers, ListFails(r) PROVE HistTypeOK'
  <2>1. reader' \in [Readers -> Walk]
    BY <1>0, <1>14 DEF ListFails
  <2>2. QED
    BY <1>14, <2>1 DEF ListFails, HistTypeOK
<1>15. CASE UNCHANGED histVars
  BY <1>15 DEF histVars, HistTypeOK
<1>16. QED
  BY <1>1, <1>2, <1>3, <1>5, <1>6, <1>7, <1>8, <1>9, <1>10, <1>11, <1>12, <1>13,
   <1>14, <1>15
     DEF HistNext, AppendStep

\* Every variable keeps its type: the page a reader gets is one of events.
THEOREM HistoryTyped == HistSpec => []HistTypeOK
BY HistInitTyped, HistStepTyped, HistStepFinite, HistStepDrawn, PTL DEF HistSpec

-----------------------------------------------------------------------------
(* Times and ids only grow, so what an INSERT takes is at least what those *)
(* took who had been answered before it began.                             *)

Inserts == {"inserting", "drawn", "unheard", "orphan", "stray"}
Events(w) == {e \in events : e.by = w}

\* What w's event has in time and id, or will have, over those of v, answered before.
Follows(w, v) ==
    /\ writer[v].pc = "unheard" =>
         /\ writer[w].pc \in Inserts => writer[v].at <= writer[w].at
         /\ \A e \in Events(w) : writer[v].at <= e.at
    /\ \A a \in Events(v) :
         /\ writer[w].pc \in Inserts => a.at <= writer[w].at
         /\ writer[v].pc = "answered" /\ writer[w].pc \in Inserts /\ writer[w].id # 0
              => a.id < writer[w].id
         /\ \A b \in Events(w) : a.at <= b.at /\ (writer[v].pc = "answered" => Newer(b, a))

Bounded ==
    /\ \A e \in events : e.at <= clock /\ e.id <= lastId
    /\ \A w \in Writers : writer[w].at <= clock /\ writer[w].id <= lastId

Written(w) ==
    /\ Events(w) # {} => writer[w].pc \in {"answered", "late", "dead"}
    /\ writer[w].pc \in {"new", "begun", "inserting", "adrift"} => writer[w].id = 0

OrderInv ==
    /\ Bounded
    /\ \A w \in Writers : Written(w) /\ before[w] \subseteq Answered
    /\ \A w \in Writers : \A v \in before[w] : Follows(w, v)

LEMMA HistInitOrder == HistInit => OrderInv
BY DEF HistInit, OrderInv, Bounded, Written, Events

LEMMA OrderSuffices == HistTypeOK /\ OrderInv => HistoryRespectsTime
<1> SUFFICES ASSUME HistTypeOK, OrderInv,
                    NEW a \in events, NEW b \in events,
                    a.by \in Writers, b.by \in Writers, a.by \in before[b.by]
             PROVE  a.at <= b.at /\ (writer[a.by].pc = "answered" => Newer(b, a))
  BY DEF HistoryRespectsTime
<1>1. Follows(b.by, a.by)
  BY DEF OrderInv
<1>2. a \in Events(a.by) /\ b \in Events(b.by)
  BY DEF Events
<1>3. QED
  BY <1>1, <1>2 DEF Follows

\* A writer at work is none of those that were answered before another began.
LEMMA HistStepOrder ==
    HistTypeOK /\ Drawn /\ OrderInv /\ [HistNext]_histVars => OrderInv'
<1> SUFFICES ASSUME HistTypeOK, Drawn, OrderInv, [HistNext]_histVars PROVE OrderInv'
  OBVIOUS
<1>0. /\ clock \in Nat /\ lastId \in Nat
      /\ \A e \in events : e.at \in Nat /\ e.id \in Nat
      /\ DOMAIN writer = Writers
      /\ \A w \in Writers : writer[w].at \in Nat /\ writer[w].id \in Nat
                            /\ writer[w] \in [pc : WriterSteps, at : Nat, id : Nat]
      /\ before \in [Writers -> SUBSET Writers]
  BY DEF HistTypeOK, Event
<1> USE DEF OrderInv, Bounded, Written, Answered
<1>1. ASSUME NEW w \in Writers, Begin(w) PROVE OrderInv'
  <2>1. /\ UNCHANGED <<clock, lastId, events>>
        /\ \A v \in Writers : v # w => writer'[v] = writer[v] /\ before'[v] = before[v]
        /\ writer[w].pc = "new" /\ writer'[w].pc = "begun"
        /\ writer'[w].at = writer[w].at /\ writer'[w].id = writer[w].id
        /\ before'[w] = Answered
    BY <1>0, <1>1 DEF Begin
  <2>2. \A v \in Writers : Events(v)' = Events(v)
    BY <2>1 DEF Events
  <2>3. Events(w) = {} /\ w \notin Answered
    BY <2>1
  <2>4. Bounded' /\ \A v \in Writers : Written(v)' /\ before'[v] \subseteq Answered'
    BY <1>0, <2>1, <2>2
  <2>5. ASSUME NEW x \in Writers, NEW v \in before'[x] PROVE Follows(x, v)'
    <3>1. v # w /\ v \in Writers
      BY <1>0, <2>1, <2>3, <2>5
    <3>2. CASE x = w
      BY <2>1, <2>2, <2>3, <3>1, <3>2 DEF Follows, Inserts
    <3>3. CASE x # w
      BY <2>1, <2>2, <2>5, <3>1, <3>3 DEF Follows, Newer
    <3>4. QED
      BY <3>2, <3>3
  <2>6. QED
    BY <2>4, <2>5
<1>2. ASSUME NEW w \in Writers, StartInsert(w) PROVE OrderInv'
  <2>1. /\ UNCHANGED <<clock, lastId, events, before>>
        /\ \A v \in Writers : v # w => writer'[v] = writer[v]
        /\ writer[w].pc = "begun" /\ writer'[w].pc = "inserting"
        /\ writer'[w].at = clock /\ writer'[w].id = 0
    <3> DEFINE loc == [writer[w] EXCEPT !.pc = "inserting", !.at = clock]
    <3>1. loc.pc = "inserting" /\ loc.at = clock /\ loc.id = writer[w].id
      BY <1>0
    <3>2. writer' = [writer EXCEPT ![w] = loc]
      BY <1>0, <1>2 DEF StartInsert
    <3>3. QED
      BY <1>0, <1>2, <3>1, <3>2 DEF StartInsert
  <2>2. \A v \in Writers : Events(v)' = Events(v)
    BY <2>1 DEF Events
  <2>3. Events(w) = {} /\ w \notin Answered
    BY <2>1
  <2>4. Bounded' /\ \A v \in Writers : Written(v)' /\ before'[v] \subseteq Answered'
    BY <1>0, <2>1, <2>2
  <2>5. ASSUME NEW x \in Writers, NEW v \in before[x] PROVE Follows(x, v)'
    <3>1. v # w /\ v \in Writers
      BY <1>0, <2>3
    <3>2. CASE x = w
      <4>1. /\ writer[v].at <= clock
            /\ \A a \in Events(v) : a.at <= clock
        BY <3>1 DEF Events
      <4>2. QED
        BY <2>1, <2>2, <2>3, <3>1, <3>2, <4>1 DEF Follows
    <3>3. CASE x # w
      BY <2>1, <2>2, <3>1, <3>3 DEF Follows, Newer
    <3>4. QED
      BY <3>2, <3>3
  <2>6. QED
    BY <2>1, <2>4, <2>5
<1>3. ASSUME NEW w \in Writers, DrawId(w) PROVE OrderInv'
  <2>1. /\ UNCHANGED <<clock, events, before>> /\ lastId' = lastId + 1
        /\ \A v \in Writers : v # w => writer'[v] = writer[v]
        /\ writer[w].pc = "inserting" /\ writer'[w].pc = "drawn"
        /\ writer'[w].at = writer[w].at /\ writer'[w].id = lastId + 1
    <3> DEFINE loc == [writer[w] EXCEPT !.pc = "drawn", !.id = lastId']
    <3>1. loc.pc = "drawn" /\ loc.at = writer[w].at /\ loc.id = lastId'
      BY <1>0
    <3>2. writer' = [writer EXCEPT ![w] = loc]
      BY <1>0, <1>3 DEF DrawId
    <3>3. QED
      BY <1>0, <1>3, <3>1, <3>2 DEF DrawId
  <2>2. \A v \in Writers : Events(v)' = Events(v)
    BY <2>1 DEF Events
  <2>3. Events(w) = {} /\ w \notin Answered
    BY <2>1
  <2>4. Bounded' /\ \A v \in Writers : Written(v)' /\ before'[v] \subseteq Answered'
    BY <1>0, <2>1, <2>2
  <2>5. ASSUME NEW x \in Writers, NEW v \in before[x] PROVE Follows(x, v)'
    <3>1. v # w /\ v \in Writers
      BY <1>0, <2>3
    <3>2. CASE x = w
      <4>1. \A a \in Events(v) : a.id < lastId + 1
        BY <1>0 DEF Events
      <4>2. QED
        BY <2>1, <2>2, <2>3, <3>1, <3>2, <4>1 DEF Follows, Inserts
    <3>3. CASE x # w
      BY <2>1, <2>2, <3>1, <3>3 DEF Follows, Newer
    <3>4. QED
      BY <3>2, <3>3
  <2>6. QED
    BY <2>1, <2>4, <2>5
<1>4. ASSUME NEW w \in Writers, CommitInsert(w) PROVE OrderInv'
  <2> DEFINE new == [at |-> writer[w].at, id |-> writer[w].id, by |-> w]
  <2>1. /\ UNCHANGED <<clock, lastId, before>> /\ events' = events \union {new}
        /\ \A v \in Writers : v # w => writer'[v] = writer[v]
        /\ writer[w].pc = "drawn" /\ writer'[w] = [pc |-> "answered", at |-> 0, id |-> 0]
        /\ writer[w].id # 0
    BY <1>0, <1>4 DEF CommitInsert, Committed, Over, Drawn
  <2>2. Events(w) = {} /\ w \notin Answered
    BY <2>1
  <2>3. /\ \A v \in Writers : v # w => Events(v)' = Events(v)
        /\ Events(w)' = {new}
    BY <2>1, <2>2 DEF Events
  <2>4. Bounded' /\ \A v \in Writers : Written(v)' /\ before'[v] \subseteq Answered'
    <3>1. \A v \in Writers : Written(v)' /\ before'[v] \subseteq Answered'
      BY <1>0, <2>1, <2>3
    <3>2. Bounded'
      BY <1>0, <2>1
    <3>3. QED
      BY <3>1, <3>2
  <2>5. ASSUME NEW x \in Writers, NEW v \in before[x] PROVE Follows(x, v)'
    <3>1. v # w /\ v \in Writers
      BY <1>0, <2>2
    <3>2. CASE x = w
      <4>1. Follows(w, v)
        BY <3>2
      <4>2. writer[v].pc = "unheard" => writer[v].at <= new.at
        BY <2>1, <4>1 DEF Follows, Inserts
      <4>3. ASSUME NEW a \in Events(v)
            PROVE  a.at <= new.at /\ (writer[v].pc = "answered" => Newer(new, a))
        <5>1. a.at <= new.at /\ (writer[v].pc = "answered" => a.id < new.id)
          BY <2>1, <4>1 DEF Follows, Inserts
        <5>2. a.at \in Nat /\ new.at \in Nat
          BY <1>0 DEF Events
        <5>3. QED
          BY <5>1, <5>2 DEF Newer
      <4>4. QED
        BY <2>1, <2>3, <3>1, <3>2, <4>2, <4>3 DEF Follows, Inserts, Newer
    <3>3. CASE x # w
      BY <2>1, <2>3, <3>1, <3>3 DEF Follows, Newer
    <3>4. QED
      BY <3>2, <3>3
  <2>6. QED
    BY <2>1, <2>4, <2>5
<1>5. ASSUME NEW w \in Writers, InsertFails(w) PROVE OrderInv'
  <2>1. /\ UNCHANGED <<clock, lastId, events, before>>
        /\ \A v \in Writers : v # w => writer'[v] = writer[v]
        /\ writer[w].pc \in {"begun", "inserting", "drawn"}
        /\ writer'[w].pc = IF writer[w].pc = "begun" THEN "adrift" ELSE "unheard"
        /\ writer'[w].at = writer[w].at /\ writer'[w].id = writer[w].id
    BY <1>0, <1>5, BusyWriters DEF InsertFails
  <2>2. \A v \in Writers : Events(v)' = Events(v)
    BY <2>1 DEF Events
  <2>3. w \notin Answered
    BY <2>1
  <2>4. Bounded' /\ \A v \in Writers : Written(v)' /\ before'[v] \subseteq Answered'
    BY <1>0, <2>1, <2>2
  <2>5. ASSUME NEW x \in Writers, NEW v \in before[x] PROVE Follows(x, v)'
    <3>1. v # w /\ v \in Writers
      BY <1>0, <2>3
    <3>2. CASE x = w
      BY <2>1, <2>2, <3>1, <3>2 DEF Follows, Inserts, Newer
    <3>3. CASE x # w
      BY <2>1, <2>2, <3>1, <3>3 DEF Follows, Newer
    <3>4. QED
      BY <3>2, <3>3
  <2>6. QED
    BY <2>1, <2>4, <2>5
<1>6. ASSUME NEW dying \in SUBSET Busy, Kill(dying) PROVE OrderInv'
  <2>1. /\ UNCHANGED <<clock, lastId, events, before>>
        /\ \A w \in Writers : w \notin dying => writer'[w] = writer[w]
        /\ \A w \in Writers : w \in dying =>
             /\ writer[w].pc \in {"begun", "inserting", "drawn"}
             /\ writer'[w].pc = IF writer[w].pc = "begun" THEN "adrift" ELSE "orphan"
             /\ writer'[w].at = writer[w].at /\ writer'[w].id = writer[w].id
    BY <1>0, <1>6, BusyWriters DEF Kill
  <2>2. \A v \in Writers : Events(v)' = Events(v)
    BY <2>1 DEF Events
  <2>3. Bounded' /\ \A v \in Writers : Written(v)' /\ before'[v] \subseteq Answered'
    BY <1>0, <2>1, <2>2
  <2>4. ASSUME NEW x \in Writers, NEW v \in before[x] PROVE Follows(x, v)'
    <3>1. v \in Writers /\ writer'[v] = writer[v]
      BY <1>0, <2>1
    <3>2. /\ writer'[x].pc \in Inserts => writer[x].pc \in Inserts
          /\ writer'[x].at = writer[x].at /\ writer'[x].id = writer[x].id
      BY <2>1 DEF Inserts
    <3>3. QED
      BY <2>2, <3>1, <3>2 DEF Follows, Newer
  <2>5. QED
    BY <2>1, <2>3, <2>4
<1>7. ASSUME NEW w \in Writers, CommitLate(w) PROVE OrderInv'
  <2> DEFINE id == IF writer[w].id # 0 THEN writer[w].id ELSE lastId + 1
             new == [at |-> writer[w].at, id |-> id, by |-> w]
  <2>1. /\ UNCHANGED <<clock, before>> /\ events' = events \union {new}
        /\ lastId' \in {lastId, lastId + 1} /\ id <= lastId'
        /\ \A v \in Writers : v # w => writer'[v] = writer[v]
        /\ writer[w].pc \in {"unheard", "orphan", "stray"}
        /\ writer'[w] = [pc |-> IF writer[w].pc = "unheard" THEN "late" ELSE "dead",
                         at |-> 0, id |-> 0]
    BY <1>0, <1>7 DEF CommitLate, Committed, Over
  <2>2. Events(w) = {}
    BY <2>1
  <2>3. /\ \A v \in Writers : v # w => Events(v)' = Events(v)
        /\ Events(w)' = {new}
    BY <2>1, <2>2 DEF Events
  <2>4. Bounded' /\ \A v \in Writers : Written(v)' /\ before'[v] \subseteq Answered'
    <3>1. \A v \in Writers : Written(v)' /\ before'[v] \subseteq Answered'
      BY <1>0, <2>1, <2>3
    <3>2. Bounded'
      BY <1>0, <2>1
    <3>3. QED
      BY <3>1, <3>2
  <2>5. ASSUME NEW x \in Writers, NEW v \in before[x] PROVE Follows(x, v)'
    <3>1. v \in Writers /\ Follows(x, v) /\ new.at \in Nat
      BY <1>0
    <3>2. CASE x = w /\ v = w
      BY <2>1, <2>3, <3>1, <3>2 DEF Follows, Inserts
    <3>3. CASE x = w /\ v # w
      <4>1. writer[v].pc = "unheard" => writer[v].at <= new.at
        BY <2>1, <3>1, <3>3 DEF Follows, Inserts
      <4>2. ASSUME NEW a \in Events(v)
            PROVE  a.at <= new.at /\ (writer[v].pc = "answered" => Newer(new, a))
        <5>1. a.at <= new.at /\ (writer[v].pc = "answered" => a.id < new.id)
          BY <1>0, <2>1, <3>1, <3>3 DEF Follows, Inserts, Events
        <5>2. a.at \in Nat /\ new.at \in Nat
          BY <1>0 DEF Events
        <5>3. QED
          BY <5>1, <5>2 DEF Newer
      <4>3. QED
        BY <2>1, <2>3, <3>3, <4>1, <4>2 DEF Follows, Inserts, Newer
    <3>4. CASE x # w /\ v = w
      <4>1. writer[w].pc = "unheard"
        BY <2>1, <3>4
      <4>2. /\ writer[x].pc \in Inserts => new.at <= writer[x].at
            /\ \A b \in Events(x) : new.at <= b.at
        BY <3>1, <3>4, <4>1 DEF Follows
      <4>3. QED
        BY <2>1, <2>3, <3>4, <4>1, <4>2 DEF Follows
    <3>5. CASE x # w /\ v # w
      BY <2>1, <2>3, <3>1, <3>5 DEF Follows, Newer
    <3>6. QED
      BY <3>2, <3>3, <3>4, <3>5
  <2>6. QED
    BY <2>1, <2>4, <2>5
<1>8. ASSUME NEW w \in Writers, StartLate(w) PROVE OrderInv'
  <2>1. /\ UNCHANGED <<clock, lastId, events, before>>
        /\ \A v \in Writers : v # w => writer'[v] = writer[v]
        /\ writer[w].pc = "adrift" /\ writer'[w].pc = "stray"
        /\ writer'[w].at = clock /\ writer'[w].id = 0
    <3> DEFINE loc == [writer[w] EXCEPT !.pc = "stray", !.at = clock]
    <3>1. loc.pc = "stray" /\ loc.at = clock /\ loc.id = writer[w].id
      BY <1>0
    <3>2. writer' = [writer EXCEPT ![w] = loc]
      BY <1>0, <1>8 DEF StartLate
    <3>3. QED
      BY <1>0, <1>8, <3>1, <3>2 DEF StartLate
  <2>2. \A v \in Writers : Events(v)' = Events(v)
    BY <2>1 DEF Events
  <2>3. Events(w) = {} /\ w \notin Answered
    BY <2>1
  <2>4. Bounded' /\ \A v \in Writers : Written(v)' /\ before'[v] \subseteq Answered'
    BY <1>0, <2>1, <2>2
  <2>5. ASSUME NEW x \in Writers, NEW v \in before[x] PROVE Follows(x, v)'
    <3>1. v # w /\ v \in Writers
      BY <1>0, <2>3
    <3>2. CASE x = w
      <4>1. /\ writer[v].at <= clock
            /\ \A a \in Events(v) : a.at <= clock
        BY <3>1 DEF Events
      <4>2. QED
        BY <2>1, <2>2, <2>3, <3>1, <3>2, <4>1 DEF Follows
    <3>3. CASE x # w
      BY <2>1, <2>2, <3>1, <3>3 DEF Follows, Newer
    <3>4. QED
      BY <3>2, <3>3
  <2>6. QED
    BY <2>1, <2>4, <2>5
<1>9. CASE Tick
  <2>1. UNCHANGED <<lastId, events, writer, before>> /\ clock' = clock + 1
    BY <1>9 DEF Tick
  <2>2. QED
    BY <1>0, <2>1 DEF Follows, Events, Newer
<1>10. CASE UNCHANGED <<clock, lastId, events, writer, before>>
  BY <1>10 DEF Follows, Events, Newer
<1>11. QED
  BY <1>1, <1>2, <1>3, <1>4, <1>5, <1>6, <1>7, <1>8, <1>9, <1>10
     DEF HistNext, AppendStep, BeginWalk, Count, Select, ListFails, histVars

\* The history tells the order of what happened one after the other, whatever appends
\* fail or commit late and whatever processes die.
THEOREM HistoryInOrder == HistSpec => []HistoryRespectsTime
BY HistInitTyped, HistStepTyped, HistStepFinite, HistStepDrawn, HistInitOrder, HistStepOrder,
   OrderSuffices, PTL DEF HistSpec

-----------------------------------------------------------------------------
(* An event's rank only grows as others are added, so what was ahead of    *)
(* the reader stays ahead of it; it may see an event twice, but none is    *)
(* moved behind it.                                                        *)

LEMMA RankType ==
    ASSUME NEW table, IsFiniteSet(table), NEW e \in table, e.at \in Nat, e.id \in Nat
    PROVE  Rank(e, table) \in Nat /\ Rank(e, table) < Cardinality(table)
<1> DEFINE above == {x \in table : Newer(x, e)}
<1>1. above \subseteq table /\ e \notin above
  BY DEF Newer
<1>2. IsFiniteSet(above) /\ Cardinality(above) <= Cardinality(table)
  BY <1>1, FS_Subset
<1>3. Cardinality(above) # Cardinality(table)
  BY <1>1, FS_Subset
<1>4. Cardinality(above) \in Nat /\ Cardinality(table) \in Nat
  BY <1>2, FS_CardinalityType
<1>5. QED
  BY <1>2, <1>3, <1>4 DEF Rank

LEMMA RankGrows ==
    ASSUME NEW table, NEW new, IsFiniteSet(new), table \subseteq new, NEW e
    PROVE  Rank(e, table) <= Rank(e, new)
<1> DEFINE above == {x \in table : Newer(x, e)}
           aboveNew == {x \in new : Newer(x, e)}
<1>1. IsFiniteSet(aboveNew)
  BY FS_Subset
<1>2. above \subseteq aboveNew
  OBVIOUS
<1>3. Cardinality(above) <= Cardinality(aboveNew)
  BY <1>1, <1>2, FS_Subset
<1>4. QED
  BY <1>3 DEF Rank

WalkOK(d) ==
    /\ d.pc \in {"count", "select"} =>
         /\ d.first \subseteq events
         /\ \A e \in d.first \ d.seen : Rank(e, events) >= d.offset
    /\ d.pc = "select" => d.late \/ d.total = Cardinality(events)
    /\ d.pc = "done" => d.first \subseteq d.seen \/ d.late

WalkInv == \A r \in Readers : WalkOK(reader[r])

LEMMA HistInitWalk == HistInit => WalkInv
BY DEF HistInit, WalkInv, WalkOK, NewWalk

\* What a commit does to the readers.
LEMMA CommittedWalk ==
    ASSUME HistTypeOK, Finite, WalkInv, NEW w \in Writers, NEW id, Committed(w, id)
    PROVE  WalkInv'
<1> SUFFICES ASSUME NEW r \in Readers PROVE WalkOK(reader[r])'
  BY DEF WalkInv
<1> DEFINE d == reader[r]
           D == reader'[r]
           new == [at |-> writer[w].at, id |-> id, by |-> w]
<1>1. WalkOK(d) /\ events' = events \union {new} /\ IsFiniteSet(events')
  BY FS_AddElement DEF WalkInv, Committed, Finite
<1>2. /\ D.pc = d.pc /\ D.first = d.first /\ D.seen = d.seen /\ D.offset = d.offset
      /\ d.late => D.late
      /\ d.pc = "select" => D.late
  BY DEF Committed, HistTypeOK
<1>3. d.first \subseteq events /\ d.offset \in Nat => 
         \A e \in d.first \ d.seen : Rank(e, events) >= d.offset => Rank(e, events') >= d.offset
  <2> SUFFICES ASSUME d.first \subseteq events, d.offset \in Nat,
                      NEW e \in d.first \ d.seen, Rank(e, events) >= d.offset
               PROVE  Rank(e, events') >= d.offset
    OBVIOUS
  <2>1. e \in events /\ e \in events' /\ e.at \in Nat /\ e.id \in Nat
    BY <1>1 DEF HistTypeOK, Event
  <2>2. Rank(e, events) \in Nat /\ Rank(e, events') \in Nat
    BY <1>1, <2>1, RankType DEF Finite
  <2>3. Rank(e, events) <= Rank(e, events')
    BY <1>1, RankGrows
  <2>4. QED
    BY <2>2, <2>3
<1>4. d.offset \in Nat
  BY DEF HistTypeOK
<1>5. QED
  BY <1>1, <1>2, <1>3, <1>4 DEF WalkOK

\* The answer to Select: whoever is on the page is seen, and the others are ahead.
LEMMA SelectWalk ==
    ASSUME HistTypeOK, Finite, WalkInv, NEW r \in Readers, Select(r)
    PROVE  WalkInv'
<1> DEFINE d == reader[r]
           limit == Clamp(d.want)
           end == d.offset + limit
           page == Page(events, limit, d.offset)
           D == Turn(d, end, page)
<1>1. /\ d.pc = "select" /\ d.first \subseteq events /\ limit \in Nat \ {0} /\ d.offset \in Nat
      /\ d.total \in Nat /\ d.late \in BOOLEAN /\ WalkOK(d)
  BY ClampPositive DEF HistTypeOK, Select, WalkInv, WalkOK
<1>2. ASSUME NEW e \in d.first \ (d.seen \union page) PROVE Rank(e, events) >= end
  <2>1. e \in events /\ e.at \in Nat /\ e.id \in Nat
    BY <1>1 DEF HistTypeOK, Event
  <2>2. Rank(e, events) \in Nat
    BY <2>1, RankType DEF Finite
  <2>3. Rank(e, events) >= d.offset /\ e \notin page
    BY <1>1 DEF WalkOK
  <2>4. QED
    BY <1>1, <2>1, <2>2, <2>3 DEF Page
<1>3. CASE end < d.total
  <2>1. /\ D.pc = "count" /\ D.first = d.first /\ D.offset = end
        /\ D.seen = d.seen \union page
    BY <1>1, <1>3 DEF Turn, HistTypeOK
  <2>2. WalkOK(D)
    BY <1>1, <1>2, <2>1 DEF WalkOK
  <2>3. QED
    BY <2>2 DEF Select, WalkInv, WalkOK, HistTypeOK
<1>4. CASE ~(end < d.total)
  <2>1. D.pc = "done" /\ D.first = d.first /\ D.seen = d.seen \union page /\ D.late = d.late
    BY <1>4 DEF Turn, NewWalk
  <2>2. d.first \subseteq d.seen \union page \/ d.late
    <3> SUFFICES ASSUME ~d.late, NEW e \in d.first \ (d.seen \union page) PROVE FALSE
      OBVIOUS
    <3>1. d.total = Cardinality(events) /\ Rank(e, events) >= end
      BY <1>1, <1>2 DEF WalkOK
    <3>2. e \in events /\ e.at \in Nat /\ e.id \in Nat
      BY <1>1 DEF HistTypeOK, Event
    <3>3. Rank(e, events) \in Nat /\ Rank(e, events) < Cardinality(events)
      BY <3>2, RankType DEF Finite
    <3>4. QED
      BY <1>1, <1>4, <3>1, <3>3
  <2>3. WalkOK(D)
    BY <2>1, <2>2 DEF WalkOK
  <2>4. QED
    BY <2>3 DEF Select, WalkInv, WalkOK, HistTypeOK
<1>5. QED
  BY <1>3, <1>4

LEMMA HistStepWalk ==
    HistTypeOK /\ Finite /\ WalkInv /\ [HistNext]_histVars => WalkInv'
<1> SUFFICES ASSUME HistTypeOK, Finite, WalkInv, [HistNext]_histVars PROVE WalkInv'
  OBVIOUS
<1>1. ASSUME NEW w \in Writers, CommitInsert(w) \/ CommitLate(w) PROVE WalkInv'
  BY <1>1, CommittedWalk DEF CommitInsert, CommitLate
<1>2. ASSUME NEW dying \in SUBSET Busy, Kill(dying) PROVE WalkInv'
  BY <1>2 DEF Kill, WalkInv, WalkOK, HistTypeOK, Busy
<1>3. ASSUME NEW r \in Readers, BeginWalk(r) PROVE WalkInv'
  <2>1. \A e \in events : Rank(e, events) >= 0
    BY RankType DEF Finite, HistTypeOK, Event
  <2>2. /\ \A q \in Readers : q # r => reader'[q] = reader[q]
        /\ reader'[r].pc = "count" /\ reader'[r].first = events /\ reader'[r].offset = 0
        /\ UNCHANGED events
    BY <1>3 DEF BeginWalk, NewWalk, HistTypeOK
  <2>3. QED
    BY <2>1, <2>2 DEF WalkInv, WalkOK
<1>4. ASSUME NEW r \in Readers, Count(r) PROVE WalkInv'
  <2> DEFINE loc == [reader[r] EXCEPT !.pc = "select", !.total = Cardinality(events), !.late = FALSE]
  <2>1. /\ loc.pc = "select" /\ loc.total = Cardinality(events) /\ loc.first = reader[r].first
        /\ loc.seen = reader[r].seen /\ loc.offset = reader[r].offset
    BY DEF HistTypeOK
  <2>2. /\ reader' = [reader EXCEPT ![r] = loc] /\ reader[r].pc = "count"
        /\ UNCHANGED events
    BY <1>4 DEF Count, HistTypeOK
  <2>3. WalkOK(loc)
    BY <2>1, <2>2 DEF WalkInv, WalkOK
  <2>4. QED
    BY <2>2, <2>3 DEF WalkInv, WalkOK, HistTypeOK
<1>5. ASSUME NEW r \in Readers, Select(r) PROVE WalkInv'
  BY <1>5, SelectWalk
<1>6. ASSUME NEW r \in Readers, ListFails(r) PROVE WalkInv'
  BY <1>6 DEF ListFails, WalkInv, WalkOK, HistTypeOK
<1>7. CASE UNCHANGED <<events, reader>>
  BY <1>7 DEF WalkInv, WalkOK
<1>8. QED
  BY <1>1, <1>2, <1>3, <1>4, <1>5, <1>6, <1>7
     DEF HistNext, AppendStep, Begin, StartInsert, DrawId, InsertFails, StartLate, Tick,
         histVars

\* Whoever pages to the end sees every event that was there at the beginning, for any
\* limits and any number of events that come meanwhile, but for the case that one comes
\* within the last page.
THEOREM PagingSkipsNothing == HistSpec => []NothingSkipped
<1>1. WalkInv => NothingSkipped
  BY DEF WalkInv, WalkOK, NothingSkipped
<1>2. QED
  BY <1>1, HistInitTyped, HistStepTyped, HistStepFinite, HistStepDrawn, HistInitWalk, HistStepWalk,
     PTL DEF HistSpec
=============================================================================
