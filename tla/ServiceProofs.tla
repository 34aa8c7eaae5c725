--------------------------- MODULE ServiceProofs ---------------------------
(***************************************************************************)
(* Theorems of Service, for any number of processes, writers and readers:  *)
(* it implements Migrations and AuditHistory, whose theorems so hold of it *)
(* too, and it handles requests only where the tables are there.           *)
(***************************************************************************)
EXTENDS Service, MigrationsProofs, AuditHistoryProofs

USE ServiceAssumption

LEMMA StepMigrates == [Next]_vars => [MigNext]_migVars
<1> SUFFICES ASSUME [Next]_vars PROVE [MigNext]_migVars
  OBVIOUS
<1>1. ASSUME NEW p \in Processes, Lifecycle(p) \/ Stop(p) PROVE MigNext
  BY <1>1 DEF Lifecycle, Stop, MigNext
<1>2. ASSUME NEW p \in Processes, Accept(p) \/ Serve(p) PROVE UNCHANGED migVars
  BY <1>2 DEF Accept, Serve
<1>3. CASE Outside \/ UNCHANGED vars
  BY <1>3 DEF Outside, vars
<1>4. QED
  BY <1>1, <1>2, <1>3 DEF Next

\* The processes of the service migrate as Migrations says, whatever their requests do.
THEOREM ImplementsMigrations == Spec => MigSpec
<1>1. Init => MigInit
  BY DEF Init
<1>2. QED
  BY <1>1, StepMigrates, PTL DEF Spec, MigSpec

LEMMA StepKeepsHistory == [Next]_vars => [HistNext]_histVars
<1> SUFFICES ASSUME [Next]_vars PROVE [HistNext]_histVars
  OBVIOUS
<1>1. ASSUME NEW p \in Processes, Lifecycle(p) PROVE UNCHANGED histVars
  BY <1>1 DEF Lifecycle
<1>2. ASSUME NEW p \in Processes, Accept(p) PROVE HistNext
  BY <1>2 DEF Accept, HistNext
<1>3. ASSUME NEW p \in Processes, Serve(p) PROVE HistNext
  <2>1. PICK x \in InFlight(p) :
            IF x \in Writers THEN AppendStep(x) ELSE Select(x) \/ ListFails(x)
    BY <1>3 DEF Serve
  <2>2. x \in Writers \union Readers
    BY DEF InFlight, Busy
  <2>3. QED
    BY <2>1, <2>2 DEF HistNext
<1>4. ASSUME NEW p \in Processes, Stop(p) PROVE HistNext
  <2>1. InFlight(p) \in SUBSET Busy
    BY DEF InFlight
  <2>2. QED
    BY <1>4, <2>1 DEF Stop, HistNext
<1>5. CASE Outside
  BY <1>5 DEF Outside, HistNext
<1>6. CASE UNCHANGED vars
  BY <1>6 DEF vars
<1>7. QED
  BY <1>1, <1>2, <1>3, <1>4, <1>5, <1>6 DEF Next

\* Processes that come and go, with requests in flight, only do to the history what
\* AuditHistory says of requests on their own.
THEOREM ImplementsHistory == Spec => HistSpec
<1>1. Init => HistInit
  BY DEF Init
<1>2. QED
  BY <1>1, StepKeepsHistory, PTL DEF Spec, HistSpec

-----------------------------------------------------------------------------
LEMMA AtTyped ==
    ASSUME at \in [Writers \union Readers -> Processes \union {Nowhere}], [Next]_vars
    PROVE  at' \in [Writers \union Readers -> Processes \union {Nowhere}]
<1>1. ASSUME NEW p \in Processes, Lifecycle(p) \/ Accept(p)
      PROVE  at' \in [Writers \union Readers -> Processes \union {Nowhere}]
  BY <1>1 DEF Lifecycle, Accept
<1>2. ASSUME NEW p \in Processes, Serve(p)
      PROVE  at' \in [Writers \union Readers -> Processes \union {Nowhere}]
  BY <1>2 DEF Serve
<1>3. ASSUME NEW p \in Processes, Stop(p)
      PROVE  at' \in [Writers \union Readers -> Processes \union {Nowhere}]
  BY <1>3 DEF Stop
<1>4. CASE Outside \/ UNCHANGED vars
  BY <1>4 DEF Outside, vars
<1>5. QED
  BY <1>1, <1>2, <1>3, <1>4 DEF Next

\* A request that goes on being handled stays where it is, and a new one is taken by a
\* process that serves; processes that have requests only drain, or die with them.
LEMMA StepHandled ==
    ASSUME TypeOK, MigInv, HandledByMigrated, [Next]_vars
    PROVE  HandledByMigrated'
<1> USE DEF TypeOK, MigTypeOK, HistTypeOK
<1> DEFINE Able(p) == proc[p].pc \in {"serving", "draining"} /\ 1..Scripts[p] \subseteq recorded
<1>0. \A x \in Busy : at[x] \in Processes /\ Able(at[x])
  BY DEF HandledByMigrated, Busy
<1>1. ASSUME NEW p \in Processes, Lifecycle(p) PROVE HandledByMigrated'
  <2>1. Busy' = Busy /\ UNCHANGED at
    BY <1>1 DEF Lifecycle, histVars, Busy
  <2>2. recorded \subseteq recorded'
    BY <1>1 DEF Lifecycle, Start, RunStep, LookForRegistry, CreateRegistry, Check, Apply, Record,
                Commit, Fail, Terminate
  <2>3. \A q \in Processes : Able(q) => proc'[q].pc \in {"serving", "draining"}
    <3>1. ASSUME proc[p].pc \notin {"serving", "draining"}, \A q \in Processes : q # p => proc'[q] = proc[q]
          PROVE  \A q \in Processes : Able(q) => proc'[q].pc \in {"serving", "draining"}
      BY <3>1
    <3>2. CASE Terminate(p)
      BY <3>2 DEF Terminate, Goto
    <3>3. CASE Start(p) \/ RunStep(p) \/ Fail(p)
      <4>1. proc[p].pc \notin {"serving", "draining"}
        BY <3>3 DEF Start, RunStep, LookForRegistry, CreateRegistry, Check, Apply, Record, Commit,
                    Fail, Running, InTx
      <4>2. \A q \in Processes : q # p => proc'[q] = proc[q]
        BY <3>3 DEF Start, RunStep, LookForRegistry, CreateRegistry, Check, Apply, Record, Commit,
                    Fail, Goto, Exit, Refuse, Proceed
      <4>3. QED
        BY <3>1, <4>1, <4>2
    <3>4. QED
      BY <1>1, <3>2, <3>3 DEF Lifecycle
  <2>4. QED
    BY <1>0, <2>1, <2>2, <2>3 DEF HandledByMigrated
<1>2. ASSUME NEW p \in Processes, Accept(p) PROVE HandledByMigrated'
  <2>1. Able(p) /\ p # Nowhere /\ UNCHANGED <<proc, recorded>>
    BY <1>2 DEF Accept, MigInv, ServesMigrated, RecordedIffMade, migVars
  <2>2. PICK x \in Writers \union Readers :
            /\ at' = [at EXCEPT ![x] = p]
            /\ \A y \in Busy' : y # x => y \in Busy
    <3>1. ASSUME NEW w \in Writers, Begin(w) PROVE \A y \in Busy' : y # w => y \in Busy
      BY <3>1 DEF Begin, Busy
    <3>2. ASSUME NEW r \in Readers, Count(r) PROVE \A y \in Busy' : y # r => y \in Busy
      BY <3>2 DEF Count, Busy
    <3>3. QED
      BY <1>2, <3>1, <3>2 DEF Accept
  <2>3. QED
    BY <1>0, <2>1, <2>2 DEF HandledByMigrated, Busy
<1>3. ASSUME NEW p \in Processes, Serve(p) PROVE HandledByMigrated'
  <2>1. PICK x \in InFlight(p) :
            /\ IF x \in Writers THEN AppendStep(x) ELSE Select(x) \/ ListFails(x)
            /\ at' = IF x \in Busy' THEN at ELSE [at EXCEPT ![x] = Nowhere]
    BY <1>3 DEF Serve
  <2>2. x \in Busy /\ x \in Writers \union Readers /\ UNCHANGED <<proc, recorded>>
    BY <1>3 DEF Serve, migVars, InFlight, Busy
  <2>3. \A y \in Busy' : y # x => y \in Busy
    <3>1. CASE x \in Writers
      <4>1. \A w \in Writers : w # x => writer'[w] = writer[w]
        BY <2>1, <3>1 DEF AppendStep, StartInsert, DrawId, CommitInsert, InsertFails
      <4>2. \A r \in Readers : reader'[r].pc = reader[r].pc
        BY <2>1, <3>1 DEF AppendStep, StartInsert, DrawId, CommitInsert, InsertFails, Committed
      <4>3. QED
        BY <4>1, <4>2 DEF Busy
    <3>2. CASE x \notin Writers
      BY <2>1, <3>2 DEF Select, ListFails, Busy
    <3>3. QED
      BY <3>1, <3>2
  <2>4. QED
    BY <1>0, <2>1, <2>2, <2>3 DEF HandledByMigrated, Busy
<1>4. ASSUME NEW p \in Processes, Stop(p) PROVE HandledByMigrated'
  <2>1. /\ Kill(InFlight(p)) /\ UNCHANGED recorded
        /\ \A q \in Processes : q # p => proc'[q] = proc[q]
        /\ at' = [x \in Writers \union Readers |-> IF at[x] = p THEN Nowhere ELSE at[x]]
    BY <1>4 DEF Stop, Quit, Exit
  <2>2. \A y \in Busy' : y \in Busy /\ at[y] # p
    BY <2>1 DEF Kill, InFlight, Busy
  <2>3. QED
    BY <1>0, <2>1, <2>2 DEF HandledByMigrated, Busy
<1>5. CASE Outside
  <2>1. UNCHANGED <<proc, recorded, at>>
    BY <1>5 DEF Outside, migVars
  <2>2. Busy' \subseteq Busy
    <3>1. ASSUME NEW w \in Writers, StartLate(w) \/ CommitLate(w) PROVE Busy' \subseteq Busy
      BY <3>1 DEF StartLate, CommitLate, Committed, Over, Busy
    <3>2. ASSUME NEW r \in Readers, BeginWalk(r) PROVE Busy' \subseteq Busy
      BY <3>2 DEF BeginWalk, NewWalk, Busy
    <3>3. CASE Tick
      BY <3>3 DEF Tick, Busy
    <3>4. QED
      BY <1>5, <3>1, <3>2, <3>3 DEF Outside
  <2>3. QED
    BY <1>0, <2>1, <2>2 DEF HandledByMigrated
<1>6. CASE UNCHANGED vars
  BY <1>6 DEF vars, migVars, histVars, HandledByMigrated, Busy
<1>7. QED
  BY <1>1, <1>2, <1>3, <1>4, <1>5, <1>6 DEF Next

\* All that the run of Service.cfg checks of migrations and of the history, on one
\* database with any number of processes, whatever fails and whoever dies.
THEOREM ServiceSafe ==
    Spec => [](/\ TypeOK /\ RecordedIffMade /\ AppliedOnce /\ AppliedInOrder /\ ServesMigrated
               /\ NotAllRefused /\ HistoryRespectsTime /\ NothingSkipped)
<1> DEFINE AtOK == at \in [Writers \union Readers -> Processes \union {Nowhere}]
<1>1. Init => AtOK
  BY DEF Init
<1>2. AtOK /\ [Next]_vars => AtOK'
  BY AtTyped
<1>3. Spec => []AtOK
  BY <1>1, <1>2, PTL DEF Spec
<1>4. MigTypeOK /\ HistTypeOK /\ AtOK => TypeOK
  BY DEF TypeOK
<1>5. QED
  BY <1>3, <1>4, ImplementsMigrations, ImplementsHistory, MigrationsTyped, MigrationsSafe,
     SomeoneGetsThrough, HistoryTyped, HistoryInOrder, PagingSkipsNothing, PTL

\* No statement of a request is sent by a process whose tables are not there, or that is
\* gone.
THEOREM RequestsFindTables == Spec => []HandledByMigrated
<1>1. Init => HandledByMigrated
  BY DEF Init, HistInit, HandledByMigrated, Busy, NewWalk
<1>2. TypeOK /\ MigInv /\ HandledByMigrated /\ [Next]_vars => HandledByMigrated'
  BY StepHandled
<1>3. MigSpec => []MigInv
  BY MigInitTyped, MigStepTyped, MigInitInv, MigStepInv, PTL DEF MigSpec
<1>4. QED
  BY <1>1, <1>2, <1>3, ImplementsMigrations, ServiceSafe, PTL DEF Spec
=============================================================================
