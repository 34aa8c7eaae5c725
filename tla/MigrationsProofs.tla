-------------------------- MODULE MigrationsProofs --------------------------
(***************************************************************************)
(* Theorems of Migrations, for any number of processes with any scripts    *)
(* and any number of failures: the run of Service.cfg shows the same on    *)
(* one instance.                                                           *)
(***************************************************************************)
EXTENDS Migrations, TLAPS

USE MigrationsAssumption

LEMMA MigInitTyped == MigInit => MigTypeOK
BY DEF MigInit, MigTypeOK, Pcs, Running, InTx

LEMMA MigStepTyped == MigTypeOK /\ [MigNext]_migVars => MigTypeOK'
<1> SUFFICES ASSUME MigTypeOK, [MigNext]_migVars PROVE MigTypeOK'
  OBVIOUS
<1> USE DEF MigTypeOK, Pcs, Running, InTx, Goto, Exit, Refuse, Proceed
<1>1. ASSUME NEW p \in Processes, Start(p) PROVE MigTypeOK'
  BY <1>1 DEF Start
<1>2. ASSUME NEW p \in Processes, LookForRegistry(p) PROVE MigTypeOK'
  BY <1>2 DEF LookForRegistry
<1>3. ASSUME NEW p \in Processes, CreateRegistry(p) PROVE MigTypeOK'
  BY <1>3 DEF CreateRegistry
<1>4. ASSUME NEW p \in Processes, Check(p) PROVE MigTypeOK'
  BY <1>4 DEF Check
<1>5. ASSUME NEW p \in Processes, Apply(p) PROVE MigTypeOK'
  BY <1>5 DEF Apply
<1>6. ASSUME NEW p \in Processes, Record(p) PROVE MigTypeOK'
  BY <1>6 DEF Record
<1>7. ASSUME NEW p \in Processes, Commit(p) PROVE MigTypeOK'
  <2>1. /\ made' \subseteq Nat /\ recorded' \subseteq Nat /\ again' \subseteq Nat
        /\ UNCHANGED <<registry, refused>>
    BY <1>7 DEF Commit
  <2>2. failures' \in 0..MaxFailures /\ proc' \in [Processes -> [pc : Pcs, next : Nat]]
    BY <1>7 DEF Commit
  <2>3. QED
    BY <2>1, <2>2
<1>8. ASSUME NEW p \in Processes, Fail(p) PROVE MigTypeOK'
  BY <1>8 DEF Fail
<1>9. ASSUME NEW p \in Processes, Terminate(p) \/ Quit(p) PROVE MigTypeOK'
  BY <1>9 DEF Terminate, Quit
<1>10. CASE UNCHANGED migVars
  BY <1>10 DEF migVars
<1>11. QED
  BY <1>1, <1>2, <1>3, <1>4, <1>5, <1>6, <1>7, <1>8, <1>9, <1>10 DEF MigNext, RunStep

\* Every variable keeps its type, whatever fails.
THEOREM MigrationsTyped == MigSpec => []MigTypeOK
BY MigInitTyped, MigStepTyped, PTL DEF MigSpec

-----------------------------------------------------------------------------
(* Two transactions are never at the same script, and one that is about to *)
(* commit has found no row of its script: so the row is still not there.   *)
(* Whoever runs has the scripts before its own behind it.                  *)

OnePerScript ==
    \A p, q \in Processes :
        proc[p].pc \in InTx /\ proc[q].pc \in InTx /\ proc[p].next = proc[q].next => p = q

Behind(p) ==
    /\ proc[p].next >= 1 /\ 1..(proc[p].next - 1) \subseteq made
    /\ proc[p].pc = "commit" => proc[p].next \notin recorded

MigInv ==
    /\ RecordedIffMade /\ AppliedOnce /\ AppliedInOrder /\ ServesMigrated
    /\ OnePerScript
    /\ \A p \in Processes : Behind(p)

LEMMA MigInitInv == MigInit => MigInv
BY DEF MigInit, MigInv, RecordedIffMade, AppliedOnce, AppliedInOrder, ServesMigrated,
       OnePerScript, Behind, InTx

LEMMA MigStepInv == MigTypeOK /\ MigInv /\ [MigNext]_migVars => MigInv'
<1> SUFFICES ASSUME MigTypeOK, MigInv, [MigNext]_migVars PROVE MigInv'
  OBVIOUS
<1> USE DEF MigTypeOK, MigInv, RecordedIffMade, AppliedOnce, AppliedInOrder, ServesMigrated,
            OnePerScript, Behind, Pcs, Running, InTx, Goto, Exit, Refuse, Proceed
<1>1. ASSUME NEW p \in Processes, Start(p) PROVE MigInv'
  BY <1>1 DEF Start
<1>2. ASSUME NEW p \in Processes, LookForRegistry(p) PROVE MigInv'
  BY <1>2 DEF LookForRegistry
<1>3. ASSUME NEW p \in Processes, CreateRegistry(p) PROVE MigInv'
  BY <1>3 DEF CreateRegistry
<1>4. ASSUME NEW p \in Processes, Check(p) PROVE MigInv'
  <2>1. UNCHANGED <<made, recorded, again>>
    BY <1>4 DEF Check
  <2>2. /\ \A q \in Processes : q # p => proc'[q] = proc[q]
        /\ proc'[p].pc \notin InTx \union {"draining"}
    BY <1>4 DEF Check
  <2>3. ServesMigrated'
    <3>1. proc'[p].pc = "serving" => proc[p].next > Scripts[p]
      BY <1>4 DEF Check
    <3>2. proc'[p].pc = "serving" => 1..Scripts[p] \subseteq made
      BY <3>1
    <3>3. QED
      BY <2>1, <2>2, <3>2
  <2>4. \A q \in Processes : Behind(q)'
    <3>1. CASE proc[p].next \in recorded
      <4>1. proc'[p].next \in {proc[p].next, proc[p].next + 1}
        BY <1>4 DEF Check
      <4>2. 1..(proc'[p].next - 1) \subseteq made
        BY <3>1, <4>1
      <4>3. QED
        BY <2>1, <2>2, <4>1, <4>2
    <3>2. CASE proc[p].next \notin recorded
      <4>1. proc'[p].next = proc[p].next
        BY <1>4, <3>2 DEF Check
      <4>2. QED
        BY <2>1, <2>2, <4>1
    <3>3. QED
      BY <3>1, <3>2
  <2>5. OnePerScript'
    BY <2>2
  <2>6. QED
    BY <2>1, <2>3, <2>4, <2>5
<1>5. ASSUME NEW p \in Processes, Apply(p) PROVE MigInv'
  <2>1. /\ UNCHANGED <<made, recorded, again>>
        /\ \A q \in Processes : q # p => proc'[q] = proc[q]
        /\ proc'[p] \in {[pc |-> "record", next |-> proc[p].next], [pc |-> "off", next |-> 1]}
    BY <1>5 DEF Apply
  <2>2. OnePerScript'
    BY <1>5, <2>1 DEF Apply
  <2>3. \A q \in Processes : Behind(q)'
    BY <2>1
  <2>4. QED
    BY <2>1, <2>2, <2>3
<1>6. ASSUME NEW p \in Processes, Record(p) PROVE MigInv'
  <2>1. /\ UNCHANGED <<made, recorded, again>>
        /\ \A q \in Processes : q # p => proc'[q] = proc[q]
        /\ proc'[p] = [pc |-> "off", next |-> 1]
             \/ (proc'[p] = [pc |-> "commit", next |-> proc[p].next]
                   /\ proc[p].next \notin recorded)
    BY <1>6 DEF Record
  <2>2. OnePerScript'
    BY <1>6, <2>1 DEF Record
  <2>3. \A q \in Processes : Behind(q)'
    BY <2>1
  <2>4. QED
    BY <2>1, <2>2, <2>3
<1>7. ASSUME NEW p \in Processes, Commit(p) PROVE MigInv'
  <2> DEFINE s == proc[p].next
  <2>1. /\ made' = made \union {s} /\ recorded' = recorded \union {s}
        /\ \A q \in Processes : q # p => proc'[q] = proc[q]
        /\ proc'[p] \in {[pc |-> "check", next |-> s + 1], [pc |-> "off", next |-> 1]}
    BY <1>7 DEF Commit
  <2>2. s \in Nat /\ s >= 1 /\ s \notin made /\ proc[p].pc = "commit"
    BY <1>7 DEF Commit
  <2>3. again' = {} /\ RecordedIffMade'
    BY <1>7, <2>1, <2>2 DEF Commit
  <2>4. 1..s \subseteq made'
    BY <2>1, <2>2
  <2>5. AppliedInOrder' /\ ServesMigrated'
    BY <2>1, <2>4
  <2>6. OnePerScript'
    BY <2>1
  <2>7. Behind(p)'
    BY <2>1, <2>2, <2>4
  <2>8. ASSUME NEW q \in Processes, q # p PROVE Behind(q)'
    <3>1. proc[q].pc = "commit" => proc[q].next # s
      BY <2>2, <2>8
    <3>2. QED
      BY <2>1, <2>8, <3>1
  <2>9. QED
    BY <2>3, <2>5, <2>6, <2>7, <2>8
<1>8. ASSUME NEW p \in Processes, Fail(p) PROVE MigInv'
  BY <1>8 DEF Fail
<1>9. ASSUME NEW p \in Processes, Terminate(p) \/ Quit(p) PROVE MigInv'
  <2>1. /\ UNCHANGED <<made, recorded, again>>
        /\ \A q \in Processes : q # p => proc'[q] = proc[q]
        /\ proc'[p] = [pc |-> "off", next |-> 1]
             \/ (proc'[p] = [pc |-> "draining", next |-> proc[p].next] /\ proc[p].pc = "serving")
    BY <1>9 DEF Terminate, Quit
  <2>2. QED
    BY <2>1
<1>10. CASE UNCHANGED migVars
  BY <1>10 DEF migVars
<1>11. QED
  BY <1>1, <1>2, <1>3, <1>4, <1>5, <1>6, <1>7, <1>8, <1>9, <1>10 DEF MigNext, RunStep

\* However many replicas start at once and whatever fails or dies: a script and its row
\* take effect together, once, in the order of the names, and before a process serves
\* that has the script.
THEOREM MigrationsSafe ==
    MigSpec => [](RecordedIffMade /\ AppliedOnce /\ AppliedInOrder /\ ServesMigrated)
<1>1. MigInv => RecordedIffMade /\ AppliedOnce /\ AppliedInOrder /\ ServesMigrated
  BY DEF MigInv
<1>2. QED
  BY <1>1, MigInitTyped, MigStepTyped, MigInitInv, MigStepInv, PTL DEF MigSpec

\* No script takes effect a second time: of the replicas that found it missing, the
\* transaction of one commits, and a script never runs where its row is missing but its
\* objects are there.
THEOREM ScriptsOnce == MigSpec => []AppliedOnce
BY MigrationsSafe, PTL

\* A script takes effect only after all the scripts of lower names have, whichever of the
\* replicas applied those.
THEOREM ScriptsInOrder == MigSpec => []AppliedInOrder
BY MigrationsSafe, PTL

\* A process listens only when every script that it knows has taken effect, by its own
\* transaction or another's.
THEOREM ServersMigrated == MigSpec => []ServesMigrated
BY MigrationsSafe, PTL

-----------------------------------------------------------------------------
(* Who has committed last is not refused: every check it has made still    *)
(* holds, until another process commits and takes its place.               *)

UpToDate(p) ==
    /\ p \notin refused
    /\ proc[p].pc = "creating" => ~registry
    /\ proc[p].pc \in {"begin", "record", "commit"} => proc[p].next \notin made

RefusalInv ==
    /\ \A p \in refused : proc[p].pc = "off"
    /\ failures = 0 => \E p \in Processes : UpToDate(p)

LEMMA MigInitRefusal == MigInit => RefusalInv
BY DEF MigInit, RefusalInv, UpToDate

LEMMA MigStepRefusal ==
    MigTypeOK /\ MigInv /\ RefusalInv /\ [MigNext]_migVars => RefusalInv'
<1> SUFFICES ASSUME MigTypeOK, MigInv, RefusalInv, [MigNext]_migVars PROVE RefusalInv'
  OBVIOUS
<1> USE DEF MigTypeOK, RefusalInv, Goto, Exit, Refuse, Proceed
<1>0. failures' = 0 => failures = 0
  <2>1. ASSUME NEW p \in Processes, Commit(p) \/ Fail(p) PROVE failures' = 0 => failures = 0
    BY <2>1 DEF Commit, Fail
  <2>2. CASE UNCHANGED failures
    BY <2>2
  <2>3. QED
    BY <2>1, <2>2 DEF MigNext, RunStep, Start, LookForRegistry, CreateRegistry, Check, Apply,
                      Record, Terminate, Quit, migVars
<1>1. ASSUME NEW p \in Processes, Start(p) PROVE RefusalInv'
  BY <1>0, <1>1 DEF Start, UpToDate
<1>2. ASSUME NEW p \in Processes, LookForRegistry(p) PROVE RefusalInv'
  BY <1>0, <1>2 DEF LookForRegistry, UpToDate
<1>3. ASSUME NEW p \in Processes, CreateRegistry(p) PROVE RefusalInv'
  <2>1. CASE registry
    <3>1. proc[p].pc = "creating" /\ \A q \in Processes : UpToDate(q) => q # p
      BY <1>3, <2>1 DEF CreateRegistry, UpToDate
    <3>2. \A q \in Processes : UpToDate(q) => UpToDate(q)'
      BY <1>3, <2>1, <3>1 DEF CreateRegistry, UpToDate
    <3>3. QED
      BY <1>0, <1>3, <2>1, <3>2 DEF CreateRegistry
  <2>2. CASE ~registry
    BY <1>3, <2>2 DEF CreateRegistry, UpToDate
  <2>3. QED
    BY <2>1, <2>2
<1>4. ASSUME NEW p \in Processes, Check(p) PROVE RefusalInv'
  <2>1. \A q \in Processes : UpToDate(q) => UpToDate(q)'
    BY <1>4 DEF Check, UpToDate, MigInv, RecordedIffMade
  <2>2. QED
    BY <1>0, <1>4, <2>1 DEF Check
<1>5. ASSUME NEW p \in Processes, Apply(p) PROVE RefusalInv'
  <2>1. \A q \in Processes : UpToDate(q) => UpToDate(q)'
    BY <1>5 DEF Apply, UpToDate
  <2>2. QED
    BY <1>0, <1>5, <2>1 DEF Apply
<1>6. ASSUME NEW p \in Processes, Record(p) PROVE RefusalInv'
  <2>1. \A q \in Processes : UpToDate(q) => UpToDate(q)'
    BY <1>6 DEF Record, UpToDate, MigInv, RecordedIffMade
  <2>2. QED
    BY <1>0, <1>6, <2>1 DEF Record
<1>7. ASSUME NEW p \in Processes, Commit(p) PROVE RefusalInv'
  <2>1. proc[p].pc = "commit" /\ p \notin refused /\ UNCHANGED refused
    BY <1>7 DEF Commit
  <2>2. /\ \A q \in Processes : q # p => proc'[q] = proc[q]
        /\ proc'[p].pc \in {"check", "off"}
    BY <1>7 DEF Commit
  <2>3. UpToDate(p)'
    BY <2>1, <2>2 DEF UpToDate
  <2>4. QED
    BY <2>1, <2>2, <2>3
<1>8. ASSUME NEW p \in Processes, Fail(p) PROVE RefusalInv'
  BY <1>8 DEF Fail
<1>9. ASSUME NEW p \in Processes, Terminate(p) \/ Quit(p) PROVE RefusalInv'
  <2>1. \A q \in Processes : UpToDate(q) => UpToDate(q)'
    BY <1>9 DEF Terminate, Quit, UpToDate
  <2>2. QED
    BY <1>0, <1>9, <2>1 DEF Terminate, Quit
<1>10. CASE UNCHANGED migVars
  BY <1>10 DEF migVars, UpToDate
<1>11. QED
  BY <1>1, <1>2, <1>3, <1>4, <1>5, <1>6, <1>7, <1>8, <1>9, <1>10 DEF MigNext, RunStep

\* Replicas that start together refuse each other, but while no statement has failed
\* there is one that got through.
THEOREM SomeoneGetsThrough == MigSpec => []NotAllRefused
<1>1. RefusalInv => NotAllRefused
  BY DEF RefusalInv, UpToDate, NotAllRefused
<1>2. QED
  BY <1>1, MigInitTyped, MigStepTyped, MigInitInv, MigStepInv, MigInitRefusal, MigStepRefusal,
     PTL DEF MigSpec
=============================================================================
