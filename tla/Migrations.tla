----------------------------- MODULE Migrations -----------------------------
(***************************************************************************)
(* Run (migrations/migrate.go) in several processes on one database.  The  *)
(* scripts are numbered in the order of their names; a process carries     *)
(* those up to its release.  A script and its row in schema_migrations     *)
(* are one transaction; the existence check before it is not part of it.   *)
(***************************************************************************)
EXTENDS Integers, FiniteSets

CONSTANTS
    Processes,
    Scripts,      \* per process: how many scripts its release has
    FoundAtStart, \* how many an earlier release may have made, -1 for an empty database
    MaxFailures   \* bound: statements that fail, processes that die

ASSUME MigrationsAssumption ==
    /\ Processes # {} /\ Scripts \in [Processes -> Nat] /\ FoundAtStart \subseteq Nat \union {-1}
    /\ MaxFailures \in Nat

VARIABLES
    registry,  \* schema_migrations exists
    made,      \* the scripts whose effects are committed
    recorded,  \* the rows of schema_migrations
    again,     \* history: scripts whose effects were committed a second time
    refused,   \* history: processes that are down since another had been faster
    proc,      \* per process: where it is, and the script it is at
    failures

migVars == <<registry, made, recorded, again, refused, proc, failures>>

\* In the transaction of a script.
InTx == {"record", "commit"}
Running == {"registry", "creating", "check", "begin"} \union InTx
Pcs == Running \union {"off", "serving", "draining"}

MigTypeOK ==
    /\ registry \in BOOLEAN /\ again \subseteq Nat /\ failures \in 0..MaxFailures
    /\ made \subseteq Nat /\ recorded \subseteq Nat /\ refused \subseteq Processes
    /\ proc \in [Processes -> [pc : Pcs, next : Nat]]

MigInit ==
    /\ \E n \in FoundAtStart :
         registry = (n # -1) /\ made = 1..n /\ recorded = 1..n
    /\ again = {} /\ refused = {}
    /\ proc = [p \in Processes |-> [pc |-> "off", next |-> 1]]
    /\ failures = 0

Goto(p, step) == proc' = [proc EXCEPT ![p].pc = step]

\* An error of Run ends the process (main.go).
Exit(p) == proc' = [proc EXCEPT ![p] = [pc |-> "off", next |-> 1]]

\* ... here since another process has done the same.
Refuse(p) == Exit(p) /\ refused' = refused \union {p}
Proceed(p, step) == Goto(p, step) /\ UNCHANGED refused

-----------------------------------------------------------------------------
Start(p) ==
    /\ proc[p].pc = "off" /\ Goto(p, "registry")
    /\ refused' = refused \ {p}
    /\ UNCHANGED <<registry, made, recorded, again, failures>>

\* CREATE TABLE IF NOT EXISTS finds the table, or sets out to create it.
LookForRegistry(p) ==
    /\ proc[p].pc = "registry"
    /\ Goto(p, IF registry THEN "check" ELSE "creating")
    /\ UNCHANGED <<registry, made, recorded, again, refused, failures>>

\* Postgres lets one of several concurrent creations succeed; the others are refused.
CreateRegistry(p) ==
    /\ proc[p].pc = "creating"
    /\ IF registry THEN Refuse(p) ELSE Proceed(p, "check")
    /\ registry' = TRUE
    /\ UNCHANGED <<made, recorded, again, failures>>

\* Mutant: a script that is there already ends the run.
CheckOnce(p) ==
    /\ proc[p].pc = "check"
    /\ IF proc[p].next > Scripts[p] THEN Proceed(p, "serving")
       ELSE IF proc[p].next \in recorded THEN Refuse(p) ELSE Proceed(p, "begin")
    /\ UNCHANGED <<registry, made, recorded, again, failures>>

\* The loop's test; after the last script main.go starts the server.
Check(p) ==
    /\ proc[p].pc = "check"
    /\ IF proc[p].next > Scripts[p] THEN Goto(p, "serving")
       ELSE IF proc[p].next \in recorded THEN proc' = [proc EXCEPT ![p].next = @ + 1]
       ELSE Goto(p, "begin")
    /\ UNCHANGED <<registry, made, recorded, again, refused, failures>>

\* The script's statements.  Two transactions that create the same objects do not overlap:
\* the second waits; once the first has committed it is refused, or finds that IF NOT
\* EXISTS leaves it nothing to do.
Apply(p) ==
    /\ proc[p].pc = "begin"
    /\ \A q \in Processes : proc[q].pc \in InTx => proc[q].next # proc[p].next
    /\ Proceed(p, "record") \/ (proc[p].next \in made /\ Refuse(p))
    /\ UNCHANGED <<registry, made, recorded, again, failures>>

\* Mutants: ON CONFLICT DO NOTHING; the row is inserted outside the transaction.
RecordAnyway(p) ==
    /\ proc[p].pc = "record" /\ Goto(p, "commit")
    /\ UNCHANGED <<registry, made, recorded, again, refused, failures>>
RecordAtOnce(p) ==
    /\ proc[p].pc = "record"
    /\ IF proc[p].next \in recorded THEN Refuse(p) ELSE Proceed(p, "commit")
    /\ recorded' = recorded \union {proc[p].next}
    /\ UNCHANGED <<registry, made, again, failures>>

\* INSERT of the file name, the primary key.
Record(p) ==
    /\ proc[p].pc = "record"
    /\ IF proc[p].next \in recorded THEN Refuse(p) ELSE Proceed(p, "commit")
    /\ UNCHANGED <<registry, made, recorded, again, failures>>

\* The commit; its answer may be lost, and then the run ends with an error.
Commit(p) ==
    LET s == proc[p].next IN
    /\ proc[p].pc = "commit"
    /\ made' = made \union {s} /\ recorded' = recorded \union {s}
    /\ again' = IF s \in made THEN again \union {s} ELSE again
    /\ \/ proc' = [proc EXCEPT ![p] = [pc |-> "check", next |-> s + 1]] /\ UNCHANGED failures
       \/ failures < MaxFailures /\ failures' = failures + 1 /\ Exit(p)
    /\ UNCHANGED <<registry, refused>>

\* Mutant: the error is only logged.
FailLogged(p) ==
    /\ proc[p].pc \in Running /\ failures < MaxFailures /\ failures' = failures + 1
    /\ proc' = [proc EXCEPT ![p] = [pc |-> "check", next |-> @.next + 1]]
    /\ UNCHANGED <<registry, made, recorded, again, refused>>

\* A statement fails, the context is done (SIGTERM) or the process dies: what was not
\* committed is rolled back, and the process ends.
Fail(p) ==
    /\ proc[p].pc \in Running /\ failures < MaxFailures /\ failures' = failures + 1
    /\ Exit(p)
    /\ UNCHANGED <<registry, made, recorded, again, refused>>

\* main.go: SIGTERM stops the listener and lets requests finish; in the end, after 10 s at
\* the latest, or by a crash, the process is gone.
Terminate(p) ==
    /\ proc[p].pc = "serving" /\ Goto(p, "draining")
    /\ UNCHANGED <<registry, made, recorded, again, refused, failures>>

Quit(p) ==
    /\ proc[p].pc \in {"serving", "draining"} /\ Exit(p)
    /\ UNCHANGED <<registry, made, recorded, again, refused, failures>>

RunStep(p) ==
    LookForRegistry(p) \/ CreateRegistry(p) \/ Check(p) \/ Apply(p) \/ Record(p) \/ Commit(p)

MigNext ==
    \E p \in Processes : Start(p) \/ RunStep(p) \/ Fail(p) \/ Terminate(p) \/ Quit(p)

MigSpec == MigInit /\ [][MigNext]_migVars

-----------------------------------------------------------------------------
\* A script's effects and its row are committed together or not at all.
RecordedIffMade == recorded = made

\* No script takes effect twice, whoever started when and whatever failed.
AppliedOnce == again = {}

\* Scripts take effect in the order of their names, without gaps.
AppliedInOrder == \A s \in made : 1..s \subseteq made

\* A process serves only when all its scripts have taken effect.
ServesMigrated ==
    \A p \in Processes : proc[p].pc \in {"serving", "draining"} => 1..Scripts[p] \subseteq made

\* Processes that start at once refuse each other, but never all of them: as long as no
\* statement failed, there is one that was not refused.
NotAllRefused == failures = 0 => refused # Processes
=============================================================================
