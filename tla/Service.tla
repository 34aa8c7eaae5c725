------------------------------ MODULE Service ------------------------------
(***************************************************************************)
(* The life of the service (cmd/discord-auth/main.go): processes migrate   *)
(* the database, serve, drain and die, several at a time on one database,  *)
(* while admins change things and page through the audit history.          *)
(***************************************************************************)
EXTENDS Migrations, AuditHistory

CONSTANT Nowhere

ASSUME ServiceAssumption == Nowhere \notin Processes

VARIABLE at   \* the process that serves a writer or a reader

vars == <<migVars, histVars, at>>

TypeOK ==
    /\ MigTypeOK /\ HistTypeOK
    /\ at \in [Writers \union Readers -> Processes \union {Nowhere}]

Init ==
    /\ MigInit /\ HistInit
    /\ at = [x \in Writers \union Readers |-> Nowhere]

InFlight(p) == {x \in Busy : at[x] = p}

\* Starting, migrating, being told to stop.
Lifecycle(p) ==
    /\ Start(p) \/ RunStep(p) \/ Fail(p) \/ Terminate(p)
    /\ UNCHANGED <<histVars, at>>

\* Mutant: it listens before it migrates.
AcceptEarly(p) ==
    /\ proc[p].pc # "off"
    /\ \/ \E w \in Writers : Begin(w) /\ at' = [at EXCEPT ![w] = p]
       \/ \E r \in Readers : Count(r) /\ at' = [at EXCEPT ![r] = p]
    /\ UNCHANGED migVars

\* Requests reach a process that listens; the statements that need no process are below.
Accept(p) ==
    /\ proc[p].pc = "serving"
    /\ \/ \E w \in Writers : Begin(w) /\ at' = [at EXCEPT ![w] = p]
       \/ \E r \in Readers : Count(r) /\ at' = [at EXCEPT ![r] = p]
    /\ UNCHANGED migVars

Serve(p) ==
    /\ \E x \in InFlight(p) :
         /\ IF x \in Writers THEN AppendStep(x) ELSE Select(x) \/ ListFails(x)
         /\ at' = IF x \in Busy' THEN at ELSE [at EXCEPT ![x] = Nowhere]
    /\ UNCHANGED migVars

\* Shutdown returns when no request is left; when its 10 s are over, or at a crash, the
\* requests in flight die with the process.
Stop(p) ==
    /\ Quit(p) /\ Kill(InFlight(p))
    /\ at' = [x \in DOMAIN at |-> IF at[x] = p THEN Nowhere ELSE at[x]]

Outside ==
    /\ \/ \E w \in Writers : StartLate(w) \/ CommitLate(w)
       \/ \E r \in Readers : BeginWalk(r)
       \/ Tick
    /\ UNCHANGED <<migVars, at>>

Next == (\E p \in Processes : Lifecycle(p) \/ Accept(p) \/ Serve(p) \/ Stop(p)) \/ Outside

Spec == Init /\ [][Next]_vars

-----------------------------------------------------------------------------
\* A request is handled by a process whose tables are there, from its first statement to
\* its last, also while other processes migrate, drain or die.
HandledByMigrated ==
    \A x \in Busy : at[x] # Nowhere /\ proc[at[x]].pc \in {"serving", "draining"}
                    /\ 1..Scripts[at[x]] \subseteq recorded
=============================================================================
