---------------------------- MODULE SessionStore ----------------------------
(***************************************************************************)
(* The Postgres session store (internal/session/postgres.go), which the    *)
(* request handlers and the cleanup goroutine call concurrently.  Every    *)
(* statement is one atomic step on the table.  Create is two steps: it     *)
(* draws an id and computes the expiry from the clock of the Go process,   *)
(* then inserts the row; all the other statements read the clock of the    *)
(* database (now()).  The two clocks may differ by at most MaxSkew.        *)
(***************************************************************************)
EXTENDS Naturals

CONSTANTS
    Ids,      \* what NewID can return
    Users,    \* Discord user ids
    TTL,      \* SESSION_TTL
    MaxSkew,  \* greatest difference of the two clocks
    Horizon,  \* bound: time stops here
    NoRow     \* no row under this id

Row == [user : Users, lastSeen : Nat, expires : Nat, revoked : BOOLEAN]

ASSUME TimeAssumption == TTL \in Nat \ {0} /\ MaxSkew \in Nat /\ Horizon \in Nat
ASSUME NoRowAssumption == NoRow \notin Row

VARIABLES
    rows,     \* the table auth_sessions
    drafts,   \* rows that Create calls in flight are about to insert
    stage,    \* how far the one Create call that drew an id has got
    appNow,   \* time.Now() in the service
    dbNow,    \* now() in the database
    drawnAt   \* history: the database's time when Create read the clock

vars == <<rows, drafts, stage, appNow, dbNow, drawnAt>>

Stages == {"unused", "inserting", "inserted", "failed"}

TypeOK ==
    /\ rows \in [Ids -> Row \union {NoRow}]
    /\ drafts \in [Ids -> Row \union {NoRow}]
    /\ stage \in [Ids -> Stages]
    /\ appNow \in Nat /\ dbNow \in Nat
    /\ drawnAt \in [Ids -> Nat]
    /\ \A i \in Ids : /\ stage[i] = "inserting" <=> drafts[i] # NoRow
                      /\ rows[i] # NoRow => stage[i] = "inserted"

Stored(i) == rows[i] # NoRow

\* The condition of GetValid.
Valid(i) == Stored(i) /\ ~rows[i].revoked /\ rows[i].expires > dbNow

-----------------------------------------------------------------------------
Init ==
    /\ rows = [i \in Ids |-> NoRow]
    /\ drafts = [i \in Ids |-> NoRow]
    /\ stage = [i \in Ids |-> "unused"]
    /\ appNow \in 0..MaxSkew /\ dbNow = 0
    /\ drawnAt = [i \in Ids |-> 0]

\* Mutant: the draft outlives the failed INSERT.
InsertFailsKeepsDraft(i) ==
    /\ stage[i] = "inserting"
    /\ stage' = [stage EXCEPT ![i] = "failed"]
    /\ UNCHANGED <<rows, drafts, appNow, dbNow, drawnAt>>

\* Mutant: sliding expiry.
TouchExtends(i) ==
    /\ Stored(i)
    /\ rows' = [rows EXCEPT ![i].lastSeen = dbNow, ![i].expires = dbNow + TTL]
    /\ UNCHANGED <<drafts, stage, appNow, dbNow, drawnAt>>

\* Mutant: SET revoked = (discord_user = $1), without the WHERE clause.
RevokeUserOverwrites(u) ==
    /\ rows' = [i \in Ids |-> IF Stored(i) THEN [rows[i] EXCEPT !.revoked = (rows[i].user = u)]
                               ELSE rows[i]]
    /\ UNCHANGED <<drafts, stage, appNow, dbNow, drawnAt>>

\* NewID is 128 random bits: an id is drawn once.
BeginCreate(i, u) ==
    /\ stage[i] = "unused"
    /\ stage' = [stage EXCEPT ![i] = "inserting"]
    /\ drafts' = [drafts EXCEPT ![i] =
           [user |-> u, lastSeen |-> appNow, expires |-> appNow + TTL, revoked |-> FALSE]]
    /\ drawnAt' = [drawnAt EXCEPT ![i] = dbNow]
    /\ UNCHANGED <<rows, appNow, dbNow>>

\* The row is stored, whether or not the caller learns of it.
Insert(i) ==
    /\ stage[i] = "inserting"
    /\ stage' = [stage EXCEPT ![i] = "inserted"]
    /\ rows' = [rows EXCEPT ![i] = drafts[i]]
    /\ drafts' = [drafts EXCEPT ![i] = NoRow]
    /\ UNCHANGED <<appNow, dbNow, drawnAt>>

InsertFails(i) ==
    /\ stage[i] = "inserting"
    /\ stage' = [stage EXCEPT ![i] = "failed"]
    /\ drafts' = [drafts EXCEPT ![i] = NoRow]
    /\ UNCHANGED <<rows, appNow, dbNow, drawnAt>>

Touch(i) ==
    /\ Stored(i)
    /\ rows' = [rows EXCEPT ![i].lastSeen = dbNow]
    /\ UNCHANGED <<drafts, stage, appNow, dbNow, drawnAt>>

Revoke(i) ==
    /\ Stored(i)
    /\ rows' = [rows EXCEPT ![i].revoked = TRUE]
    /\ UNCHANGED <<drafts, stage, appNow, dbNow, drawnAt>>

\* Mutant: the WHERE clause loses the user.
RevokeUserAll(u) ==
    /\ rows' = [i \in Ids |-> IF Stored(i) THEN [rows[i] EXCEPT !.revoked = TRUE]
                               ELSE rows[i]]
    /\ UNCHANGED <<drafts, stage, appNow, dbNow, drawnAt>>

RevokeUser(u) ==
    /\ rows' = [i \in Ids |->
           IF Stored(i) /\ rows[i].user = u /\ ~rows[i].revoked
             THEN [rows[i] EXCEPT !.revoked = TRUE] ELSE rows[i]]
    /\ UNCHANGED <<drafts, stage, appNow, dbNow, drawnAt>>

\* Mutants: rows about to expire, and revoked rows only once they have expired.
CollectableEarly(i) == Stored(i) /\ (rows[i].expires < dbNow + TTL \/ rows[i].revoked)
CollectableLate(i) == Stored(i) /\ rows[i].expires < dbNow /\ rows[i].revoked

\* The condition of the DELETE in DeleteExpired.
Collectable(i) == Stored(i) /\ (rows[i].expires < dbNow \/ rows[i].revoked)

\* The cleanup goroutine runs it every 15 minutes.
DeleteExpired ==
    /\ \E i \in Ids : Collectable(i)
    /\ rows' = [i \in Ids |-> IF Collectable(i) THEN NoRow ELSE rows[i]]
    /\ UNCHANGED <<drafts, stage, appNow, dbNow, drawnAt>>

AppTick ==
    /\ appNow < Horizon /\ appNow < dbNow + MaxSkew
    /\ appNow' = appNow + 1
    /\ UNCHANGED <<rows, drafts, stage, dbNow, drawnAt>>

DbTick ==
    /\ dbNow < Horizon /\ dbNow < appNow + MaxSkew
    /\ dbNow' = dbNow + 1
    /\ UNCHANGED <<rows, drafts, stage, appNow, drawnAt>>

Next ==
    \/ \E i \in Ids, u \in Users : BeginCreate(i, u)
    \/ \E i \in Ids : Insert(i) \/ InsertFails(i) \/ Touch(i) \/ Revoke(i)
    \/ \E u \in Users : RevokeUser(u)
    \/ DeleteExpired
    \/ AppTick \/ DbTick

Spec == Init /\ [][Next]_vars

\* Time passes and the ticker of the cleanup goroutine keeps firing.
FairSpec == Spec /\ WF_vars(AppTick) /\ WF_vars(DbTick) /\ WF_vars(DeleteExpired)

-----------------------------------------------------------------------------
(* Correctness *)

\* Whom an id authenticates now.
HolderOf(i) ==
    IF stage[i] # "inserted" THEN "unopened" ELSE IF Valid(i) THEN rows[i].user ELSE "ended"

Contract == INSTANCE SessionContract WITH
    Identities <- Users, Unopened <- "unopened", Ended <- "ended",
    holder <- [i \in Ids |-> HolderOf(i)]

\* The store keeps the contract: no touch, late insert, kick or cleanup brings an
\* ended session back or hands an id to a second user.
KeepsContract == Contract!Spec

\* SESSION_TTL bounds a session's life from the moment of login, however often it
\* is used (Touch), however late the insert commits, and whatever the skew.
BoundedLifetime ==
    \A i \in Ids : Valid(i) => dbNow < drawnAt[i] + MaxSkew + TTL

\* A session that still authenticates stops only because it was revoked or because
\* the database's clock reached its expiry: the cleanup never logs a user out.
EndsOnlyForCause ==
    [][\A i \in Ids : Valid(i) /\ ~Valid(i)' =>
           rows'[i] # NoRow /\ (rows'[i].revoked \/ dbNow' >= rows'[i].expires)]_vars

\* Nobody is logged out by the kick of another user: sessions that end in one step
\* in which no time passes are sessions of one user.
KicksOneUser ==
    [][dbNow' = dbNow =>
           \A i, j \in Ids : (Valid(i) /\ ~Valid(i)' /\ Valid(j) /\ ~Valid(j)')
                                   => rows[i].user = rows[j].user]_vars

\* Rows that no longer authenticate do not pile up: the cleanup removes each one,
\* also the row whose expiry is exactly now(), which neither condition covers.
EndedRowsCollected ==
    \A i \in Ids :
        (Stored(i) /\ ~Valid(i) /\ (rows[i].revoked \/ rows[i].expires < Horizon))
            ~> ~Stored(i)
=============================================================================
