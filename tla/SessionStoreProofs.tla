------------------------- MODULE SessionStoreProofs -------------------------
(***************************************************************************)
(* Theorems of SessionStore, for every set of ids and users, every TTL and *)
(* skew: the run of SessionStore.cfg shows the same on one instance.       *)
(***************************************************************************)
EXTENDS SessionStore, TLAPS

USE TimeAssumption, NoRowAssumption

\* Every variable keeps its type, a draft lives exactly as long as its INSERT is
\* in flight, and only an INSERT puts a row into auth_sessions.
THEOREM TypeCorrect == Spec => []TypeOK
<1>1. Init => TypeOK
  BY DEF Init, TypeOK, Stages
<1>2. TypeOK /\ [Next]_vars => TypeOK'
  <2> SUFFICES ASSUME TypeOK, [Next]_vars PROVE TypeOK'
    OBVIOUS
  <2> USE DEF TypeOK, Row, Stages
  <2>1. ASSUME NEW i \in Ids, NEW u \in Users, BeginCreate(i, u) PROVE TypeOK'
    <3> DEFINE draft == [user |-> u, lastSeen |-> appNow,
                         expires |-> appNow + TTL, revoked |-> FALSE]
    <3>0. appNow + TTL \in Nat /\ appNow \in Nat
      OBVIOUS
    <3>1. draft \in Row /\ draft # NoRow
      <4>1. draft \in Row
        BY <3>0
      <4>2. QED
        BY <4>1
    <3>2. /\ drafts' = [drafts EXCEPT ![i] = draft]
          /\ stage' = [stage EXCEPT ![i] = "inserting"]
          /\ drawnAt' = [drawnAt EXCEPT ![i] = dbNow]
          /\ stage[i] = "unused"
          /\ UNCHANGED <<rows, appNow, dbNow>>
      BY <2>1 DEF BeginCreate
    <3> HIDE DEF draft, Row
    <3>3. QED
      BY <3>1, <3>2
  <2>2. ASSUME NEW i \in Ids, Insert(i) PROVE TypeOK'
    BY <2>2 DEF Insert
  <2>3. ASSUME NEW i \in Ids, InsertFails(i) PROVE TypeOK'
    BY <2>3 DEF InsertFails
  <2>4. ASSUME NEW i \in Ids, Touch(i) PROVE TypeOK'
    BY <2>4 DEF Touch, Stored
  <2>5. ASSUME NEW i \in Ids, Revoke(i) PROVE TypeOK'
    BY <2>5 DEF Revoke, Stored
  <2>6. ASSUME NEW u \in Users, RevokeUser(u) PROVE TypeOK'
    BY <2>6 DEF RevokeUser, Stored
  <2>7. CASE DeleteExpired
    BY <2>7 DEF DeleteExpired
  <2>8. CASE AppTick
    BY <2>8 DEF AppTick
  <2>9. CASE DbTick
    BY <2>9 DEF DbTick
  <2>10. CASE UNCHANGED vars
    BY <2>10 DEF vars
  <2>11. QED
    BY <2>1, <2>2, <2>3, <2>4, <2>5, <2>6, <2>7, <2>8, <2>9, <2>10 DEF Next
<1>3. QED
  BY <1>1, <1>2, PTL DEF Spec

-----------------------------------------------------------------------------
(* A row's expiry is fixed by the clock of the service when Create reads   *)
(* it, at most MaxSkew ahead of the database, and no statement moves it.   *)

ExpiryFixed(r, i) == r # NoRow => r.expires <= drawnAt[i] + MaxSkew + TTL

LifetimeInv ==
    /\ appNow <= dbNow + MaxSkew
    /\ \A i \in Ids : ExpiryFixed(drafts[i], i) /\ ExpiryFixed(rows[i], i)

\* SESSION_TTL, plus the skew, bounds every session's life, whatever the order of
\* touches, kicks, cleanups and late inserts.
THEOREM LifetimeBounded == Spec => []BoundedLifetime
<1>1. Init => LifetimeInv
  BY DEF Init, LifetimeInv, ExpiryFixed
<1>2. TypeOK /\ LifetimeInv /\ [Next]_vars => LifetimeInv'
  <2> SUFFICES ASSUME TypeOK, LifetimeInv, [Next]_vars PROVE LifetimeInv'
    OBVIOUS
  <2> USE DEF TypeOK, Row, LifetimeInv, ExpiryFixed
  <2>1. ASSUME NEW i \in Ids, NEW u \in Users, BeginCreate(i, u) PROVE LifetimeInv'
    BY <2>1 DEF BeginCreate
  <2>2. ASSUME NEW i \in Ids, Insert(i) PROVE LifetimeInv'
    BY <2>2 DEF Insert
  <2>3. ASSUME NEW i \in Ids, InsertFails(i) PROVE LifetimeInv'
    BY <2>3 DEF InsertFails
  <2>4. ASSUME NEW i \in Ids, Touch(i) PROVE LifetimeInv'
    BY <2>4 DEF Touch, Stored
  <2>5. ASSUME NEW i \in Ids, Revoke(i) PROVE LifetimeInv'
    BY <2>5 DEF Revoke, Stored
  <2>6. ASSUME NEW u \in Users, RevokeUser(u) PROVE LifetimeInv'
    BY <2>6 DEF RevokeUser, Stored
  <2>7. CASE DeleteExpired
    BY <2>7 DEF DeleteExpired
  <2>8. CASE AppTick
    BY <2>8 DEF AppTick
  <2>9. CASE DbTick
    BY <2>9 DEF DbTick
  <2>10. CASE UNCHANGED vars
    BY <2>10 DEF vars
  <2>11. QED
    BY <2>1, <2>2, <2>3, <2>4, <2>5, <2>6, <2>7, <2>8, <2>9, <2>10 DEF Next
<1>3. TypeOK /\ LifetimeInv => BoundedLifetime
  BY DEF TypeOK, Row, LifetimeInv, ExpiryFixed, BoundedLifetime, Valid, Stored
<1>4. QED
  BY <1>1, <1>2, <1>3, TypeCorrect, PTL DEF Spec

-----------------------------------------------------------------------------
\* A session ends only because it was revoked or because its time is up, and a step
\* that ends sessions without the passing of time ends those of one user.
LEMMA StepEndsForCause ==
    ASSUME TypeOK, [Next]_vars, NEW i \in Ids, Valid(i), ~Valid(i)'
    PROVE  rows'[i] # NoRow /\ (rows'[i].revoked \/ dbNow' >= rows'[i].expires)
<1> USE DEF TypeOK, Row, Valid, Stored
<1>1. ASSUME NEW j \in Ids, NEW u \in Users, BeginCreate(j, u) PROVE FALSE
  BY <1>1 DEF BeginCreate
<1>2. ASSUME NEW j \in Ids, Insert(j) \/ InsertFails(j) \/ Touch(j) PROVE FALSE
  BY <1>2 DEF Insert, InsertFails, Touch
<1>3. CASE \E j \in Ids : Revoke(j)
  <2>1. PICK j \in Ids : Revoke(j)
    BY <1>3
  <2>2. j = i
    BY <2>1 DEF Revoke
  <2>3. rows'[i] \in Row /\ rows'[i].revoked
    BY <2>1, <2>2, ZenonT(40) DEF Revoke
  <2>4. QED
    BY <2>3
<1>4. CASE \E u \in Users : RevokeUser(u)
  <2>1. PICK u \in Users : RevokeUser(u)
    BY <1>4
  <2>2. rows'[i] = IF rows[i].user = u THEN [rows[i] EXCEPT !.revoked = TRUE]
                                       ELSE rows[i]
    BY <2>1 DEF RevokeUser
  <2>3. rows[i].user = u
    BY <2>1, <2>2 DEF RevokeUser
  <2>4. rows'[i] \in Row /\ rows'[i].revoked
    BY <2>2, <2>3
  <2>5. QED
    BY <2>4
<1>5. ASSUME DeleteExpired PROVE FALSE
  BY <1>5 DEF DeleteExpired, Collectable
<1>6. CASE AppTick
  BY <1>6 DEF AppTick
<1>7. CASE DbTick
  BY <1>7 DEF DbTick
<1>8. CASE UNCHANGED vars
  BY <1>8 DEF vars
<1>9. QED
  BY <1>1, <1>2, <1>3, <1>4, <1>5, <1>6, <1>7, <1>8 DEF Next

\* The cleanup goroutine and Touch, racing the requests, log nobody out.
THEOREM EndsForCause == Spec => EndsOnlyForCause
<1>1. TypeOK /\ [Next]_vars =>
        [\A i \in Ids : Valid(i) /\ ~Valid(i)' =>
             rows'[i] # NoRow /\ (rows'[i].revoked \/ dbNow' >= rows'[i].expires)]_vars
  BY StepEndsForCause
<1>2. QED
  BY <1>1, TypeCorrect, PTL DEF Spec, EndsOnlyForCause

\* The only statements that end a session at a standing clock name it, or its user.
LEMMA EndedByName ==
    ASSUME TypeOK, [Next]_vars, dbNow' = dbNow, NEW i \in Ids, Valid(i), ~Valid(i)'
    PROVE  Revoke(i) \/ RevokeUser(rows[i].user)
<1> USE DEF TypeOK, Row, Valid, Stored
<1>1. ASSUME NEW j \in Ids, NEW u \in Users, BeginCreate(j, u) PROVE FALSE
  BY <1>1 DEF BeginCreate
<1>2. ASSUME NEW j \in Ids, Insert(j) \/ InsertFails(j) \/ Touch(j) PROVE FALSE
  BY <1>2 DEF Insert, InsertFails, Touch
<1>3. ASSUME NEW j \in Ids, Revoke(j) PROVE j = i
  BY <1>3 DEF Revoke
<1>4. ASSUME NEW u \in Users, RevokeUser(u) PROVE u = rows[i].user
  BY <1>4 DEF RevokeUser
<1>5. ASSUME DeleteExpired PROVE FALSE
  BY <1>5 DEF DeleteExpired, Collectable
<1>6. ASSUME AppTick \/ DbTick \/ UNCHANGED vars PROVE FALSE
  BY <1>6 DEF AppTick, DbTick, vars
<1>7. QED
  BY <1>1, <1>2, <1>3, <1>4, <1>5, <1>6 DEF Next

\* An admin's kick logs out no user but the one it names, and nothing else that takes no
\* time logs out two users at once.
THEOREM KicksAreOfOneUser == Spec => KicksOneUser
<1>1. ASSUME TypeOK, [Next]_vars, dbNow' = dbNow, NEW i \in Ids, NEW j \in Ids,
             Valid(i), ~Valid(i)', Valid(j), ~Valid(j)'
      PROVE  rows[i].user = rows[j].user
  <2>1. Revoke(i) \/ RevokeUser(rows[i].user)
    BY <1>1, EndedByName
  <2>2. CASE Revoke(i)
    BY <1>1, <2>2 DEF Revoke, TypeOK, Valid, Stored
  <2>3. CASE RevokeUser(rows[i].user)
    BY <1>1, <2>3 DEF RevokeUser, TypeOK, Valid, Stored
  <2>4. QED
    BY <2>1, <2>2, <2>3
<1>2. TypeOK /\ [Next]_vars =>
        [dbNow' = dbNow =>
           \A i, j \in Ids : (Valid(i) /\ ~Valid(i)' /\ Valid(j) /\ ~Valid(j)')
                                   => rows[i].user = rows[j].user]_vars
  BY <1>1
<1>3. QED
  BY <1>2, TypeCorrect, PTL DEF Spec, KicksOneUser

-----------------------------------------------------------------------------
(* Refinement.  The INSERT is the contract's Open; every other step is an  *)
(* End of the sessions that stop being valid, none of them if it changes   *)
(* no session's validity.                                                  *)

\* A step other than an INSERT makes no session valid and moves none to another user.
EndsOnly ==
    \A i \in Ids : /\ stage'[i] = "inserted" <=> stage[i] = "inserted"
                   /\ Valid(i)' => Valid(i) /\ rows'[i].user = rows[i].user

LEMMA StepEndsOnly ==
    ASSUME TypeOK, [Next]_vars, ~\E i \in Ids : Insert(i)
    PROVE  EndsOnly
<1> USE DEF TypeOK, Row, Stages, Valid, Stored, EndsOnly
<1>1. ASSUME NEW j \in Ids, NEW u \in Users, BeginCreate(j, u) PROVE EndsOnly
  BY <1>1 DEF BeginCreate
<1>2. ASSUME NEW j \in Ids, InsertFails(j) PROVE EndsOnly
  BY <1>2 DEF InsertFails
<1>3. ASSUME NEW j \in Ids, Touch(j) PROVE EndsOnly
  BY <1>3 DEF Touch
<1>4. ASSUME NEW j \in Ids, Revoke(j) PROVE EndsOnly
  BY <1>4 DEF Revoke
<1>5. ASSUME NEW u \in Users, RevokeUser(u) PROVE EndsOnly
  BY <1>5 DEF RevokeUser
<1>6. CASE DeleteExpired
  BY <1>6 DEF DeleteExpired
<1>7. CASE AppTick
  BY <1>7 DEF AppTick
<1>8. CASE DbTick
  BY <1>8 DEF DbTick
<1>9. CASE UNCHANGED vars
  BY <1>9 DEF vars
<1>10. QED
  BY <1>1, <1>2, <1>3, <1>4, <1>5, <1>6, <1>7, <1>8, <1>9 DEF Next

LEMMA StepRefines ==
    ASSUME TypeOK, [Next]_vars
    PROVE  [Contract!Next]_[i \in Ids |-> HolderOf(i)]
<1> DEFINE holder == [i \in Ids |-> HolderOf(i)]
<1>1. ASSUME NEW i \in Ids, Insert(i) PROVE Contract!Next
  <2>1. stage[i] = "inserting" /\ stage' = [stage EXCEPT ![i] = "inserted"]
    BY <1>1 DEF Insert
  <2>2. drafts[i] \in Row /\ rows' = [rows EXCEPT ![i] = drafts[i]] /\ dbNow' = dbNow
    BY <1>1 DEF Insert, TypeOK
  <2>3. holder[i] = "unopened"
    BY <2>1 DEF HolderOf
  <2>4. HolderOf(i)' \in {drafts[i].user, "ended"}
    BY <2>1, <2>2 DEF HolderOf, TypeOK
  <2>5. ASSUME NEW j \in Ids, j # i PROVE HolderOf(j)' = HolderOf(j)
    <3>1. rows'[j] = rows[j] /\ stage'[j] = stage[j]
      BY <2>1, <2>2, <2>5 DEF TypeOK
    <3>2. QED
      BY <2>2, <3>1 DEF HolderOf, Valid, Stored
  <2>6. holder' = [holder EXCEPT ![i] = HolderOf(i)']
    BY <2>5
  <2>7. drafts[i].user \in Users
    BY <2>2 DEF Row
  <2>8. Contract!Open(i, drafts[i].user)
    BY <2>3, <2>4, <2>6 DEF Contract!Open
  <2>9. QED
    BY <2>7, <2>8 DEF Contract!Next
<1>2. ASSUME ~\E i \in Ids : Insert(i) PROVE Contract!Next
  <2> DEFINE S == {i \in Ids : HolderOf(i) \in Users /\ HolderOf(i)' = "ended"}
  <2>1. EndsOnly
    BY <1>2, StepEndsOnly
  <2>2. \A i \in Ids : HolderOf(i)' = IF i \in S THEN "ended" ELSE HolderOf(i)
    BY <2>1 DEF EndsOnly, HolderOf, TypeOK, Row, Valid, Stored
  <2>3. Contract!End(S)
    BY <2>2 DEF Contract!End, Contract!Held
  <2>4. S \in SUBSET Ids
    OBVIOUS
  <2>5. QED
    BY <2>3, <2>4 DEF Contract!Next
<1>3. QED
  BY <1>1, <1>2

\* The store implements the contract: a session, once revoked or expired, stays
\* ended, and an id never authenticates a second user.
THEOREM ContractKept == Spec => KeepsContract
<1>1. Init => Contract!Init
  BY DEF Init, Contract!Init, HolderOf
<1>2. QED
  BY <1>1, StepRefines, TypeCorrect, PTL DEF Spec, KeepsContract, Contract!Spec
=============================================================================
