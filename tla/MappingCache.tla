---------------------------- MODULE MappingCache ----------------------------
(***************************************************************************)
(* The cached role-to-group table (internal/mapping/mapping.go, CachedStore)*)
(* under concurrent lookups, which the login callback makes through the    *)
(* resolver of internal/authz, and edits, which the admin API makes.       *)
(*                                                                         *)
(* A lookup takes the lock up to three times: it checks freshness under    *)
(* the read lock, refreshes under the write lock, which it holds while it  *)
(* lists the table, and reads the cache under the read lock again.  An edit*)
(* commits first and then takes the write lock to empty the cache.         *)
(***************************************************************************)
EXTENDS Naturals, Sequences, Authz

CONSTANTS
    Roles, Groups,   \* Discord roles and the groups they are mapped to
    RoleSets,        \* the sets of roles that the members of the guild have
    Lookups,         \* concurrent calls of GroupsForRoles
    Editors,         \* concurrent calls of Upsert and Delete
    TTLs,            \* values of MAPPING_CACHE_TTL; 0 turns the cache off
    Nobody,          \* the write lock is free
    MaxTables,       \* bound: tables in a behaviour
    Horizon          \* bound: time stops here

ASSUME CacheAssumption == TTLs \subseteq Nat /\ MaxTables \in Nat /\ Horizon \in Nat
ASSUME RoleSetsAssumption == RoleSets \subseteq SUBSET Roles
ASSUME NobodyAssumption == Nobody \notin Lookups

Table == SUBSET (Roles \X Groups)

VARIABLES
    tables,     \* history: the contents of role_group_mappings, the last is current
    acked,      \* history: the newest table whose edit has returned to its caller
    editing,    \* the table an editor installed and has not yet answered for, or 0
    cache, loaded, expiresAt,   \* the fields cache, guildID # "" and expiresAt
    cached,     \* history: the table the cache was filled from, 0 if it is empty
    mu,         \* the lookup that holds the write lock across List, or Nobody
    pc, asked, listed, answer,  \* per lookup: next step, roleIDs, List's rows, result
    floor,      \* history: acked when the lookup began
    listedVer,  \* history: the table that listed was read from
    checkedAt, goodUntil,        \* history: time of the freshness check; expiry of what it read
    ttl, now    \* the configured TTL, fixed at startup; time.Now()

cacheVars == <<cache, loaded, expiresAt, cached>>
dbVars == <<tables, acked, editing>>
lookVars == <<asked, floor, listed, listedVer, checkedAt, goodUntil, answer>>
vars == <<dbVars, cacheVars, mu, pc, lookVars, ttl, now>>

Steps == {"idle", "check", "lock", "list", "publish", "read", "direct", "done", "failed"}
Holding == {"list", "publish"}

TypeOK ==
    /\ tables \in Seq(Table) /\ tables # <<>>
    /\ acked \in 1..Len(tables)
    /\ editing \in [Editors -> 0..Len(tables)]
    /\ cache \in Table /\ loaded \in BOOLEAN /\ expiresAt \in Nat
    /\ cached \in 0..Len(tables)
    /\ mu \in Lookups \union {Nobody}
    /\ pc \in [Lookups -> Steps]
    /\ asked \in [Lookups -> SUBSET Roles]
    /\ listed \in [Lookups -> Table] /\ listedVer \in [Lookups -> 0..Len(tables)]
    /\ answer \in [Lookups -> SUBSET (Groups \union {AdminGroup})]
    /\ floor \in [Lookups -> 1..Len(tables)]
    /\ checkedAt \in [Lookups -> Nat] /\ goodUntil \in [Lookups -> Nat]
    /\ ttl \in TTLs /\ now \in Nat
    /\ \A l \in Lookups : mu = l <=> pc[l] \in Holding

Current == tables[Len(tables)]

\* Mutant: the fill is still used at its expiry.
FreshAtExpiry == loaded /\ now <= expiresAt

Fresh == loaded /\ now < expiresAt

-----------------------------------------------------------------------------
Init ==
    /\ tables \in {<<t>> : t \in Table}
    /\ acked = 1 /\ editing = [e \in Editors |-> 0]
    /\ cache = {} /\ loaded = FALSE /\ expiresAt = 0 /\ cached = 0
    /\ mu = Nobody
    /\ pc = [l \in Lookups |-> "idle"]
    /\ asked = [l \in Lookups |-> {}]
    /\ listed = [l \in Lookups |-> {}] /\ listedVer = [l \in Lookups |-> 0]
    /\ answer = [l \in Lookups |-> {}]
    /\ floor = [l \in Lookups |-> 1]
    /\ checkedAt = [l \in Lookups |-> 0] /\ goodUntil = [l \in Lookups |-> 0]
    /\ ttl \in TTLs /\ now = 0

Goto(l, step) == pc' = [pc EXCEPT ![l] = step]

Answer(l, table) == answer' = [answer EXCEPT ![l] = Resolve(table, asked[l])]

\* TTL 0 goes straight to the inner store.
Begin(l, roles) ==
    /\ pc[l] \in {"idle", "done", "failed"}
    /\ Goto(l, IF ttl = 0 THEN "direct" ELSE "check")
    /\ asked' = [asked EXCEPT ![l] = roles]
    /\ floor' = [floor EXCEPT ![l] = acked]
    /\ answer' = [answer EXCEPT ![l] = {}]
    /\ checkedAt' = [checkedAt EXCEPT ![l] = 0] /\ goodUntil' = [goodUntil EXCEPT ![l] = 0]
    /\ UNCHANGED <<dbVars, cacheVars, mu, listed, listedVer, ttl, now>>

\* One query of the inner store.
Direct(l) ==
    /\ pc[l] = "direct"
    /\ Goto(l, "done") /\ Answer(l, Current)
    /\ UNCHANGED <<dbVars, cacheVars, mu, asked, floor, listed, listedVer, checkedAt, goodUntil, ttl, now>>

\* The first read lock.
Check(l) ==
    /\ pc[l] = "check" /\ mu = Nobody
    /\ Goto(l, IF Fresh THEN "read" ELSE "lock")
    /\ checkedAt' = [checkedAt EXCEPT ![l] = now]
    /\ UNCHANGED <<dbVars, cacheVars, mu, asked, floor, listed, listedVer, goodUntil, answer, ttl, now>>

\* Mutant: refresh does not look again once it has the lock.
RefreshBlindly(l) ==
    /\ pc[l] = "lock" /\ mu = Nobody
    /\ Goto(l, "list") /\ mu' = l
    /\ UNCHANGED <<dbVars, cacheVars, lookVars, ttl, now>>

\* refresh takes the write lock and looks again: another lookup may have filled the
\* cache while this one waited.
Refresh(l) ==
    /\ pc[l] = "lock" /\ mu = Nobody
    /\ IF Fresh THEN Goto(l, "read") /\ UNCHANGED mu
                ELSE Goto(l, "list") /\ mu' = l
    /\ UNCHANGED <<dbVars, cacheVars, lookVars, ttl, now>>

\* The statement of List reads the table.
List(l) ==
    /\ pc[l] = "list"
    /\ Goto(l, "publish")
    /\ listed' = [listed EXCEPT ![l] = Current]
    /\ listedVer' = [listedVer EXCEPT ![l] = Len(tables)]
    /\ UNCHANGED <<dbVars, cacheVars, mu, asked, floor, checkedAt, goodUntil, answer, ttl, now>>

\* Mutant: no defer, the error path keeps the lock.
FailLocked(l) ==
    /\ pc[l] \in {"list", "direct"}
    /\ Goto(l, "failed")
    /\ UNCHANGED <<mu, dbVars, cacheVars, lookVars, ttl, now>>

\* The query fails, or the caller's context is cancelled; defer releases the lock.
Fail(l) ==
    /\ pc[l] \in {"list", "direct"}
    /\ Goto(l, "failed")
    /\ mu' = IF mu = l THEN Nobody ELSE mu
    /\ UNCHANGED <<dbVars, cacheVars, lookVars, ttl, now>>

Publish(l) ==
    /\ pc[l] = "publish"
    /\ Goto(l, "read") /\ mu' = Nobody
    /\ cache' = listed[l] /\ loaded' = TRUE /\ expiresAt' = now + ttl
    /\ cached' = listedVer[l]
    /\ listed' = [listed EXCEPT ![l] = {}] /\ listedVer' = [listedVer EXCEPT ![l] = 0]
    /\ UNCHANGED <<dbVars, asked, floor, checkedAt, goodUntil, answer, ttl, now>>

\* The second read lock.  The cache is whatever it is by now, also emptied again.
Read(l) ==
    /\ pc[l] = "read" /\ mu = Nobody
    /\ Goto(l, "done") /\ Answer(l, cache)
    /\ goodUntil' = [goodUntil EXCEPT ![l] = IF loaded THEN expiresAt ELSE now + ttl]
    /\ UNCHANGED <<dbVars, cacheVars, mu, asked, floor, listed, listedVer, checkedAt, ttl, now>>

\* Upsert and Delete commit; when the caller gets an error although the statement
\* committed (a connection lost late), the cache is not invalidated.
Commit(e, table) ==
    /\ editing[e] = 0 /\ Len(tables) < MaxTables
    /\ tables' = Append(tables, table)
    /\ editing' \in {editing, [editing EXCEPT ![e] = Len(tables')]}
    /\ UNCHANGED <<acked, cacheVars, mu, pc, lookVars, ttl, now>>

Upsert(e, r, g) == Commit(e, Current \union {<<r, g>>})
Delete(e, r, g) == Commit(e, Current \ {<<r, g>>})

\* Mutants: the fields are cleared without taking the lock; the edit returns
\* without clearing them.
InvalidateUnlocked(e) ==
    /\ editing[e] # 0
    /\ cache' = {} /\ loaded' = FALSE /\ expiresAt' = 0 /\ cached' = 0
    /\ acked' = IF acked < editing[e] THEN editing[e] ELSE acked
    /\ editing' = [editing EXCEPT ![e] = 0]
    /\ UNCHANGED <<tables, mu, pc, lookVars, ttl, now>>
InvalidateForgotten(e) ==
    /\ editing[e] # 0
    /\ acked' = IF acked < editing[e] THEN editing[e] ELSE acked
    /\ editing' = [editing EXCEPT ![e] = 0]
    /\ UNCHANGED <<tables, cacheVars, mu, pc, lookVars, ttl, now>>

Invalidate(e) ==
    /\ editing[e] # 0 /\ mu = Nobody
    /\ cache' = {} /\ loaded' = FALSE /\ expiresAt' = 0 /\ cached' = 0
    /\ acked' = IF acked < editing[e] THEN editing[e] ELSE acked
    /\ editing' = [editing EXCEPT ![e] = 0]
    /\ UNCHANGED <<tables, mu, pc, lookVars, ttl, now>>

Tick ==
    /\ now < Horizon
    /\ now' = now + 1
    /\ UNCHANGED <<dbVars, cacheVars, mu, pc, lookVars, ttl>>

Step(l) ==
    Direct(l) \/ Check(l) \/ Refresh(l) \/ List(l) \/ Fail(l) \/ Publish(l) \/ Read(l)

Next ==
    \/ \E l \in Lookups : Step(l) \/ \E roles \in RoleSets : Begin(l, roles)
    \/ \E e \in Editors : \/ \E r \in Roles, g \in Groups : Upsert(e, r, g) \/ Delete(e, r, g)
                          \/ Invalidate(e)
    \/ Tick

Spec == Init /\ [][Next]_vars

\* sync.RWMutex starves no one, and a query answers or fails.
FairSpec ==
    /\ Spec
    /\ \A l \in Lookups : SF_vars(Step(l))
    /\ \A e \in Editors : SF_vars(Invalidate(e))

-----------------------------------------------------------------------------
(* Correctness *)

\* After Upsert or Delete returned, no lookup in flight ever puts an older table back
\* into the cache, whatever it had listed before.
CacheNotBehind == loaded => acked <= cached

\* What a lookup may answer: the groups of one table, no older than the edits that
\* had returned when it began.
Exact(l) == \E v \in floor[l]..Len(tables) : answer[l] = Resolve(tables[v], asked[l])

\* Read your writes: a lookup answers from one table that includes every edit that
\* returned before it began, or, as the code of the cache stands, from the emptied cache.
LookupSound ==
    \A l \in Lookups :
        pc[l] = "done" => Exact(l) \/ (ttl # 0 /\ answer[l] = Resolve({}, asked[l]))

\* What a lookup is to the login that makes it.
LookupOf(l) ==
    IF pc[l] \in {"idle", "failed"} THEN [stage |-> "idle", roles |-> {}, floor |-> 1, groups |-> {}]
    ELSE [stage |-> IF pc[l] = "done" THEN "answered" ELSE "asked",
          roles |-> asked[l], floor |-> floor[l], groups |-> answer[l]]

Promise == INSTANCE RoleLookup WITH lookup <- [l \in Lookups |-> LookupOf(l)]

\* Lock by lock and with any fill, expiry and edit in between, the cache keeps what the
\* logins rely on (RoleLookup).
KeepsPromise == Promise!Spec

\* A login that finds no groups means that its roles map to none
\* (docs/discord-setup.md, "no authorized groups").
NoSpuriousDenial == \A l \in Lookups : pc[l] = "done" => Exact(l)

\* No lookup is answered from a fill that had expired when the lookup checked it, so
\* an edit that nobody invalidates for is seen one TTL after the fill at the latest.
NeverExpired ==
    \A l \in Lookups : (pc[l] = "done" /\ ttl > 0) => checkedAt[l] < goodUntil[l]

\* Lookups that miss together list the table once: a fill is only ever replaced when
\* it has expired, unless an edit emptied the cache in between.
NoStampede ==
    [][\A l \in Lookups : pc[l] = "publish" /\ pc'[l] = "read" /\ loaded
                             => now >= expiresAt]_vars

\* Every lookup returns and every edit is answered: no path leaves the lock held.
LookupsReturn == \A l \in Lookups : pc[l] # "idle" ~> pc[l] \in {"done", "failed"}
EditsReturn == \A e \in Editors : editing[e] # 0 ~> editing[e] = 0
=============================================================================
