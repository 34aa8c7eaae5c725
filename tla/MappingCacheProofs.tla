------------------------- MODULE MappingCacheProofs -------------------------
(***************************************************************************)
(* Theorems of MappingCache, for every number of lookups and editors,      *)
(* every table, every TTL and every bound.                                 *)
(***************************************************************************)
EXTENDS MappingCache, TLAPS

USE CacheAssumption, RoleSetsAssumption, NobodyAssumption

\* A commit adds a table and changes none of the earlier ones.
LEMMA CommitAppends ==
    ASSUME TypeOK, NEW e \in Editors, NEW t \in Table, Commit(e, t)
    PROVE  /\ tables' \in Seq(Table) /\ tables' # <<>>
           /\ Len(tables') = Len(tables) + 1 /\ Len(tables) \in Nat \ {0}
           /\ \A v \in 1..Len(tables) : tables'[v] = tables[v]
           /\ editing' \in [Editors -> 0..Len(tables')]
<1>1. tables \in Seq(Table) /\ tables # <<>> /\ tables' = Append(tables, t)
  BY DEF TypeOK, Commit
<1>2. /\ tables' \in Seq(Table) /\ tables' # <<>>
      /\ Len(tables') = Len(tables) + 1 /\ Len(tables) \in Nat \ {0}
      /\ \A v \in 1..Len(tables) : tables'[v] = tables[v]
  BY <1>1
<1>3. editing \in [Editors -> 0..Len(tables')]
  BY <1>2 DEF TypeOK
<1>4. editing' \in {editing, [editing EXCEPT ![e] = Len(tables')]}
  BY DEF Commit
<1>5. QED
  BY <1>2, <1>3, <1>4

\* What an edit does to the table is a commit of some table.
LEMMA EditsCommit ==
    ASSUME TypeOK, NEW e \in Editors, NEW r \in Roles, NEW g \in Groups,
           Upsert(e, r, g) \/ Delete(e, r, g)
    PROVE  \E t \in Table : Commit(e, t)
<1>1. Current \in Table
  BY DEF TypeOK, Current
<1>2. Current \union {<<r, g>>} \in Table /\ Current \ {<<r, g>>} \in Table
  BY <1>1 DEF Table
<1>3. QED
  BY <1>2 DEF Upsert, Delete

LEMMA ResolveType ==
    ASSUME NEW t \in Table, NEW roles
    PROVE  Resolve(t, roles) \in SUBSET (Groups \union {AdminGroup})
BY DEF Resolve, GroupsIn, Table

\* Every variable keeps its type, and the write lock is held exactly by the lookup
\* that is listing the table or about to publish it.
THEOREM TypeCorrect == Spec => []TypeOK
<1>1. ASSUME Init PROVE TypeOK
  <2>1. PICK t \in Table : tables = <<t>>
    BY <1>1 DEF Init
  <2>2. tables \in Seq(Table) /\ tables # <<>> /\ Len(tables) = 1
    BY <2>1
  <2>3. {} \in Table
    BY DEF Table
  <2>4. /\ tables \in Seq(Table) /\ tables # <<>>
        /\ acked \in 1..Len(tables) /\ editing \in [Editors -> 0..Len(tables)]
        /\ cache \in Table /\ loaded \in BOOLEAN /\ expiresAt \in Nat
        /\ cached \in 0..Len(tables) /\ now \in Nat
    <3>1. acked = 1 /\ cached = 0 /\ editing = [e \in Editors |-> 0]
      BY <1>1 DEF Init
    <3>2. /\ acked \in 1..Len(tables) /\ cached \in 0..Len(tables)
          /\ editing \in [Editors -> 0..Len(tables)]
      BY <2>2, <3>1
    <3>3. cache = {} /\ loaded = FALSE /\ expiresAt = 0 /\ now = 0
      BY <1>1 DEF Init
    <3>4. QED
      BY <2>2, <2>3, <3>2, <3>3
  <2>5. /\ pc \in [Lookups -> Steps] /\ mu \in Lookups \union {Nobody}
        /\ \A l \in Lookups : mu = l <=> pc[l] \in Holding
    BY <1>1 DEF Init, Steps, Holding
  <2>6. /\ listed \in [Lookups -> Table] /\ listedVer \in [Lookups -> 0..Len(tables)]
        /\ floor \in [Lookups -> 1..Len(tables)]
        /\ asked \in [Lookups -> SUBSET Roles]
        /\ answer \in [Lookups -> SUBSET (Groups \union {AdminGroup})]
        /\ checkedAt \in [Lookups -> Nat] /\ goodUntil \in [Lookups -> Nat] /\ ttl \in TTLs
    BY <1>1, <2>2, <2>3 DEF Init
  <2>7. QED
    BY <2>4, <2>5, <2>6 DEF TypeOK
<1>2. TypeOK /\ [Next]_vars => TypeOK'
  <2> SUFFICES ASSUME TypeOK, [Next]_vars PROVE TypeOK'
    OBVIOUS
  <2> USE DEF TypeOK, Steps, Holding, dbVars, cacheVars, lookVars, Goto
  <2>1. ASSUME NEW l \in Lookups, NEW roles \in RoleSets, Begin(l, roles) PROVE TypeOK'
    BY <2>1 DEF Begin
  <2>2. ASSUME NEW l \in Lookups, Direct(l) PROVE TypeOK'
    <3>1. Current \in Table
      BY DEF Current
    <3>2. QED
      BY <2>2, <3>1, ResolveType DEF Direct, Answer
  <2>3. ASSUME NEW l \in Lookups, Check(l) PROVE TypeOK'
    BY <2>3 DEF Check
  <2>4. ASSUME NEW l \in Lookups, Refresh(l) PROVE TypeOK'
    <3>1. CASE Fresh
      BY <2>4, <3>1 DEF Refresh
    <3>2. CASE ~Fresh
      <4>1. /\ mu' = l /\ mu = Nobody /\ pc' = [pc EXCEPT ![l] = "list"]
            /\ UNCHANGED <<dbVars, cacheVars, lookVars, ttl, now>>
        BY <2>4, <3>2 DEF Refresh
      <4>2. \A k \in Lookups : mu' = k <=> pc'[k] \in Holding
        BY <4>1
      <4>3. QED
        BY <4>1, <4>2
    <3>3. QED
      BY <3>1, <3>2
  <2>5. ASSUME NEW l \in Lookups, List(l) PROVE TypeOK'
    BY <2>5 DEF List, Current
  <2>6. ASSUME NEW l \in Lookups, Fail(l) PROVE TypeOK'
    BY <2>6 DEF Fail
  <2>7. ASSUME NEW l \in Lookups, Publish(l) PROVE TypeOK'
    BY <2>7 DEF Publish, Table
  <2>8. ASSUME NEW l \in Lookups, Read(l) PROVE TypeOK'
    <3>1. /\ answer' = [answer EXCEPT ![l] = Resolve(cache, asked[l])]
          /\ pc' = [pc EXCEPT ![l] = "done"] /\ mu = Nobody
          /\ UNCHANGED <<dbVars, cacheVars, mu, asked, floor, listed, listedVer, checkedAt, ttl, now>>
      BY <2>8 DEF Read, Answer
    <3>2. expiresAt \in Nat /\ now + ttl \in Nat
      OBVIOUS
    <3>3. goodUntil' \in [Lookups -> Nat]
      BY <2>8, <3>2 DEF Read
    <3>4. answer' \in [Lookups -> SUBSET (Groups \union {AdminGroup})]
      BY <3>1, ResolveType
    <3>5. \A k \in Lookups : mu' = k <=> pc'[k] \in Holding
      BY <3>1
    <3>6. QED
      BY <3>1, <3>3, <3>4, <3>5
  <2>9. ASSUME NEW e \in Editors, NEW t \in Table, Commit(e, t) PROVE TypeOK'
    <3>1. /\ tables' \in Seq(Table) /\ tables' # <<>>
          /\ Len(tables') = Len(tables) + 1 /\ Len(tables) \in Nat \ {0}
          /\ editing' \in [Editors -> 0..Len(tables')]
      BY <2>9, CommitAppends
    <3>2. UNCHANGED <<acked, cacheVars, mu, pc, lookVars, ttl, now>>
      BY <2>9 DEF Commit
    <3>3. acked \in 1..Len(tables') /\ cached \in 0..Len(tables')
      BY <3>1
    <3>4. listedVer \in [Lookups -> 0..Len(tables')] /\ floor \in [Lookups -> 1..Len(tables')]
      BY <3>1
    <3>5. QED
      BY <3>1, <3>2, <3>3, <3>4
  <2>10. ASSUME NEW e \in Editors, Invalidate(e) PROVE TypeOK'
    <3>1. /\ cache' = {} /\ loaded' = FALSE /\ expiresAt' = 0 /\ cached' = 0
          /\ editing' = [editing EXCEPT ![e] = 0]
          /\ UNCHANGED <<tables, mu, pc, lookVars, ttl, now>>
      BY <2>10 DEF Invalidate
    <3>2. {} \in Table
      BY DEF Table
    <3>3. Len(tables) \in Nat
      OBVIOUS
    <3>4. acked' \in 1..Len(tables)
      BY <2>10, <3>3 DEF Invalidate
    <3>5. editing' \in [Editors -> 0..Len(tables)]
      BY <3>1, <3>3
    <3>6. QED
      BY <3>1, <3>2, <3>4, <3>5
  <2>11. CASE Tick
    BY <2>11 DEF Tick
  <2>12. CASE UNCHANGED vars
    BY <2>12 DEF vars
  <2>13. QED
    BY <2>1, <2>2, <2>3, <2>4, <2>5, <2>6, <2>7, <2>8, <2>9, <2>10, <2>11, <2>12,
       EditsCommit DEF Next, Step
<1>3. QED
  BY <1>1, <1>2, PTL DEF Spec

-----------------------------------------------------------------------------
\* Which lookups go through the cache is settled by the TTL.
Paths ==
    \A l \in Lookups :
        /\ pc[l] = "direct" => ttl = 0
        /\ pc[l] \in {"check", "lock", "list", "publish", "read"} => ttl # 0

LEMMA PathsAlways == Spec => []Paths
<1>1. Init => Paths
  BY DEF Init, Paths
<1>2. TypeOK /\ Paths /\ [Next]_vars => Paths'
  <2> SUFFICES ASSUME TypeOK, Paths, [Next]_vars PROVE Paths'
    OBVIOUS
  <2>1. ASSUME NEW l \in Lookups, NEW roles \in RoleSets, Begin(l, roles) PROVE Paths'
    BY <2>1 DEF Paths, TypeOK, Begin, Goto
  <2>2. ASSUME NEW l \in Lookups, Step(l) PROVE Paths'
    BY <2>2 DEF Paths, TypeOK, Step, Direct, Check, Refresh, List, Fail, Publish, Read, Goto
  <2>3. ASSUME NEW e \in Editors, NEW t \in Table, Commit(e, t) PROVE Paths'
    BY <2>3 DEF Paths, Commit
  <2>4. ASSUME NEW e \in Editors, Invalidate(e) PROVE Paths'
    BY <2>4 DEF Paths, Invalidate
  <2>5. CASE Tick \/ UNCHANGED vars
    BY <2>5 DEF Paths, Tick, vars
  <2>6. QED
    BY <2>1, <2>2, <2>3, <2>4, <2>5, EditsCommit DEF Next
<1>3. QED
  BY <1>1, <1>2, TypeCorrect, PTL DEF Spec

-----------------------------------------------------------------------------
(* Read your writes.  The cache, and the rows that the lookup holding the  *)
(* lock is about to publish, are those of one table no older than any      *)
(* acknowledged edit: an edit acknowledges only after Invalidate, which    *)
(* waits for the lock, so nothing listed before its commit is left.        *)

Filled == loaded => cached # 0 /\ acked <= cached /\ cache = tables[cached]
Emptied == ~loaded => cache = {}
Listed(l) ==
    pc[l] = "publish" =>
        listedVer[l] # 0 /\ acked <= listedVer[l] /\ listed[l] = tables[listedVer[l]]
Floors == \A l \in Lookups : floor[l] <= acked
Answered(l) ==
    pc[l] = "done" => Exact(l) \/ (ttl # 0 /\ answer[l] = Resolve({}, asked[l]))

CacheInv ==
    /\ Filled /\ Emptied /\ Floors
    /\ \A l \in Lookups : Listed(l) /\ Answered(l)

\* Appending a table leaves every answer that was exact exact.
LEMMA ExactStable ==
    ASSUME TypeOK, NEW l \in Lookups, NEW e \in Editors, NEW t \in Table, Commit(e, t),
           Exact(l)
    PROVE  Exact(l)'
<1>1. PICK v \in floor[l]..Len(tables) : answer[l] = Resolve(tables[v], asked[l])
  BY DEF Exact
<1>2. /\ Len(tables') = Len(tables) + 1 /\ Len(tables) \in Nat
      /\ \A w \in 1..Len(tables) : tables'[w] = tables[w]
  BY CommitAppends
<1>3. floor[l] \in Nat \ {0}
  BY DEF TypeOK
<1>4. v \in 1..Len(tables) /\ v \in floor[l]..Len(tables')
  BY <1>2, <1>3
<1>5. floor' = floor /\ answer' = answer /\ asked' = asked
  BY DEF Commit, lookVars
<1>6. answer'[l] = Resolve(tables'[v], asked'[l])
  BY <1>1, <1>2, <1>4, <1>5
<1>7. QED
  BY <1>4, <1>5, <1>6 DEF Exact, Resolve, GroupsIn

LEMMA CacheInvStep == TypeOK /\ Paths /\ CacheInv /\ [Next]_vars => CacheInv'
<1> SUFFICES ASSUME TypeOK, Paths, CacheInv, [Next]_vars PROVE CacheInv'
  OBVIOUS
<1> USE DEF CacheInv, Filled, Emptied, Floors, Listed, dbVars, cacheVars, lookVars, Goto
<1>1. ASSUME NEW l \in Lookups, NEW roles \in RoleSets, Begin(l, roles) PROVE CacheInv'
  BY <1>1 DEF Begin, TypeOK, Answered, Exact
<1>2. ASSUME NEW l \in Lookups, Direct(l) PROVE CacheInv'
  BY <1>2 DEF Direct, Answer, Current, TypeOK, Answered, Exact
<1>3. ASSUME NEW l \in Lookups, Check(l) \/ Refresh(l) \/ Fail(l) PROVE CacheInv'
  <2>1. /\ UNCHANGED <<tables, acked, cache, loaded, cached, listed, listedVer>>
        /\ UNCHANGED <<floor, asked, answer, ttl>>
    BY <1>3 DEF Check, Refresh, Fail
  <2>2. \A k \in Lookups : pc'[k] \in {"publish", "done"} => pc[k] = pc'[k]
    BY <1>3 DEF Check, Refresh, Fail, TypeOK
  <2>3. QED
    BY <2>1, <2>2 DEF Answered, Exact
<1>4. ASSUME NEW l \in Lookups, List(l) PROVE CacheInv'
  BY <1>4 DEF List, Current, TypeOK, Answered, Exact
<1>5. ASSUME NEW l \in Lookups, Publish(l) PROVE CacheInv'
  BY <1>5 DEF Publish, TypeOK, Answered, Exact
<1>6. ASSUME NEW l \in Lookups, Read(l) PROVE CacheInv'
  <2>1. /\ answer' = [answer EXCEPT ![l] = Resolve(cache, asked[l])]
        /\ pc' = [pc EXCEPT ![l] = "done"]
        /\ UNCHANGED <<dbVars, cacheVars, asked, floor, listed, listedVer, ttl>>
    BY <1>6 DEF Read, Answer
  <2>2. answer'[l] = Resolve(cache, asked[l])
    BY <2>1 DEF TypeOK
  <2>3. CASE loaded
    <3>1. cached \in floor[l]..Len(tables) /\ cache = tables[cached]
      BY <2>3 DEF TypeOK
    <3>2. floor' = floor /\ asked' = asked /\ tables' = tables
      BY <2>1
    <3>3. answer'[l] = Resolve(tables'[cached], asked'[l]) /\ cached \in floor'[l]..Len(tables')
      BY <2>2, <3>1, <3>2
    <3>4. Exact(l)'
      BY <3>3 DEF Exact, Resolve, GroupsIn
    <3>5. QED
      BY <2>1, <3>4 DEF TypeOK, Answered, Exact
  <2>4. CASE ~loaded
    <3>1. answer'[l] = Resolve({}, asked[l])
      BY <2>2, <2>4
    <3>2. (answer[l] = Resolve({}, asked[l]))'
      BY <2>1, <3>1 DEF Resolve, GroupsIn
    <3>3. QED
      BY <1>6, <2>1, <3>2 DEF TypeOK, Paths, Read, Answered, Exact
  <2>5. QED
    BY <2>3, <2>4 DEF TypeOK
<1>7. ASSUME NEW e \in Editors, NEW t \in Table, Commit(e, t) PROVE CacheInv'
  <2>1. /\ UNCHANGED <<acked, cache, loaded, cached, pc, listed, listedVer, floor>>
        /\ asked' = asked /\ answer' = answer /\ ttl' = ttl
    BY <1>7 DEF Commit
  <2>2. \A v \in 1..Len(tables) : tables'[v] = tables[v]
    BY <1>7, CommitAppends
  <2>3. Filled' /\ Emptied' /\ Floors'
    <3>1. loaded => cached \in 1..Len(tables)
      BY DEF TypeOK
    <3>2. QED
      BY <2>1, <2>2, <3>1
  <2>4. ASSUME NEW l \in Lookups PROVE Listed(l)'
    <3>1. pc[l] = "publish" => listedVer[l] \in 1..Len(tables)
      BY DEF TypeOK
    <3>2. QED
      BY <2>1, <2>2, <3>1
  <2>5. ASSUME NEW l \in Lookups PROVE Answered(l)'
    BY <1>7, <2>1, ExactStable DEF Answered, Resolve, GroupsIn
  <2>6. QED
    BY <2>3, <2>4, <2>5
<1>8. ASSUME NEW e \in Editors, Invalidate(e) PROVE CacheInv'
  BY <1>8 DEF Invalidate, TypeOK, Answered, Exact, Holding
<1>9. CASE Tick
  BY <1>9 DEF Tick, TypeOK, Answered, Exact
<1>10. CASE UNCHANGED vars
  BY <1>10 DEF vars, TypeOK, Answered, Exact
<1>11. QED
  BY <1>1, <1>2, <1>3, <1>4, <1>5, <1>6, <1>7, <1>8, <1>9, <1>10, EditsCommit
     DEF Next, Step

LEMMA CacheInvInit == Init => CacheInv
<1> SUFFICES ASSUME Init PROVE CacheInv
  OBVIOUS
<1>1. Filled /\ Emptied /\ Floors
  BY DEF Init, Filled, Emptied, Floors
<1>2. \A l \in Lookups : Listed(l) /\ Answered(l)
  BY DEF Init, Listed, Answered
<1>3. QED
  BY <1>1, <1>2 DEF CacheInv

\* Once Upsert or Delete has returned, no refresh in flight can put an older table
\* back into the cache.
THEOREM NotBehind == Spec => []CacheNotBehind
<1>1. CacheInv => CacheNotBehind
  BY DEF CacheInv, Filled, CacheNotBehind
<1>2. QED
  BY <1>1, CacheInvInit, CacheInvStep, PathsAlways, TypeCorrect, PTL DEF Spec

\* A lookup answers from one table that holds every edit acknowledged before it
\* began, or from the emptied cache.
THEOREM LookupsSound == Spec => []LookupSound
<1>1. CacheInv => LookupSound
  BY DEF CacheInv, Answered, LookupSound
<1>2. QED
  BY <1>1, CacheInvInit, CacheInvStep, PathsAlways, TypeCorrect, PTL DEF Spec

-----------------------------------------------------------------------------
(* Expiry.  What a lookup that is about to read finds in the cache was     *)
(* fresh when it checked, or was filled after that; and the cache cannot   *)
(* be fresh while a lookup holds the lock to refill it.                    *)

TimeInv ==
    \A l \in Lookups :
        /\ checkedAt[l] <= now
        /\ pc[l] = "read" /\ loaded => checkedAt[l] < expiresAt
        /\ pc[l] = "done" /\ ttl # 0 => checkedAt[l] < goodUntil[l]
        /\ pc[l] \in Holding /\ loaded => expiresAt <= now

LEMMA TimeInvStep == TypeOK /\ Paths /\ TimeInv /\ [Next]_vars => TimeInv'
<1> SUFFICES ASSUME TypeOK, Paths, TimeInv, [Next]_vars PROVE TimeInv'
  OBVIOUS
<1> USE DEF TypeOK, TimeInv, Steps, Holding, dbVars, cacheVars, lookVars, Goto
<1>1. ASSUME NEW l \in Lookups, NEW roles \in RoleSets, Begin(l, roles) PROVE TimeInv'
  BY <1>1 DEF Begin
<1>2. ASSUME NEW l \in Lookups, Direct(l) PROVE TimeInv'
  BY <1>2 DEF Direct, Paths
<1>3. ASSUME NEW l \in Lookups, Check(l) PROVE TimeInv'
  BY <1>3 DEF Check, Fresh
<1>4. ASSUME NEW l \in Lookups, Refresh(l) PROVE TimeInv'
  BY <1>4 DEF Refresh, Fresh
<1>5. ASSUME NEW l \in Lookups, List(l) PROVE TimeInv'
  BY <1>5 DEF List
<1>6. ASSUME NEW l \in Lookups, Fail(l) PROVE TimeInv'
  BY <1>6 DEF Fail
<1>7. ASSUME NEW l \in Lookups, Publish(l) PROVE TimeInv'
  BY <1>7 DEF Publish, Paths
<1>8. ASSUME NEW l \in Lookups, Read(l) PROVE TimeInv'
  BY <1>8 DEF Read, Paths
<1>9. ASSUME NEW e \in Editors, NEW t \in Table, Commit(e, t) PROVE TimeInv'
  BY <1>9 DEF Commit
<1>10. ASSUME NEW e \in Editors, Invalidate(e) PROVE TimeInv'
  BY <1>10 DEF Invalidate
<1>11. CASE Tick
  BY <1>11 DEF Tick
<1>12. CASE UNCHANGED vars
  BY <1>12 DEF vars
<1>13. QED
  BY <1>1, <1>2, <1>3, <1>4, <1>5, <1>6, <1>7, <1>8, <1>9, <1>10, <1>11, <1>12,
     EditsCommit DEF Next, Step

LEMMA TimeInvInit == Init => TimeInv
BY DEF Init, TimeInv, Holding

\* MAPPING_CACHE_TTL bounds staleness: no lookup answers from a fill that had already
\* expired when it checked.
THEOREM ExpiredNeverUsed == Spec => []NeverExpired
<1>1. TypeOK /\ TimeInv => NeverExpired
  BY DEF TimeInv, NeverExpired
<1>2. QED
  BY <1>1, TimeInvInit, TimeInvStep, PathsAlways, TypeCorrect, PTL DEF Spec

\* Of the lookups that miss together one lists the table: the second look under the
\* write lock keeps the others from replacing a fill that is still fresh.
THEOREM OneListPerMiss == Spec => NoStampede
<1>1. TypeOK /\ TimeInv =>
        \A l \in Lookups : pc[l] = "publish" /\ pc'[l] = "read" /\ loaded => now >= expiresAt
  BY DEF TypeOK, TimeInv, Holding
<1>2. QED
  BY <1>1, TimeInvInit, TimeInvStep, PathsAlways, TypeCorrect, PTL DEF Spec, NoStampede

-----------------------------------------------------------------------------
(* The cache implements RoleLookup: Begin asks, Direct and Read answer,    *)
(* Commit edits, Invalidate acknowledges, and every other step is hidden.  *)

lookups == [l \in Lookups |-> LookupOf(l)]

\* The record of a lookup that gets its answer.
AnsweredBy(asking, groups) == [asking EXCEPT !.stage = "answered", !.groups = groups]

LEMMA AnsweredRecord ==
    ASSUME NEW roles, NEW from, NEW before, NEW groups, NEW asking,
           asking = [stage |-> "asked", roles |-> roles, floor |-> from, groups |-> before]
    PROVE  AnsweredBy(asking, groups)
             = [stage |-> "answered", roles |-> roles, floor |-> from, groups |-> groups]
<1> DEFINE T == [stage : {"asked", "answered"}, roles : {roles}, floor : {from},
                 groups : {before, groups}]
           x == AnsweredBy(asking, groups)
           y == [stage |-> "answered", roles |-> roles, floor |-> from, groups |-> groups]
<1>1. asking \in T
  OBVIOUS
<1>2. x \in T /\ x.stage = "answered" /\ x.roles = roles /\ x.floor = from /\ x.groups = groups
  BY <1>1 DEF AnsweredBy
<1>3. y \in T /\ y.stage = "answered" /\ y.roles = roles /\ y.floor = from /\ y.groups = groups
  OBVIOUS
<1> HIDE DEF x, y
<1>4. x = y
  BY <1>2, <1>3
<1>5. QED
  BY <1>4 DEF x, y

\* A lookup that a step does not touch, or moves within its work on the cache.
LEMMA LookupKept ==
    ASSUME NEW l \in Lookups,
           asked'[l] = asked[l], floor'[l] = floor[l], answer'[l] = answer[l],
           \/ pc'[l] = pc[l]
           \/ {pc[l], pc'[l]} \intersect {"idle", "failed", "done"} = {}
    PROVE  LookupOf(l)' = LookupOf(l)
BY DEF LookupOf

LEMMA BeginAsks ==
    ASSUME TypeOK, NEW l \in Lookups, NEW roles \in RoleSets, Begin(l, roles)
    PROVE  Promise!Ask(l)
<1>1. /\ roles \in SUBSET Roles /\ tables' = tables /\ acked' = acked
      /\ pc[l] \in {"idle", "done", "failed"}
  BY DEF Begin, dbVars
<1>2. /\ pc'[l] \in {"direct", "check"} /\ asked'[l] = roles /\ floor'[l] = acked
      /\ answer'[l] = {}
  BY DEF Begin, Goto, TypeOK
<1>3. LookupOf(l)' = [stage |-> "asked", roles |-> roles, floor |-> acked, groups |-> {}]
  BY <1>2 DEF LookupOf
<1>4. ASSUME NEW k \in Lookups \ {l} PROVE LookupOf(k)' = LookupOf(k)
  <2>1. /\ asked'[k] = asked[k] /\ floor'[k] = floor[k] /\ answer'[k] = answer[k]
        /\ pc'[k] = pc[k]
    BY DEF Begin, Goto, TypeOK
  <2>2. QED
    BY <2>1, LookupKept
<1>5. lookups' = [lookups EXCEPT ![l] = [stage |-> "asked", roles |-> roles, floor |-> acked,
                                         groups |-> {}]]
  BY <1>3, <1>4 DEF lookups
<1>6. lookups[l].stage # "asked"
  BY <1>1 DEF lookups, LookupOf
<1>7. QED
  BY <1>1, <1>5, <1>6 DEF Promise!Ask, lookups

\* What CacheInv says of an answer is what RoleLookup asks of it.
LEMMA AnsweredPromised ==
    ASSUME NEW log, NEW from, NEW roles, NEW groups,
           \/ \E v \in from..Len(log) : groups = Resolve(log[v], roles)
           \/ groups = Resolve({}, roles)
    PROVE  groups \in Promise!Answers(log, from, roles)
<1>1. \A t : Promise!Resolve(t, roles) = Resolve(t, roles)
  BY DEF Resolve, GroupsIn, Promise!Resolve, Promise!GroupsIn
<1>2. PICK t \in {log[v] : v \in from..Len(log)} \union {{}} : groups = Resolve(t, roles)
  OBVIOUS
<1>3. QED
  BY <1>1, <1>2 DEF Promise!Answers

LEMMA ReadAnswers ==
    ASSUME TypeOK, CacheInv', NEW l \in Lookups, Direct(l) \/ Read(l)
    PROVE  Promise!Answer(l)
<1>1. /\ tables' = tables /\ acked' = acked /\ floor' = floor /\ asked' = asked
      /\ pc[l] \in {"direct", "read"} /\ pc'[l] = "done"
  BY DEF Direct, Read, Goto, TypeOK, dbVars
<1>2. answer'[l] \in Promise!Answers(tables, floor[l], asked[l])
  <2>1. Answered(l)'
    BY DEF CacheInv
  <2>2. \/ \E v \in floor[l]..Len(tables) : answer'[l] = Resolve(tables[v], asked[l])
        \/ answer'[l] = Resolve({}, asked[l])
    BY <1>1, <2>1 DEF Answered, Exact, Resolve, GroupsIn
  <2>3. QED
    BY <2>2, AnsweredPromised
<1>3. lookups[l] = [stage |-> "asked", roles |-> asked[l], floor |-> floor[l],
                    groups |-> answer[l]]
  BY <1>1 DEF lookups, LookupOf
<1>4. LookupOf(l)' = [stage |-> "answered", roles |-> asked[l], floor |-> floor[l],
                      groups |-> answer'[l]]
  BY <1>1 DEF LookupOf
<1>5. LookupOf(l)' = AnsweredBy(lookups[l], answer'[l])
  BY <1>3, <1>4, AnsweredRecord
<1>6. ASSUME NEW k \in Lookups \ {l} PROVE LookupOf(k)' = LookupOf(k)
  <2>1. pc'[k] = pc[k] /\ answer'[k] = answer[k]
    BY DEF Direct, Read, Goto, Answer, TypeOK
  <2>2. QED
    BY <1>1, <2>1, LookupKept
<1>7. lookups' = [lookups EXCEPT ![l] = AnsweredBy(lookups[l], answer'[l])]
  BY <1>5, <1>6 DEF lookups
<1>8. lookups' = [lookups EXCEPT ![l].stage = "answered", ![l].groups = answer'[l]]
  BY <1>7 DEF AnsweredBy
<1>9. /\ lookups[l].stage = "asked" /\ UNCHANGED <<tables, acked>>
       /\ answer'[l] \in Promise!Answers(tables, lookups[l].floor, lookups[l].roles)
  BY <1>1, <1>2, <1>3
<1>10. QED
  BY <1>8, <1>9 DEF Promise!Answer, lookups

LEMMA FailDrops ==
    ASSUME TypeOK, NEW l \in Lookups, Fail(l)
    PROVE  Promise!Fail
<1>1. /\ tables' = tables /\ acked' = acked /\ floor' = floor /\ asked' = asked
      /\ answer' = answer /\ pc[l] \in {"direct", "list"} /\ pc'[l] = "failed"
  BY DEF Fail, Goto, TypeOK, dbVars, lookVars
<1>2. LookupOf(l)' = Promise!NoLookup
  BY <1>1 DEF LookupOf, Promise!NoLookup
<1>3. ASSUME NEW k \in Lookups \ {l} PROVE LookupOf(k)' = LookupOf(k)
  <2>1. pc'[k] = pc[k]
    BY DEF Fail, Goto, TypeOK
  <2>2. QED
    BY <1>1, <2>1, LookupKept
<1>4. lookups' = [k \in Lookups |-> IF k \in {l} THEN Promise!NoLookup ELSE lookups[k]]
  BY <1>2, <1>3 DEF lookups
<1>5. {l} \in SUBSET {k \in Lookups : lookups[k].stage = "asked"}
  BY <1>1 DEF lookups, LookupOf
<1>6. Promise!Drop({l})
  BY <1>4 DEF Promise!Drop, lookups
<1>7. QED
  BY <1>1, <1>5, <1>6 DEF Promise!Fail, lookups

\* The steps on the lock and the cache.
LEMMA WorkHidden ==
    ASSUME TypeOK, NEW l \in Lookups, Check(l) \/ Refresh(l) \/ List(l) \/ Publish(l)
    PROVE  UNCHANGED Promise!lookupVars
<1>1. /\ tables' = tables /\ acked' = acked /\ floor' = floor /\ asked' = asked
      /\ answer' = answer
  BY DEF Check, Refresh, List, Publish, dbVars, lookVars
<1>2. ASSUME NEW k \in Lookups PROVE LookupOf(k)' = LookupOf(k)
  <2>1. \/ pc'[k] = pc[k]
        \/ {pc[k], pc'[k]} \intersect {"idle", "failed", "done"} = {}
    BY DEF Check, Refresh, List, Publish, Goto, TypeOK
  <2>2. QED
    BY <1>1, <2>1, LookupKept
<1>3. QED
  BY <1>1, <1>2 DEF Promise!lookupVars

LEMMA PromiseInit == Init => Promise!Init
<1> SUFFICES ASSUME Init PROVE Promise!Init
  OBVIOUS
<1>1. PICK t \in Table : tables = <<t>>
  BY DEF Init
<1>2. acked = 1 /\ \A l \in Lookups : LookupOf(l) = Promise!NoLookup
  BY DEF Init, LookupOf, Promise!NoLookup
<1>3. QED
  BY <1>1, <1>2 DEF Promise!Init, Promise!Table, Table

LEMMA PromiseStep ==
    TypeOK /\ CacheInv' /\ [Next]_vars => [Promise!Next]_(Promise!lookupVars)
<1> SUFFICES ASSUME TypeOK, CacheInv', [Next]_vars
             PROVE  Promise!Next \/ UNCHANGED Promise!lookupVars
  OBVIOUS
<1>1. ASSUME NEW l \in Lookups, NEW roles \in RoleSets, Begin(l, roles) PROVE Promise!Next
  BY <1>1, BeginAsks DEF Promise!Next
<1>2. ASSUME NEW l \in Lookups, Step(l)
      PROVE  Promise!Next \/ UNCHANGED Promise!lookupVars
  BY <1>2, ReadAnswers, FailDrops, WorkHidden DEF Step, Promise!Next
<1>3. ASSUME UNCHANGED <<pc, asked, floor, answer>>
      PROVE  \A l \in Lookups : LookupOf(l)' = LookupOf(l)
  BY <1>3 DEF LookupOf
<1>4. ASSUME NEW e \in Editors, NEW t \in Table, Commit(e, t) PROVE Promise!Next
  <2>1. /\ tables' = Append(tables, t) /\ acked' = acked
        /\ \A l \in Lookups : LookupOf(l)' = LookupOf(l)
    BY <1>3, <1>4 DEF Commit, lookVars
  <2>2. Promise!Edit
    BY <2>1 DEF Promise!Edit, Promise!Table, Table
  <2>3. QED
    BY <2>2 DEF Promise!Next
<1>5. ASSUME NEW e \in Editors, Invalidate(e) PROVE Promise!Next
  <2>1. /\ tables' = tables /\ acked' \in acked..Len(tables)
        /\ \A l \in Lookups : LookupOf(l)' = LookupOf(l)
    BY <1>3, <1>5 DEF Invalidate, lookVars, TypeOK
  <2>2. Promise!Acknowledge
    BY <2>1 DEF Promise!Acknowledge
  <2>3. QED
    BY <2>2 DEF Promise!Next
<1>6. CASE Tick \/ UNCHANGED vars
  BY <1>3, <1>6 DEF Tick, vars, dbVars, lookVars, Promise!lookupVars
<1>7. QED
  BY <1>1, <1>2, <1>4, <1>5, <1>6, EditsCommit DEF Next

\* Whatever fills, expiries, errors and edits come between its three locks, a lookup
\* through the cache keeps RoleLookup, which is all that the logins rely on.
THEOREM CacheImplementsLookup == Spec => KeepsPromise
<1>1. Spec => [](TypeOK /\ CacheInv)
  BY CacheInvInit, CacheInvStep, PathsAlways, TypeCorrect, PTL DEF Spec
<1>2. QED
  BY <1>1, PromiseInit, PromiseStep, PTL DEF Spec, KeepsPromise, Promise!Spec
=============================================================================
