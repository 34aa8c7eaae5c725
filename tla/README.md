# Verification of discord-forward-auth

discord-forward-auth is a ForwardAuth service for Traefik: it logs people in with
Discord, maps their guild roles to groups, keeps a server-side session in Postgres and
answers, for every request to a protected host, whether the session's groups may see that
host. This directory holds TLA+ modules of it, TLC configurations that check them on small
instances, and theorems proved with TLAPS for every value of the constants. Paths below
are relative to the repository's root (`src/` in PROJECT.json).

## 1. Inventory

| Component | State | Operations | Talks to |
|---|---|---|---|
| HTTP handlers, `internal/httpapi/server.go` | none of their own; the locals of each request | ForwardAuth (`/`), `/_oauth`, `/_oauth/logout`, `/api/me`, admin API | all stores, Discord client |
| CSRF, cookies, state, return URL, `internal/httpapi/{cookies,state,redirect}.go` | two cookies in the browser: session, CSRF | set/clear, encode/decode state, safe return | handlers |
| Session store, `internal/session` | table `auth_sessions` | Create, GetValid, Touch, Revoke, RevokeUser, DeleteExpired | Postgres; handlers, cleanup goroutine |
| Mapping store and cache, `internal/mapping` | table `role_group_mappings`; in memory `cache`, `guildID`, `expiresAt` under an RWMutex | List, Upsert, Delete, GroupsForRoles, InvalidateCache, refresh | Postgres; handlers, resolver |
| Role resolver, `internal/authz` | none | GroupsForRoles, HasGroup | mapping cache |
| Host policies, `internal/hostpolicy` | table `host_group_policies` | ValidatePattern, MatchHost, BestMatch, Allowed; List, Get, Match, Upsert, Delete | Postgres; handlers |
| Audit history, `internal/audit` | table `audit_events` (append only) | Append, List | Postgres; handlers |
| Discord client, `internal/discord` | none (the code is single-use at Discord) | ExchangeCode with retries, GetMe, GetGuildMember | Discord |
| Configuration, `internal/config` | read once at startup | Load, validate, HostAllowed, NormalizeHost | all |
| Process, `cmd/discord-auth/main.go` | goroutines: server, 15-minute cleanup | startup, cleanup, shutdown with a 10 s drain | all |
| Migrations, `migrations` | table `schema_migrations` | Run | Postgres |
| Web UI, `web`; deployment, `deploy` | - | - | admin API |

How they interact: one goroutine per request; the handlers share nothing but the stores.
Every store call of Postgres is one statement in a transaction of its own, so a handler is
a sequence of atomic steps between which any other handler can run. The mapping cache is
the only shared memory. The Go clock and the database's clock are both used for sessions.

What makes each component correct:

* *Sessions.* An id authenticates one user, ends for good, ends only because it was revoked
  or expired, lives no longer than `SESSION_TTL`, and its row is collected at last.
* *Mapping cache.* Read your writes after an edit was acknowledged; never an expired fill;
  one List per miss; no path that leaves the lock held.
* *Host policies.* The answer of matching does not depend on the order of the table; a
  policy governs only hosts under `COOKIE_DOMAIN`, never `AUTH_HOST`.
* *Handlers.* A kick that was acknowledged holds; a policy edit applies to the next
  request; only admins mutate; the audit history tells no lies and misses nothing; a login
  gets a session of its own with the groups its roles map to.
* *Logins in browsers.* A browser is signed in only by a login that it began, and goes back
  to where that began; one consent opens one session; a login in progress and a live
  session cookie are changed by nothing that is not meant to change them.
* *Discord client.* An answer of Discord's API is final; every call ends.
* *Migrations.* Scripts take effect once, in order, together with their row; nobody serves
  without its tables; starting at once blocks nobody for good.
* *Audit history.* Its order is the order of what happened one after the other; who pages
  to the end misses nothing.

What is hard: handlers interleave between any two store calls; a statement can commit and
still report an error; the process can stop between two steps; an edit of the mappings
commits before it takes the cache's lock, and a lookup takes that lock three times; the
cleanup runs beside everything; two clocks; several processes on one database; browsers
that send one request while the answer to another is on its way, for all tabs with the same
two cookies; Discord, which may act on a request whose answer is lost. PROJECT.json lists
each such place under `hazards`, with the properties that cover it.

## 2. Modules

    BestMatchMC, BestMatchProofs  EXTEND  BestMatch  EXTENDS  HostAccess  EXTENDS  Authz
    MappingCacheProofs            EXTENDS MappingCache                    EXTENDS  Authz
                                          MappingCache INSTANCEs RoleLookup (refinement)
    AuthServerMC, AuthServerProofs EXTEND AuthServer EXTENDS  HostAccess
                                          AuthServer INSTANCEs SessionContract
    RoleLookup                                                            EXTENDS  Authz
    SessionStoreProofs            EXTENDS SessionStore INSTANCEs SessionContract (refinement)
    OAuthLoginMC, OAuthLoginProofs EXTEND OAuthLogin EXTENDS  HostAccess, DiscordClient
    ServiceMC                      EXTENDS Service   EXTENDS  Migrations, AuditHistory
    ServiceProofs                  EXTENDS Service, MigrationsProofs, AuditHistoryProofs

**SessionContract** is what the store promises: `holder[i]` is the identity that id `i`
authenticates, an id is opened at most once, and what has ended stays ended.

**SessionStore** models `internal/session/postgres.go` and the cleanup goroutine. `rows` is
the table; `Create` is two steps, because it draws the id and computes the expiry from the
Go clock (`BeginCreate`) before it inserts (`Insert`, or `InsertFails`), and any statement
may run between. `GetValid` reads only and is the predicate `Valid`. The groups of a row are
left out here: no statement changes them (AuthServer carries them). `appNow` and `dbNow`
differ by at most `MaxSkew`. `KeepsContract` is the refinement of SessionContract under the
mapping `HolderOf`.

**Authz** holds the resolver: a table of pairs, the groups for a set of roles, the bootstrap
role. **MappingCache** models `CachedStore` lock by lock: `Check` (first read lock),
`Refresh` (write lock, second look), `List` (the query under the lock), `Publish`, `Fail`,
`Read` (second read lock), and for edits `Commit` followed by `Invalidate`. With TTL 0,
`Direct` is the uncached query. Since read locks are held for one step only, the lock's
state is `mu`, the lookup that holds the write lock across the query.

**RoleLookup** is what the mapping cache of one process promises: a lookup asks for the
groups of roles, and is answered (`Answer`) from one table, no older than `floor`, the
newest whose edit had been acknowledged when it asked, or from the empty cache that an edit
leaves; it may also get no answer (`Fail`). Edits are committed (`Edit`) and acknowledged
(`Acknowledge`); a process that restarts (`Restart`) begins without a cache, so all that was
committed counts as acknowledged. MappingCache implements it (`KeepsPromise`, under the
mapping `LookupOf`: a lookup is "asked" wherever it is between the locks). The operator
`Answers`, in Authz, is that promise; AuthServer *assumes* it of each process. An edit made
at another process is, to this cache, a commit that no acknowledgement follows: it is
bound by the expiry of the fill only (`NeverExpired`).

**HostAccess** has names as sequences of labels, the validity of patterns, `MatchHost`,
`Specificity`, `HostAllowed`, the admin API's checks (`Settable`) and the decision
(`Allowed`), and says what matching comes to (`Governing`). **BestMatch** is the loop over
the stored policies, one iteration per step, over every order of the list; on equal scores
it may keep either, so the comparison of strings needs no model. Names are what
`NormalizeHost` leaves of a spelling: the code normalises every host and pattern before it
compares.

**AuthServer** composes the handlers with what the stores promise: sessions follow
SessionContract (through `INSTANCE`, so a handler can only do what the store allows), a
policy lookup finds the `Governing` pattern, and a role lookup answers what RoleLookup
allows, the emptied cache included. Several processes serve one database, each with a cache
of its own: `acked[p]` is the newest table whose edit emptied the cache of `p`, and a request
runs `at` one process, any. A request is a record with a program counter; the steps are:

| Step | Code |
|---|---|
| `ForwardSession`, `Decide`, `DecideError` | `handleForwardAuth`, `hostAccessAllowed` |
| `AdminSession` | `requireAdmin`, `requireSameOrigin` |
| `UpsertPolicy`, `DeletePolicy`, `EditMapping`, `Invalidate`, `RevokeUser`, `MutationFails` | the mutating admin handlers |
| `LogoutSession`, `Logout` | `handleLogout` |
| `Discord`, `ResolveRoles`, `CreateSession`, `CreateFails` | `handleOAuthCallback` |
| `SessionError` | GetValid reports an error |
| `Audit` | `recordAudit`, then the response (and, of a login, its cookie) |
| `Lapse` | a session expires |
| `Crash` | a process stops with requests in flight, its cache is lost |

`Committed` and its like in `EditMapping` and `CreateSession` are the statement that took
effect and still reported an error. The history variables of AuthServer (`hist`, `acked`, `kicked`, the logs
`policies` and `mappings`) exist only to state properties: no guard reads them but
`Lookup`, which stands for the cache of the request's process. A process that restarts idle
loses its cache only, which lets its lookups find fewer tables, so `Crash` is of one that has
requests.

**DiscordClient** is `internal/discord/client.go` against Discord's token endpoint. `call` is
where each caller is: `ExchangeCode` posts, `Receive` and `GiveUp` are the two ends of an
attempt (an answer; a transport error or the 15 s), `Retry`, `PostAgain` and `Cancel` the
loop, `GetMe` and `GetGuildMember` what follows. `spent` are the codes that Discord has
redeemed, `late` those of requests that were given up and that Discord may yet process.

**OAuthLogin** is a login as browsers see it. The handlers keep nothing between requests; the
state is in `jar`, the two cookies of each browser, and in `req`, the requests in flight: a
request carries the cookie of the moment it was sent, its answer (`set`) changes the jar at
the moment it arrives (`Deliver`), or never (`Lose`). States, codes and session ids are
random in the code and only ever compared for equality: they are numbers here, in the order
in which they are made. `minted`, `grants` and `opened` remember what each was made for. What
a state carries is the host of the return; its path, which `SafeReturnPath` parses and
nothing else depends on, is left out. A login by `/?rd=` names no host, which is a visit of
AUTH_HOST here: both return to AUTH_HOST.

| Action | Code |
|---|---|
| `ForwardAuth`, `Unauthenticated`, `ForwardAuthFails` | `handleForwardAuth`, `unauthenticated`, `redirectToLogin`; 503 and 500 |
| `Logout` | `handleLogout` |
| `Callback`, then the actions of DiscordClient | `handleOAuthCallback` up to GetGuildMember |
| `LoginFails`, `LoginSucceeds` | its ends: an error, no groups; a session, its cookie, `ReturnURL` |
| `Send`, `SendCallback`, `Grant`, `Deliver`, `Lose`, `Forget` | browsers and the consent page |
| `EndSession`, `Crash` | expiry or a kick; the process dies |

A callback whose cookie equals its state carries a state that this service made, so
`decodeState` cannot refuse it: `TypeOK` says so of every state (`Decodes`), and Callback has
no such branch. Which member has which groups is AuthServer's matter: here a member may
always fail to get a session.

**Migrations** is `Run` statement by statement, in processes with different numbers of
scripts. A script and its row are one transaction (`Apply`, `Record`, `Commit`), the check
before it is not. Two transactions that create the same objects do not overlap in Postgres:
the second waits in `Apply`; `CREATE TABLE IF NOT EXISTS`, though, may fail when two sessions
create the table at once (`CreateRegistry`). `Fail` is any error, SIGTERM or a crash: the
process exits, as `main.go` does. `refused` and `again` are history.

**AuditHistory** has `Append` as Postgres executes it (`StartInsert` takes `now()`, `DrawId`
the sequence's next value, `CommitInsert` makes the row visible) and `List` as `Count` and
`Select`, under a client that pages by the limit of the answer until no more is announced.
The UI's page size is a limit the server does not change, so for it the two are the same. An
INSERT whose handler has given up or died may commit later (`CommitLate`), and one that the
database had not begun by then may even begin later (`StartLate`), with a later `now()`.

**Service** composes the two: processes start, migrate, serve, drain and die, and each
request in flight is `at` one of them. `Stop` is a crash, or the end of the drain, in which
the requests in flight die with the process.

## 3. Runs

| Run | Question | Instance |
|---|---|---|
| `SessionStore` | Do Touch, late inserts, kicks and cleanup keep the contract, the bound on lifetimes and the collection of rows? | 2 ids, 2 users, TTL 2, skew 1, time to 4 |
| `MappingCache` | Is the cache sound and live under concurrent lookups and edits, and what a login relies on? | 2 lookups, 2 editors, TTL 0 and 1, 3 tables, time to 1 |
| `MappingCacheRace` | *violated*: is an empty answer always due to the table? | as above, 2 tables |
| `BestMatch` | Does the loop find the governing policy in every order? | every order of at most 3 of the settable patterns up to 2 labels below the domain, 17 hosts |
| `AuthServer` | Kicks, logouts, logins and mapping edits together: whom does an acknowledged kick bind? | 2 processes, 3 requests, each one of 6 calls, 3 session ids, 2 users |
| `AuthServerPolicy` | Policy edits beside ForwardAuth, refused edits, hosts outside COOKIE_DOMAIN | 1 process, 3 requests, 3 patterns, one of them outside the domain |
| `AuditGap`, `LogoutKept`, `KickRace` | *violated*: three sentences of the documentation | 1 process, 3 requests |
| `OAuthLogin` | Tabs, browsers, lost and late answers, a retrying client and a single-use code | 2 requests in flight, 2 browsers, 3 hosts, 2 states, 1 code, 2 sessions |
| `CsrfClobber` | *violated*: does a sub-resource leave the CSRF cookie alone? | as above, a browser without Fetch Metadata |
| `Service` | Two releases start at once, migrate, serve and die, under changes and paging | 2 processes with 1 and 2 scripts, 1 failure, 2 changes, 1 client, pages of 1 and 2, 1 tick |

Why the bounds are enough. *Sessions:* the statements touch one row, or all rows by a
condition on each row alone, so two ids of equal or different users show every interaction;
TTL 2 with skew 1 and time to 4 lets a session be opened, expire exactly at now(), after
it, and be collected, on either clock. *Cache:* two lookups collide on the double check, two editors put
acknowledgements out of order, three tables separate "stale", "current" and "in flight", and
one tick with TTL 1 reaches expiry; the proofs of section 5 are for any number of each.
*Matching:* at most two stored patterns match one host, so lists of three contain both and
one that does not match. *Handlers:* what goes wrong between handlers goes wrong with the
request observed, one that changes what it has read, and one that set this up: three
requests. The admin's session is there at the start, and where logins are not the question
another one is (`MCHolder`); in the run `AuthServer` the developer's sessions are those that
the run opens, so that each has a login to be held against.
Two processes are the one whose cache an edit empties and one whose it does not; policies and
sessions are read from the database, so one process does for the other runs. Requests are
interchangeable until they begin, and so are processes, which start alike and are chosen
freely; no property or constant names one: `Reorder` is a symmetry (of the writers, in
Service). No run with liveness uses it.
*Logins:* the slots of `req` are used again, so two requests in flight are any number one
after the other, and every race here is between two answers, or an answer and a handler. Two
states let a second login begin, in the same browser or the other. One code, sent as often
as the behaviour likes, is what single use is about; a second one would only have a session
of its own. One of the hosts is outside `COOKIE_DOMAIN`: its cookies stay away. `b2` begins
with the cookie of a session that has ended (`Returning`), so that an answer which clears it
can race a first login. When `MaxStates` states have been made a login navigation can only
fail with 500. *Service:* two processes collide in every statement of `Run`, and one release
is newer; two changes have an order and two INSERTs; one tick of the database's clock gives
them the same time or different ones. *Deadlock.* It is not checked where a bounded run
really ends: time stops, every request is done, or the list is exhausted. It is checked of
OAuthLogin and Service, which never stop.

Fairness. `SessionStore!FairSpec`: both clocks advance and the cleanup ticker keeps firing
and its DELETE succeeds at last (`main.go` retries on the next tick). `MappingCache!FairSpec`: `sync.RWMutex` starves
neither readers nor writers (a waiting writer blocks later readers), hence strong fairness
of steps that need the lock; a query answers or fails. The last one is an assumption on
Postgres: `refresh` holds the write lock during `List` with the request's context only,
which has no deadline of its own, so `LookupsReturn` and `EditsReturn` say that no *path of
the code* keeps the lock, not that a hung connection cannot. `OAuthLogin!FairSpec`: the handlers run,
which includes that each request to Discord ends, with or without an answer, since the
client's timeout is 15 s; nothing is assumed of Discord, of browsers or of the consent page.
AuthServer and Service have safety properties only: no fairness is assumed.

What the runs show beyond "it passes":

* `EndedRowsCollected`: a row whose expiry equals now() is neither valid (`>`) nor
  collectable (`<`); the next tick resolves it, and the run shows that it always does.
* `LookupSound` is as strong as the code allows, and `NoSpuriousDenial` (violated) is the
  sentence one would want: between `refresh` and the second read lock an edit can empty the
  cache, and the lookup then finds no groups. A member in good standing who logs in at that
  moment gets 403 "no authorized groups", which `docs/discord-setup.md` explains by the
  roles alone. The answer is too small, never too large.
* `SessionsJustified` contradicts one line of the documentation:
  `docs/discord-setup.md:107` explains ForwardAuth's 403 "forbidden" by "Session exists but
  carries zero groups". No session does: the callback refuses a login without groups
  (`server.go:333`) before it creates one. The check in `handleForwardAuth` never fires, and
  the 403 that users see is that of the host's policy (`server.go:190`), which that table
  does not name. The property states what the code does, so it is no violated run.
* `OpensOwnDomain` relates three checks in three files: what the admin API stores
  (`Settable`), what a stored wildcard matches (`Governing`), and what is decided when nothing
  matches. The run tries to store a policy for a host outside the domain and asks for it.
  That no settable pattern matches such a host is `GovernsOwnDomain`, which is proved only
  (`GovernedUnderDomain`): `OpensOwnDomain` would fail with it.
* `KickAppliesMappings` (violated): a login that resolved its roles before an edit can
  create its session after the kick that was to enforce the edit, and keeps the old groups
  for up to `SESSION_TTL`. `KickEffective` (holds) says what a kick does ensure: the
  sessions that existed when it began are gone for good. `KickEndsStaleSessions` (holds) says
  what is left of the refuted sentence: of the sessions that the kicked user has afterwards,
  only those of logins that were between Discord and their session when the kick began can
  carry groups of an older table than the edits by then acknowledged. Acknowledged means
  here: at the login's own process. An edit made at another process is known to this one
  only when its cache expires, as the code empties one cache only; the documentation says
  nothing of several processes.
* `LogoutRevokes` and `EveryMutationAudited` (violated): `handleLogout` drops the error of
  `Revoke`, `recordAudit` only logs the error of `Append`; the caller is told success.
* `LoginsUndisturbed` says what may change the CSRF cookie: another login page, or an
  accepted callback. Both can end a login in progress in another tab: its callback then
  answers 403 "invalid state" or "login session expired", which `docs/discord-setup.md`
  explains by `COOKIE_DOMAIN`, ten minutes or a reload only. For an accepted callback it is
  the answer that clears the cookie, so a slow one clears that of a login begun after it.
* `ClearsOnlyDead` holds with the exception that it names: an answer 401 to a request that
  was sent with an older cookie clears the newer one that a login has set meanwhile.
* `SubresourcesSpareCsrf` (violated): without Fetch Metadata `Accept: */*` counts as a
  navigation. With Fetch Metadata it holds: it is the `kind = "page"` in `LoginsUndisturbed`.
* `README.md:65` says that with a cookie of the wrong domain the callback answers "403
  invalid state"; as the cookie is then absent, the code answers "login session expired".
* `NotAllRefused`: processes that start at once can refuse each other (the loser of a race
  exits and is up to whoever restarts it), but one always gets through.
* `NothingSkipped`: a page shifts with each event added, towards events already seen, so
  some are shown twice and none is missed. Only the last page can be short of an event, when
  the total was counted before one was added and the page was selected after.
* `HistoryRespectsTime` needs both keys of ORDER BY: within one tick ids decide, and an
  INSERT that commits after its handler gave up can have a later id than a later change's,
  which is its exception. A change whose handler gave up, or died, before its INSERT had begun
  is no "answered" one for it: should that INSERT begin after all, it takes the time of then,
  and the history names that change after one that followed it. It assumes that `now()` of
  Postgres does not go back.

## 4. Findings

The five violated runs; see `findings` in PROJECT.json for the lines and the sentences they
contradict. None is silent data corruption: each is a partial failure, an interleaving or an
older client whose outcome the documentation does not mention. Section 3 notes smaller
disagreements with `docs/discord-setup.md` and `README.md` that passing runs bring out.

## 5. Proofs

All theorems are for every value of the constants under the named ASSUMEs of the modules
(what the constants are, e.g. that the sentinel values are no session rows, that the API
stored only settable patterns, that COOKIE_DOMAIN is a DNS name).

* **SessionStoreProofs**: `TypeCorrect`, `LifetimeBounded`, `EndsForCause`, `ContractKept`,
  `KicksAreOfOneUser`.
  The invariant behind the lifetime says how each row's and each draft's expiry relates to
  the history `drawnAt`, plus the skew of the clocks: `BoundedLifetime` alone is not
  inductive, since Insert turns a draft about which it says nothing into a row.
  `ContractKept` is the refinement: each step maps to an Open, an End or a stutter.
  `KicksAreOfOneUser` shows that of the steps in which no time passes, only a revocation ends
  a session: by its id, or by its user.
* **MappingCacheProofs**: `TypeCorrect`, `NotBehind`, `LookupsSound`, `ExpiredNeverUsed`,
  `OneListPerMiss`, `CacheImplementsLookup`. `CacheNotBehind` is inductive only with what is known of a lookup inside the lock: while it
  has listed and not published, no edit can be acknowledged, since Invalidate needs the same
  lock; so what it listed is never older than `acked`. `LookupsSound` then needs a fact per
  step of each lookup (its floor is at most `acked`). `OneListPerMiss` holds since whoever
  is about to publish found the cache stale under the lock it still holds.
  `CacheImplementsLookup` is the refinement of RoleLookup: `Begin` asks, `Direct` and `Read`
  answer (`LookupSound` after the step is what the answer needs), `Fail` drops, `Commit`
  edits, `Invalidate` acknowledges, and everything between the locks is a stutter.
* **BestMatchProofs**: `TypeCorrect`, `LoopFindsGoverning` and `GovernedUnderDomain`, for
  lists of any length. The loop invariant: the best so far is the governing pattern of the
  prefix read. The lemmas say that a host matches only its own name and one wildcard, and
  that an exact name scores higher. The score of a wildcard of over a thousand
  labels could beat an exact one, but a wildcard that matches has as many labels as the host,
  so no bound on lengths is needed.
* **AuthServerProofs**: `TypeCorrect`, `AdminsMutate`, `AuditTruthful`, `KicksHold`,
  `DecisionsAreCurrent`, `OwnDomainOnly`, `LoginsGetTheirSession`, `KicksEndStaleSessions`,
  for any number of requests, processes, ids, policies and edits. The inductive invariants
  are:
  - `AdminInv`: an admin request past its session check carries an admin's identity and the
    right origin, and whatever it is about to audit has happened.
  - `KickInv`: targets of a finished kick are ended, and ended is for ever; a request that
    began on a kicked id never leaves its session check but with an answer.
  - `PolicyInv`: every table ever current has rows of settable patterns only
    (`RowsSettable`), and whoever decided did so by a table of its own interval
    (`DeciderOK`). The witness is the table that is current at the one step `Decide`; it
    stays among `since..Len(policies)` since tables are only appended. `OwnDomainOnly` needs
    the lemma `GovernedAllowed`: a wildcard stands for one label and COOKIE_DOMAIN has none,
    so a host that a settable pattern governs is itself under the domain.
  - `LoginInv`: no two requests name the same session (`OwnSessions`), every session carries
    groups (`Carrying`), and a login names its session from the moment it is there
    (`LoginOK`). `SessionsJustified` speaks of finished logins only and is not inductive.

  - `FoundInv` and `SpareInv`, for `KicksEndStaleSessions`: the groups that a login carries
    are still among the answers it might have got, as tables are only appended; and whoever
    has asked Discord, or has a session, while a kick of its user is under way or done, was in
    flight when the kick began, or asked no earlier than that, or its session is a target of
    the kick or ended. The targets of an acknowledged kick are ended (`KickerOK`), which
    leaves the first two.
* **MigrationsProofs**: `MigrationsTyped`, `MigrationsSafe` (with `ScriptsOnce`,
  `ScriptsInOrder` and `ServersMigrated`, its parts), `SomeoneGetsThrough`, for any processes
  and scripts. `MigInv` adds that two processes are never inside the transaction
  of one script, and that a process has behind it the scripts below its own. `RefusalInv`
  says that whoever committed last is not refused: all that it has checked still holds.
* **AuditHistoryProofs**: `HistoryTyped`, `HistoryInOrder`, `PagingSkipsNothing`, for any
  number of writers and readers. `OrderInv` carries the order through the steps of an
  INSERT, the late ones included; `WalkInv` says that events that are not yet on a page rank at least `offset`,
  which stays true as ranks only grow.
* **ServiceProofs**: `ImplementsMigrations` and `ImplementsHistory` are refinements: the
  service's steps are steps or stutters of both specifications, so what is proved of these
  holds of it (`ServiceSafe`). `RequestsFindTables` is its own.
* **OAuthLoginProofs**: `LoginsTyped`, `LoginsAreOwn`, `LiveCookiesStay`, `LoginsGoOn`,
  `CodesOpenOnce`, `RetriesOnlyUnanswered`, for any hosts, browsers and numbers of requests.
  `LoginInv` says of each request in flight what its handler has checked and what its answer
  will do (`CallbackOK`, `CsrfOK`, `SessOK`): a cookie changes when the answer arrives, but
  was decided upon when the handler ran. `CodeInv` says that one caller at most has the token of a code, and none
  that of a code that has opened a session. `LoginsGoOn` assumes that no sub-resource looks
  like a navigation, as `CsrfClobber` shows it must.

Left to TLC: the liveness properties (`LookupsReturn`, `EditsReturn`, `EndedRowsCollected`,
`RequestsAnswered`), whose fairness needs ENABLED. Every safety property of a passing run,
and every refinement, is a theorem.

## 6. Not modelled, and why

* `Touch` in AuthServer: it changes no session's validity, which SessionStore shows.
* The reading handlers (`/api/me`, the lists of mappings and policies): one statement, no
  state changed, nothing that relates two pieces of state.
* Return paths: `SafeReturnPath` is parsing of one string.
* Spelling: trimming, case, ports, JSON. Hosts are compared after `NormalizeHost`.
* Loading and validation of the configuration: once, before anything else; what they
  guarantee is in the ASSUMEs (`LabelsAssumption`, `LoginAssumption` for SINGLE_HOST).
* The MaxAge of the session cookie is truncated to seconds, so a browser may drop the cookie
  up to a second before its session expires; `Forget` drops it once the session is over. The
  server's own expiry, `BoundedLifetime`, decides in any case.
* The in-memory stores are test doubles; client addresses are parsed for the audit details
  only; the web UI (but for its paging), the container files and CI have no concurrent
  behaviour of this service.

## 7. Plan

Done, in this order: SessionContract and SessionStore; Authz and MappingCache; HostAccess
and BestMatch; AuthServer over the contracts of the three; DiscordClient and OAuthLogin;
Migrations, AuditHistory and their composition, Service; RoleLookup, which MappingCache
implements; AuthServer over several processes; the proofs of section 5.

Left, the most important first:

1. AuthServer assumes of a role lookup what MappingCache is shown to promise (`Answers`);
   a composition of the two, with a cache in each process, would make that a result. Their
   product is too large for TLC but on the smallest instance.
2. AuthServer and OAuthLogin both open and end sessions: that each implements
   SessionContract, as SessionStore does, could be a theorem of each.
3. OAuthLogin and AuthServer model the callback from two sides (browsers and Discord; roles,
   stores and the audit history). A composition in which a login of OAuthLogin takes the
   steps of AuthServer would join them; TLC can only check very small instances of it.
