----------------------------- MODULE AuthServer -----------------------------
(***************************************************************************)
(* The request handlers (internal/httpapi/server.go) composed with what    *)
(* the stores promise.  Every request runs in its own goroutine and each   *)
(* call of a store is one step, so handlers interleave between any two     *)
(* calls; a call may fail with no effect, or take effect and still report  *)
(* an error.  Several processes serve one database, each with a mapping    *)
(* cache of its own, and any of them may crash between any two steps.      *)
(*                                                                         *)
(* What a store does is taken from its contract: sessions keep             *)
(* SessionContract (SessionStore implements it), a policy lookup finds the *)
(* Governing pattern (BestMatch does), and a role lookup finds one of the  *)
(* Answers of RoleLookup (MappingCache implements it) at its own process.  *)
(***************************************************************************)
EXTENDS HostAccess

CONSTANTS
    Requests,   \* the requests of a behaviour; each is made at most once
    Processes,  \* the processes that serve them, on one database
    Calls,      \* what a request may ask for
    Ids, Users, Groups, Roles,
    Patterns,   \* the host patterns that policies may be stored under
    Unopened, Ended, NoOne, NoCookie,
    HolderAtStart, PoliciesAtStart, MappingsAtStart  \* contents of the database

AdminKinds == {"upsertPolicy", "deletePolicy", "upsertMapping", "deleteMapping", "revoke"}
Kinds == AdminKinds \union {"forward", "logout", "login"}

Identity == [user : Users, groups : SUBSET Groups]

\* user is the one who logs in or is kicked; host is X-Forwarded-Host or a pattern.
Call == [kind : Kinds, cookie : Ids \union {NoCookie}, sameOrigin : BOOLEAN,
         user : Users, roles : SUBSET Roles, host : Name, groups : SUBSET Groups,
         pair : Roles \X Groups]

PolicyTable == [Patterns -> SUBSET Groups]   \* {} where there is no row

ASSUME ServerAssumption ==
    /\ Calls \subseteq Call /\ Calls # {}
    /\ Patterns \subseteq Name
    /\ \A c \in Calls : c.kind = "upsertPolicy" /\ Settable(c.host) => c.host \in Patterns
    /\ HolderAtStart \in [Ids -> Identity \union {Unopened}]
    /\ \A i \in Ids : HolderAtStart[i] # Unopened => HolderAtStart[i].groups # {}
    /\ PoliciesAtStart \in PolicyTable
    /\ \A p \in Patterns : PoliciesAtStart[p] # {} => Settable(p)
    /\ MappingsAtStart \subseteq Roles \X Groups
    /\ {Unopened, Ended, NoOne} \intersect Identity = {} /\ Unopened # Ended
    /\ NoCookie \notin Ids /\ AdminGroup \in Groups

VARIABLES
    holder,     \* the session table, as SessionContract sees it
    policies,   \* history: the contents of host_group_policies, the last is current
    mappings,   \* history: the contents of role_group_mappings, the last is current
    acked,      \* history, per process: the newest mapping table whose edit emptied its cache
    audited,    \* the requests that have an event in audit_events
    delivered,  \* the cookies that browsers have been given
    kicked,     \* history: sessions that an acknowledged kick or logout was to end
    req,        \* per request: the handler's locals and its response
    hist        \* history, per request: see Fresh

vars == <<holder, policies, mappings, acked, audited, delivered, kicked, req, hist>>

Sessions == INSTANCE SessionContract WITH Identities <- Identity

Steps == {"new", "session", "decide", "mutate", "invalidate", "discord", "resolve",
          "create", "denied", "audit", "done"}
LoginSteps == {"discord", "resolve", "create", "denied"}
Responses == {"none", "ok", "unauthenticated", "forbidden", "unavailable", "rejected",
              "notFound", "lost"}

\* effect: the mutation took place; since: the newest policy table when it began;
\* floor, of a login: what its process had acknowledged when it asked for its groups;
\* version: the mapping table it installed; doomed: its session had been kicked before it
\* began; of a kick or logout, targets: whom it is to end; and of a kick, when it began,
\* flight: the logins that had asked Discord and had no session, acks: acked.
Fresh == [effect |-> FALSE, since |-> 1, floor |-> 1, version |-> 1, doomed |-> FALSE,
          targets |-> {}, flight |-> {}, acks |-> [p \in Processes |-> 1]]

AnyCall == CHOOSE c \in Calls : TRUE   \* until the request begins

Kind(r) == req[r].call.kind
Finished(r) == req[r].pc = "done"
Active(r) == req[r].pc \notin {"new", "done"}
Last(log) == log[Len(log)]

StoresTyped ==
    /\ Sessions!TypeOK
    /\ policies \in Seq(PolicyTable) /\ policies # <<>>
    /\ mappings \in Seq(SUBSET (Roles \X Groups)) /\ mappings # <<>>
    /\ acked \in [Processes -> 1..Len(mappings)]
    /\ audited \subseteq Requests /\ delivered \subseteq Ids /\ kicked \subseteq Ids

\* at: the process that the request is sent to.
Locals == [at : Processes, pc : Steps, call : Call, who : Identity \union {NoOne},
           groups : SUBSET Groups, sid : Ids \union {NoCookie}, resp : Responses]

RequestsTyped ==
    /\ req \in [Requests -> Locals]
    /\ \A r \in Requests :
         /\ Finished(r) <=> req[r].resp # "none"
         /\ req[r].pc = "decide" => Kind(r) = "forward" /\ req[r].who # NoOne
         /\ req[r].pc \in LoginSteps => Kind(r) = "login"
         /\ Kind(r) \in AdminKinds /\ req[r].pc \in {"mutate", "invalidate", "audit"}
              => req[r].who # NoOne

HistoryTyped ==
    hist \in [Requests -> [effect : BOOLEAN, since : 1..Len(policies),
                          floor : 1..Len(mappings), version : 1..Len(mappings),
                          doomed : BOOLEAN, targets : SUBSET Ids,
                          flight : SUBSET Requests,
                          acks : [Processes -> 1..Len(mappings)]]]

TypeOK == StoresTyped /\ RequestsTyped /\ HistoryTyped

-----------------------------------------------------------------------------
Init ==
    /\ holder = HolderAtStart
    /\ policies = <<PoliciesAtStart>> /\ mappings = <<MappingsAtStart>>
    /\ acked = [p \in Processes |-> 1]
    /\ audited = {} /\ kicked = {}
    /\ delivered = {i \in Ids : HolderAtStart[i] # Unopened}
    /\ \E at \in [Requests -> Processes] :
         req = [r \in Requests |-> [at |-> at[r], pc |-> "new", call |-> AnyCall, who |-> NoOne,
                                    groups |-> {}, sid |-> NoCookie, resp |-> "none"]]
    /\ hist = [r \in Requests |-> Fresh]

Goto(r, step) == req' = [req EXCEPT ![r].pc = step]
Reply(r, resp) == req' = [req EXCEPT ![r].pc = "done", ![r].resp = resp]

\* A statement took effect: the handler goes on, or it was told of an error.
Committed(r, step) ==
    /\ Goto(r, step) \/ Reply(r, "unavailable")
    /\ hist' = [hist EXCEPT ![r].effect = TRUE]

InFlight == {q \in Requests : req[q].pc \in {"resolve", "create"}}

Begin(r, c) ==
    /\ req[r].pc = "new" /\ c.cookie \in delivered \union {NoCookie}
    /\ req' = [req EXCEPT ![r].call = c,
                          ![r].pc = IF c.kind = "login" THEN "discord" ELSE "session"]
    /\ hist' = [hist EXCEPT ![r] = [@ EXCEPT
           !.since = Len(policies), !.doomed = c.cookie \in kicked,
           !.targets = IF c.kind = "revoke"
                         THEN {i \in Ids : Sessions!Held(i) /\ holder[i].user = c.user}
                       ELSE IF c.kind = "logout" THEN {c.cookie} \intersect Ids ELSE {},
           !.flight = IF c.kind = "revoke" THEN InFlight ELSE {},
           !.acks = IF c.kind = "revoke" THEN acked ELSE hist[r].acks]]
    /\ UNCHANGED <<holder, policies, mappings, acked, audited, delivered, kicked>>

\* GetValid on the request's cookie.
Live(r) == req[r].call.cookie \in Ids /\ Sessions!Held(req[r].call.cookie)

ForwardSession(r) ==
    /\ req[r].pc = "session" /\ Kind(r) = "forward"
    /\ IF ~Live(r) THEN Reply(r, "unauthenticated")
       ELSE IF holder[req[r].call.cookie].groups = {} THEN Reply(r, "forbidden")
       ELSE req' = [req EXCEPT ![r].pc = "decide", ![r].who = holder[req[r].call.cookie]]
    /\ UNCHANGED <<holder, policies, mappings, acked, audited, delivered, kicked, hist>>

\* Mutants: any session is enough; the session is not put into the context.
AdminSessionAnyone(r) ==
    /\ req[r].pc = "session" /\ Kind(r) \in AdminKinds
    /\ IF ~Live(r) THEN Reply(r, "unauthenticated")
       ELSE req' = [req EXCEPT ![r].pc = "mutate", ![r].who = holder[req[r].call.cookie]]
    /\ UNCHANGED <<holder, policies, mappings, acked, audited, delivered, kicked, hist>>
AdminSessionUnnamed(r) ==
    /\ req[r].pc = "session" /\ Kind(r) \in AdminKinds
    /\ IF ~Live(r) THEN Reply(r, "unauthenticated") ELSE Goto(r, "mutate")
    /\ UNCHANGED <<holder, policies, mappings, acked, audited, delivered, kicked, hist>>

\* requireAdmin, then requireSameOrigin.
AdminSession(r) ==
    /\ req[r].pc = "session" /\ Kind(r) \in AdminKinds
    /\ IF ~Live(r) THEN Reply(r, "unauthenticated")
       ELSE IF ~IsAdmin(holder[req[r].call.cookie].groups) \/ ~req[r].call.sameOrigin
         THEN Reply(r, "forbidden")
       ELSE req' = [req EXCEPT ![r].pc = "mutate", ![r].who = holder[req[r].call.cookie]]
    /\ UNCHANGED <<holder, policies, mappings, acked, audited, delivered, kicked, hist>>

\* Only to learn who logs out.
LogoutSession(r) ==
    /\ req[r].pc = "session" /\ Kind(r) = "logout"
    /\ IF req[r].call.cookie = NoCookie THEN Reply(r, "ok")
       ELSE req' = [req EXCEPT ![r].pc = "mutate",
                       ![r].who = IF Live(r) THEN holder[req[r].call.cookie] ELSE NoOne]
    /\ UNCHANGED <<holder, policies, mappings, acked, audited, delivered, kicked, hist>>

SessionError(r) ==
    /\ req[r].pc = "session" /\ req[r].call.cookie # NoCookie
    /\ IF Kind(r) = "logout" THEN Goto(r, "mutate") ELSE Reply(r, "unavailable")
    /\ UNCHANGED <<holder, policies, mappings, acked, audited, delivered, kicked, hist>>

\* The groups of the policy that governs host.
Required(table, host) ==
    LET p == Governing(host, {q \in Patterns : table[q] # {}})
    IN  IF p = <<>> THEN {} ELSE table[p]

Permits(r, table) == Allowed(req[r].call.host, req[r].who.groups, Required(table, req[r].call.host))

\* Mutant: by the policies loaded at startup.
DecideAtBoot(r) ==
    /\ req[r].pc = "decide"
    /\ Reply(r, IF Permits(r, policies[1]) THEN "ok" ELSE "forbidden")
    /\ UNCHANGED <<holder, policies, mappings, acked, audited, delivered, kicked, hist>>

\* hostAccessAllowed; Touch after it changes no session's validity.
Decide(r) ==
    /\ req[r].pc = "decide"
    /\ Reply(r, IF Permits(r, Last(policies)) THEN "ok" ELSE "forbidden")
    /\ UNCHANGED <<holder, policies, mappings, acked, audited, delivered, kicked, hist>>

\* The lookup fails; admins and AUTH_HOST do not need it.
DecideError(r) ==
    /\ req[r].pc = "decide" /\ ~Allowed(req[r].call.host, req[r].who.groups, {})
    /\ Reply(r, "unavailable")
    /\ UNCHANGED <<holder, policies, mappings, acked, audited, delivered, kicked, hist>>

\* The checks before the statement; of the other kinds a request is well-formed.
Accepted(r) ==
    Kind(r) = "upsertPolicy" => Settable(req[r].call.host) /\ req[r].call.groups # {}

UpsertPolicy(r) ==
    /\ req[r].pc = "mutate" /\ Kind(r) = "upsertPolicy"
    /\ LET c == req[r].call
       IN  IF Accepted(r)
             THEN /\ policies' = Append(policies, [Last(policies) EXCEPT ![c.host] = c.groups])
                  /\ Committed(r, "audit")
             ELSE Reply(r, "rejected") /\ UNCHANGED <<policies, hist>>
    /\ UNCHANGED <<holder, mappings, acked, audited, delivered, kicked>>

DeletePolicy(r) ==
    /\ req[r].pc = "mutate" /\ Kind(r) = "deletePolicy"
    /\ LET p == req[r].call.host
       IN  IF p \in Patterns /\ Last(policies)[p] # {}
             THEN /\ policies' = Append(policies, [Last(policies) EXCEPT ![p] = {}])
                  /\ Committed(r, "audit")
             ELSE Reply(r, "notFound") /\ UNCHANGED <<policies, hist>>
    /\ UNCHANGED <<holder, mappings, acked, audited, delivered, kicked>>

EditMapping(r) ==
    /\ req[r].pc = "mutate" /\ Kind(r) \in {"upsertMapping", "deleteMapping"}
    /\ mappings' = Append(mappings,
           IF Kind(r) = "upsertMapping" THEN Last(mappings) \union {req[r].call.pair}
                                        ELSE Last(mappings) \ {req[r].call.pair})
    /\ Goto(r, "invalidate") \/ Reply(r, "unavailable")
    /\ hist' = [hist EXCEPT ![r].effect = TRUE, ![r].version = Len(mappings')]
    /\ UNCHANGED <<holder, policies, acked, audited, delivered, kicked>>

\* Only the cache of the handler's own process.
Invalidate(r) ==
    /\ req[r].pc = "invalidate"
    /\ Goto(r, "audit")
    /\ acked' = [acked EXCEPT ![req[r].at] = IF @ < hist[r].version THEN hist[r].version ELSE @]
    /\ UNCHANGED <<holder, policies, mappings, audited, delivered, kicked, hist>>

\* Mutant: only the sessions that have been used.
RevokeUserSeen(r) ==
    /\ req[r].pc = "mutate" /\ Kind(r) = "revoke"
    /\ Sessions!End({i \in delivered : Sessions!Held(i) /\ holder[i].user = req[r].call.user})
    /\ Committed(r, "audit")
    /\ UNCHANGED <<policies, mappings, acked, audited, delivered, kicked>>

RevokeUser(r) ==
    /\ req[r].pc = "mutate" /\ Kind(r) = "revoke"
    /\ Sessions!End({i \in Ids : Sessions!Held(i) /\ holder[i].user = req[r].call.user})
    /\ Committed(r, "audit")
    /\ UNCHANGED <<policies, mappings, acked, audited, delivered, kicked>>

\* Mutant: the error is only logged.
MutationFailsLogged(r) ==
    /\ req[r].pc = "mutate" /\ Kind(r) # "logout" /\ Accepted(r)
    /\ Goto(r, "audit")
    /\ UNCHANGED <<holder, policies, mappings, acked, audited, delivered, kicked, hist>>

MutationFails(r) ==
    /\ req[r].pc = "mutate" /\ Kind(r) # "logout" /\ Accepted(r)
    /\ Reply(r, "unavailable")
    /\ UNCHANGED <<holder, policies, mappings, acked, audited, delivered, kicked, hist>>

\* handleLogout discards the error of Revoke: it goes on in either case.
Logout(r) ==
    /\ req[r].pc = "mutate" /\ Kind(r) = "logout"
    /\ \/ /\ Sessions!End({i \in {req[r].call.cookie} : Sessions!Held(i)})
          /\ hist' = [hist EXCEPT ![r].effect = TRUE]
       \/ UNCHANGED <<holder, hist>>
    /\ IF req[r].who # NoOne THEN Goto(r, "audit") ELSE Reply(r, "ok")
    /\ UNCHANGED <<policies, mappings, acked, audited, delivered, kicked>>

-----------------------------------------------------------------------------
(* The login callback. *)

\* The token exchange and the two profile requests: a member, no member, or an error.
Discord(r) ==
    /\ req[r].pc = "discord"
    /\ Goto(r, "resolve") \/ Goto(r, "denied") \/ Reply(r, "forbidden")
    /\ hist' = [hist EXCEPT ![r].floor = acked[req[r].at]]
    /\ UNCHANGED <<holder, policies, mappings, acked, audited, delivered, kicked>>

\* The groups that the role lookup may find.
Lookup(r) == Answers(mappings, hist[r].floor, req[r].call.roles)

\* Mutant: without the check for no groups.
ResolveRolesAny(r) ==
    /\ req[r].pc = "resolve"
    /\ \E groups \in Lookup(r) : req' = [req EXCEPT ![r].groups = groups, ![r].pc = "create"]
    /\ UNCHANGED <<holder, policies, mappings, acked, audited, delivered, kicked, hist>>

ResolveRoles(r) ==
    /\ req[r].pc = "resolve"
    /\ \/ \E groups \in Lookup(r) :
            req' = [req EXCEPT ![r].groups = groups,
                               ![r].pc = IF groups = {} THEN "denied" ELSE "create"]
       \/ Reply(r, "unavailable")
    /\ UNCHANGED <<holder, policies, mappings, acked, audited, delivered, kicked, hist>>

CreateSession(r) ==
    /\ req[r].pc = "create"
    /\ \E i \in Ids :
         /\ Sessions!Open(i, [user |-> req[r].call.user, groups |-> req[r].groups])
         /\ \/ req' = [req EXCEPT ![r].pc = "audit", ![r].sid = i]
            \/ Reply(r, "unavailable")
    /\ hist' = [hist EXCEPT ![r].effect = TRUE]
    /\ UNCHANGED <<policies, mappings, acked, audited, delivered, kicked>>

CreateFails(r) ==
    /\ req[r].pc = "create"
    /\ Reply(r, "unavailable")
    /\ UNCHANGED <<holder, policies, mappings, acked, audited, delivered, kicked, hist>>

-----------------------------------------------------------------------------
\* recordAudit only logs an error; then the handler answers.
Audit(r) ==
    /\ req[r].pc \in {"audit", "denied"}
    /\ audited' \in {audited, audited \union {r}}
    /\ Reply(r, IF req[r].pc = "audit" THEN "ok" ELSE "forbidden")
    /\ delivered' = delivered \union ({req[r].sid} \intersect Ids)
    /\ kicked' = IF Kind(r) = "revoke" \/ (Kind(r) = "logout" /\ hist[r].effect)
                   THEN kicked \union hist[r].targets ELSE kicked
    /\ UNCHANGED <<holder, policies, mappings, acked, hist>>

\* A session's expiry passes.
Lapse(i) ==
    /\ Sessions!Held(i) /\ Sessions!End({i})
    /\ UNCHANGED <<policies, mappings, acked, audited, delivered, kicked, req, hist>>

\* A process dies with its requests in flight and its mapping cache, and is restarted.
\* (An idle one that restarts only loses its cache: its next lookup loads the table anew.)
Crash(p) ==
    /\ \E r \in Requests : Active(r) /\ req[r].at = p
    /\ req' = [r \in Requests |->
           IF Active(r) /\ req[r].at = p
             THEN [req[r] EXCEPT !.pc = "done", !.resp = "lost"] ELSE req[r]]
    /\ acked' = [acked EXCEPT ![p] = Len(mappings)]
    /\ UNCHANGED <<holder, policies, mappings, audited, delivered, kicked, hist>>

Handle(r) ==
    \/ \E c \in Calls : Begin(r, c)
    \/ ForwardSession(r) \/ AdminSession(r) \/ LogoutSession(r) \/ SessionError(r)
    \/ Decide(r) \/ DecideError(r)
    \/ UpsertPolicy(r) \/ DeletePolicy(r) \/ EditMapping(r) \/ Invalidate(r)
    \/ RevokeUser(r) \/ MutationFails(r) \/ Logout(r)
    \/ Discord(r) \/ ResolveRoles(r) \/ CreateSession(r) \/ CreateFails(r)
    \/ Audit(r)

Next ==
    \/ \E r \in Requests : Handle(r)
    \/ \E i \in Ids : Lapse(i)
    \/ \E p \in Processes : Crash(p)

Spec == Init /\ [][Next]_vars

-----------------------------------------------------------------------------
(* Correctness *)

\* A kick or logout that was acknowledged holds: no request that begins afterwards
\* with a session it was to end is served, whatever was in flight meanwhile.
KickEffective ==
    \A r \in Requests : hist[r].doomed /\ Finished(r) /\ Kind(r) \notin {"login", "logout"} =>
        ~hist[r].effect /\ req[r].resp \in {"unauthenticated", "unavailable", "lost"}

\* ForwardAuth decides by a policy table that was current while the request ran: an
\* edit applies to every request that begins after it, and no mixture of two edits
\* or failed lookup opens a host.
DecidesByCurrentPolicy ==
    \A r \in Requests : req[r].who # NoOne /\ Kind(r) = "forward" =>
        /\ req[r].resp = "ok" =>
             \E v \in hist[r].since..Len(policies) : Permits(r, policies[v])
        /\ req[r].resp = "forbidden" =>
             \E v \in hist[r].since..Len(policies) : ~Permits(r, policies[v])

\* A host outside COOKIE_DOMAIN is open to admins only, whatever policies were asked for:
\* the checks of the admin API, the matching and the decision leave no other way.
OpensOwnDomain ==
    \A r \in Requests : Kind(r) = "forward" /\ req[r].who # NoOne /\ req[r].resp = "ok" =>
        IsAdmin(req[r].who.groups) \/ req[r].call.host = <<>> \/ HostAllowed(req[r].call.host)

\* Whatever changes policies, mappings or other users' sessions was asked for by an
\* admin from the admin UI's origin.
OnlyAdminsMutate ==
    \A r \in Requests : hist[r].effect /\ Kind(r) \in AdminKinds =>
        req[r].who # NoOne /\ IsAdmin(req[r].who.groups) /\ req[r].call.sameOrigin

\* The audit history records no admin mutation that did not happen.
AuditSound ==
    \A r \in audited : Kind(r) \in AdminKinds => hist[r].effect

\* Every session carries groups, and a login that succeeded was given a session of its
\* own, which authenticates that user with the groups found, until it has ended.  So the
\* 403 of ForwardAuth is never due to "zero groups", as docs/discord-setup.md:107 has it:
\* the callback refuses those (server.go:333), and what refuses is the host's policy.
SessionsJustified ==
    /\ \A i \in Ids : Sessions!Held(i) => holder[i].groups # {}
    /\ \A r \in Requests : Kind(r) = "login" /\ req[r].resp = "ok" =>
         /\ req[r].sid \in delivered
         /\ holder[req[r].sid] \in {Ended, [user |-> req[r].call.user, groups |-> req[r].groups]}
         /\ \A q \in Requests \ {r} : req[q].sid # req[r].sid

\* "Admin mutations write an append-only audit history" (README.md).
EveryMutationAudited ==
    \A r \in Requests : Kind(r) \in AdminKinds /\ req[r].resp = "ok" => r \in audited

\* The login's groups are within those of a table no older than mappings[floor].
Entitled(r, floor) ==
    \E v \in floor..Len(mappings) :
        req[r].groups \subseteq Resolve(mappings[v], req[r].call.roles)

\* A login whose session outlived an acknowledged kick of its user.
Survived(r, k) ==
    /\ Kind(r) = "login" /\ req[r].resp = "ok" /\ Sessions!Held(req[r].sid)
    /\ Kind(k) = "revoke" /\ req[k].resp = "ok" /\ req[k].call.user = req[r].call.user

\* "Role->group mapping changes still require re-login or session revoke" (README.md):
\* the sessions that a kicked user is left with have no group that only older tables give
\* than the edits acknowledged when the kick began.
KickAppliesMappings ==
    \A r, k \in Requests : Survived(r, k) => Entitled(r, hist[k].acks[req[r].at])

\* What does hold of that sentence: the logins excepted are those that were between Discord
\* and their session when the kick began, and the edits are those that emptied the cache
\* of the login's own process.  A session made before is ended, and a login that asks
\* later finds what was acknowledged before the kick.
KickEndsStaleSessions ==
    \A r, k \in Requests :
        Survived(r, k) => r \in hist[k].flight \/ Entitled(r, hist[k].acks[req[r].at])

\* Sessions are "revocable on logout" (README.md): who was told "logged out" is.
LogoutRevokes ==
    \A r \in Requests : Kind(r) = "logout" /\ req[r].resp = "ok" /\ req[r].call.cookie # NoCookie
                          => ~Sessions!Held(req[r].call.cookie)
=============================================================================
