---------------------------- MODULE AuthServerMC ----------------------------
(* Instances of AuthServer for TLC: an admin, ann, and a developer, bob.   *)
EXTENDS AuthServer, TLC

CONSTANTS ann, bob, s1, s2, s3, dev, member

auth == <<"auth", "ex", "com">>
app  == <<"app", "ex", "com">>
all  == <<Star, "ex", "com">>
far  == <<"app", "far", "com">>

MCDomain == <<"ex", "com">>
MCPatterns == {app, all, far}
MCHolder == [i \in Ids |-> IF i = s1 THEN [user |-> ann, groups |-> {AdminGroup}]
                           ELSE IF i = s2 THEN [user |-> bob, groups |-> {dev}] ELSE Unopened]
MCPolicies == [p \in Patterns |-> IF p = all THEN {dev} ELSE {}]
MCMappings == {<<member, dev>>}

Ask(kind, cookie) == [kind |-> kind, cookie |-> cookie, sameOrigin |-> TRUE, user |-> bob,
                      roles |-> {member}, host |-> app, groups |-> {dev},
                      pair |-> <<member, dev>>]

\* Bob has to log in first: there are two ids for that.
SessionHolder == [i \in Ids |-> IF i = s1 THEN MCHolder[s1] ELSE Unopened]

\* Kicks, logouts and logins of bob, requests with a session of his, and an edit of the
\* mapping that his groups come from.
SessionCalls == {Ask("forward", s2), Ask("revoke", s1), Ask("logout", s2),
                 Ask("login", NoCookie), Ask("deleteMapping", s1)}

\* Edits of the policies while bob and ann use app, and edits that must be refused.
PolicyCalls == {Ask("forward", s2), Ask("forward", s1), Ask("deletePolicy", s1),
                Ask("upsertPolicy", s1), [Ask("upsertPolicy", s1) EXCEPT !.host = far]}
    \union {[Ask("forward", s2) EXCEPT !.host = h] : h \in {auth, far}}
    \union {[Ask("upsertPolicy", s1) EXCEPT !.host = h, !.groups = {AdminGroup}]
              : h \in {app, all, auth}}
    \union {[Ask("deletePolicy", s1) EXCEPT !.host = all],
            [Ask("deletePolicy", s1) EXCEPT !.sameOrigin = FALSE],
            Ask("upsertPolicy", s2)}

\* A mapping is withdrawn and bob kicked while he logs in.
RaceCalls == {Ask("login", NoCookie), Ask("deleteMapping", s1), Ask("revoke", s1)}

Reorder == Permutations(Requests) \union Permutations(Processes)
=============================================================================
