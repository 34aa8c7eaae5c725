----------------------------- MODULE OAuthLogin -----------------------------
(***************************************************************************)
(* Logins as browsers see them: ForwardAuth, the callback and logout       *)
(* (internal/httpapi/server.go, cookies.go, state.go, redirect.go) over    *)
(* the Discord client, with requests of several tabs in flight at once.    *)
(*                                                                         *)
(* The handlers keep nothing between requests: a login in progress is the  *)
(* CSRF cookie of its browser, one for all tabs and all hosts under        *)
(* COOKIE_DOMAIN.  A request carries the cookies of the moment it is sent, *)
(* its answer changes those of the moment it arrives.                      *)
(*                                                                         *)
(* States, codes and session ids are random and never repeat: here they    *)
(* are numbers, in the order in which they are made.                       *)
(***************************************************************************)
EXTENDS HostAccess, DiscordClient

CONSTANTS
    Browsers,
    Returning,   \* those that still have the cookie of a session that has ended
    Visits,      \* what they may ask for on their own
    MaxStates, MaxCodes, MaxIds   \* bounds: how many of each a behaviour may make

Header == [fetch : {"none", "navigate", "other"}, accept : {"none", "html", "any", "other"}]

\* A page that is navigated to, something on a page, or a logout.
Visit == [kind : {"page", "asset", "logout"}, browser : Browsers, host : Name, header : Header]

ASSUME LoginAssumption ==
    /\ Returning \subseteq Browsers /\ Visits \subseteq Visit /\ Visits # {}
    /\ \A v \in Visits : CookieDomain = <<>> \/ v.kind = "logout" => v.host = AuthHost  \* SINGLE_HOST
    /\ {MaxStates, MaxCodes, MaxIds} \subseteq Nat

VARIABLES
    jar,      \* per browser: its CSRF cookie (a state) and its session cookie; 0 for none
    minted,   \* the states made: in which browser, on which host, and the host they name
    offered,  \* the states that a browser has taken to Discord's consent page
    grants,   \* the codes Discord has made, each with the state it was made for
    opened,   \* the sessions created: by whose callback, with which code, sent where
    ended,    \* the sessions that were revoked or have expired
    req       \* the requests in flight, and their answers

loginVars == <<jar, minted, offered, grants, opened, ended, req>>
vars == <<loginVars, clientVars>>

\* What an answer does to a cookie: nothing, or the new value, 0 to clear it.
Keep == -1
NoCookies == [csrf |-> 0, sess |-> 0]
KeepBoth == [csrf |-> Keep, sess |-> Keep]
AnyVisit == CHOOSE v \in Visits : TRUE
Free == [pc |-> "free", kind |-> "none", browser |-> AnyVisit.browser, host |-> AuthHost,
         header |-> AnyVisit.header, cookie |-> 0, code |-> 0, state |-> 0,
         set |-> KeepBoth, to |-> "none"]

\* What decodeState makes of a state that this service encoded.
Decodes(state) == state.host = <<>> \/ HostAllowed(state.host)

\* The id of a session that ended before the behaviour begins.
Old == MaxIds + 1

Held(i) == i \in 1..Len(opened) /\ i \notin ended

\* The domain of the cookies covers the host: the browser sends them, and takes new ones.
Shared(host) == UnderDomain(host, CookieDomain)

Login == [browser : Browsers, from : Name, host : Name]
Session == [browser : Browsers, code : Nat, state : Nat, home : Name]
Request == [pc : {"free", "sent", "discord", "answered"},
            kind : {"none", "page", "asset", "logout", "callback"},
            browser : Browsers, host : Name, header : Header,
            cookie : Nat, code : Nat, state : Nat,
            set : [csrf : Nat \union {Keep}, sess : Nat \union {Keep}],
            to : {"none", "discord", "home"}]

TypeOK ==
    /\ ClientTypeOK
    /\ jar \in [Browsers -> [csrf : Nat, sess : Nat]]
    /\ minted \in Seq(Login)
    /\ \A s \in 1..Len(minted) : Decodes(minted[s])
    /\ offered \subseteq 1..Len(minted)
    /\ grants \in Seq(1..Len(minted))
    /\ opened \in Seq(Session)
    /\ ended \subseteq 1..Len(opened)
    /\ req \in [Callers -> Request]

Init ==
    /\ ClientInit
    /\ jar = [b \in Browsers |-> [NoCookies EXCEPT !.sess = IF b \in Returning THEN Old ELSE 0]]
    /\ minted = <<>> /\ offered = {} /\ grants = <<>> /\ opened = <<>> /\ ended = {}
    /\ req = [r \in Callers |-> Free]

-----------------------------------------------------------------------------
(* The browsers and Discord's consent page. *)

\* The cookies that a browser sends to a host; a request keeps the one its handler reads,
\* the CSRF cookie of a callback and the session cookie of any other.
Sent(b, host) == IF Shared(host) THEN jar[b] ELSE NoCookies

Send(r, v) ==
    /\ req[r].pc = "free"
    /\ req' = [req EXCEPT ![r] = [Free EXCEPT
           !.pc = "sent", !.kind = v.kind, !.browser = v.browser, !.host = v.host,
           !.header = v.header, !.cookie = Sent(v.browser, v.host).sess]]
    /\ UNCHANGED <<jar, minted, offered, grants, opened, ended, clientVars>>

\* Consent is given for a state that a browser brought.
Grant ==
    /\ Len(grants) < MaxCodes
    /\ \E s \in offered : grants' = Append(grants, s)
    /\ UNCHANGED <<jar, minted, offered, opened, ended, req, clientVars>>

\* The redirect back to the callback, in any browser, once or again; code 0 is that
\* consent was refused.
SendCallback(r, b) ==
    /\ req[r].pc = "free"
    /\ \E code \in 0..Len(grants) :
         req' = [req EXCEPT ![r] = [Free EXCEPT
             !.pc = "sent", !.kind = "callback", !.browser = b, !.code = code,
             !.state = IF code = 0 THEN 0 ELSE grants[code],
             !.cookie = Sent(b, AuthHost).csrf]]
    /\ UNCHANGED <<jar, minted, offered, grants, opened, ended, clientVars>>

\* Mutant: Keep is taken for a value.
AfterRaw(cookies, set) == set

\* The cookies a browser has after an answer.
After(cookies, set) ==
    [csrf |-> IF set.csrf = Keep THEN cookies.csrf ELSE set.csrf,
     sess |-> IF set.sess = Keep THEN cookies.sess ELSE set.sess]

Deliver(r) ==
    LET a == req[r] IN
    /\ a.pc = "answered"
    /\ jar' = IF Shared(a.host) THEN [jar EXCEPT ![a.browser] = After(@, a.set)] ELSE jar
    /\ offered' = IF a.to = "discord" THEN offered \union {a.state} ELSE offered
    /\ req' = [req EXCEPT ![r] = Free]
    /\ UNCHANGED <<minted, grants, opened, ended, clientVars>>

\* The browser went elsewhere, or the connection broke.
Lose(r) ==
    /\ req[r].pc = "answered"
    /\ req' = [req EXCEPT ![r] = Free]
    /\ UNCHANGED <<jar, minted, offered, grants, opened, ended, clientVars>>

\* The 10 minutes of the CSRF cookie are over, or a session cookie's time is.
Forget(b) ==
    /\ \/ jar[b].csrf # 0 /\ jar' = [jar EXCEPT ![b].csrf = 0]
       \/ jar[b].sess # 0 /\ ~Held(jar[b].sess) /\ jar' = [jar EXCEPT ![b].sess = 0]
    /\ UNCHANGED <<minted, offered, grants, opened, ended, req, clientVars>>

\* A session expires or is kicked.
EndSession(i) ==
    /\ Held(i) /\ ended' = ended \union {i}
    /\ UNCHANGED <<jar, minted, offered, grants, opened, req, clientVars>>

-----------------------------------------------------------------------------
(* ForwardAuth. *)

\* The response; one that changes no cookie is not followed on its way.
Answer(r, set) ==
    req' = [req EXCEPT ![r] = IF set = KeepBoth THEN Free ELSE [@ EXCEPT !.pc = "answered", !.set = set]]

IsLoginNavigation(h) ==
    IF h.fetch # "none" THEN h.fetch = "navigate" ELSE h.accept \in {"none", "html", "any"}

\* originalReturn: the host that the state names.
OriginalHost(host) == IF HostAllowed(host) THEN host ELSE <<>>

\* unauthenticated, with what is done to the session cookie; redirectToLogin makes a state
\* and sets the CSRF cookie to it.
Unauthenticated(r, sess) ==
    IF ~IsLoginNavigation(req[r].header)
      THEN Answer(r, [csrf |-> Keep, sess |-> sess]) /\ UNCHANGED minted
      ELSE /\ Len(minted) < MaxStates
           /\ minted' = Append(minted,
                 [browser |-> req[r].browser, from |-> req[r].host, host |-> OriginalHost(req[r].host)])
           /\ req' = [req EXCEPT ![r].pc = "answered", ![r].to = "discord", ![r].state = Len(minted'),
                                 ![r].set = [csrf |-> Len(minted'), sess |-> sess]]

\* handleForwardAuth.  A session that is held: the decision changes no cookie.
ForwardAuth(r) ==
    /\ req[r].pc = "sent" /\ req[r].kind \in {"page", "asset"}
    /\ IF req[r].cookie = 0 THEN Unauthenticated(r, Keep)
       ELSE IF ~Held(req[r].cookie) THEN Unauthenticated(r, 0)
       ELSE Answer(r, KeepBoth) /\ UNCHANGED minted
    /\ UNCHANGED <<jar, offered, grants, opened, ended, clientVars>>

\* Mutant: no session could be found, so the cookie is cleared.
ForwardAuthForgets(r) ==
    /\ req[r].pc = "sent" /\ req[r].kind \in {"page", "asset"} /\ req[r].cookie # 0
    /\ Answer(r, [csrf |-> Keep, sess |-> 0])
    /\ UNCHANGED <<jar, minted, offered, grants, opened, ended, clientVars>>

\* 503: the lookup fails, and the cookies stay.  500: no state could be made.
ForwardAuthFails(r) ==
    LET sess == req[r].cookie IN
    /\ req[r].pc = "sent" /\ req[r].kind \in {"page", "asset"}
    /\ \/ sess # 0 /\ Answer(r, KeepBoth)
       \/ /\ ~Held(sess) /\ IsLoginNavigation(req[r].header)
          /\ Answer(r, [csrf |-> Keep, sess |-> IF sess = 0 THEN Keep ELSE 0])
    /\ UNCHANGED <<jar, minted, offered, grants, opened, ended, clientVars>>

\* handleLogout; Revoke may fail, and the cookie is cleared all the same.
Logout(r) ==
    /\ req[r].pc = "sent" /\ req[r].kind = "logout"
    /\ ended' \in {ended, ended \union ({req[r].cookie} \intersect 1..Len(opened))}
    /\ Answer(r, [csrf |-> Keep, sess |-> 0])
    /\ UNCHANGED <<jar, minted, offered, grants, opened, clientVars>>

-----------------------------------------------------------------------------
(* handleOAuthCallback. *)

\* A state that is the cookie's was made here, and decodeState finds it in order (TypeOK).
Accepted(r) ==
    /\ req[r].code # 0
    /\ req[r].cookie # 0 /\ req[r].cookie = req[r].state

\* Mutants: the cookie need not be the state; it is cleared before they are compared.
CallbackAny(r) ==
    /\ req[r].pc = "sent" /\ req[r].kind = "callback"
    /\ IF req[r].code # 0 /\ req[r].cookie # 0
         THEN /\ req' = [req EXCEPT ![r].pc = "discord", ![r].set.csrf = 0]
              /\ ExchangeCode(r, req[r].code)
         ELSE Answer(r, KeepBoth) /\ UNCHANGED clientVars
    /\ UNCHANGED <<jar, minted, offered, grants, opened, ended>>
CallbackClearsFirst(r) ==
    /\ req[r].pc = "sent" /\ req[r].kind = "callback"
    /\ IF Accepted(r)
         THEN /\ req' = [req EXCEPT ![r].pc = "discord", ![r].set.csrf = 0]
              /\ ExchangeCode(r, req[r].code)
         ELSE Answer(r, [csrf |-> 0, sess |-> Keep]) /\ UNCHANGED clientVars
    /\ UNCHANGED <<jar, minted, offered, grants, opened, ended>>

\* Refused consent, a missing or another CSRF cookie are refused and leave the cookies
\* alone; otherwise the CSRF cookie goes, whatever becomes of the login.
Callback(r) ==
    /\ req[r].pc = "sent" /\ req[r].kind = "callback"
    /\ IF Accepted(r)
         THEN /\ req' = [req EXCEPT ![r].pc = "discord", ![r].set.csrf = 0]
              /\ ExchangeCode(r, req[r].code)
         ELSE Answer(r, KeepBoth) /\ UNCHANGED clientVars
    /\ UNCHANGED <<jar, minted, offered, grants, opened, ended>>

ClientIdle(r) == call' = [call EXCEPT ![r] = Idle] /\ UNCHANGED <<late, spent>>

\* The exchange failed, Discord knows no such member, the roles map to no group, or the
\* role lookup or the insert fails; the insert may have taken place (nobody learns the id).
LoginFails(r) ==
    /\ req[r].pc = "discord" /\ call[r].pc \in Finished
    /\ Answer(r, req[r].set)
    /\ ClientIdle(r)
    /\ UNCHANGED <<jar, minted, offered, grants, opened, ended>>

\* ReturnURL.
Home(host) == IF host = <<>> THEN AuthHost ELSE host

Open(r) ==
    /\ Len(opened) < MaxIds
    /\ opened' = Append(opened, [browser |-> req[r].browser, code |-> req[r].code,
                                 state |-> req[r].state, home |-> Home(minted[req[r].state].host)])
    /\ req' = [req EXCEPT ![r].pc = "answered", ![r].set.sess = Len(opened'), ![r].to = "home"]
    /\ ClientIdle(r)
    /\ UNCHANGED <<jar, minted, offered, grants, ended>>

\* Mutant: the error of the exchange is only logged.
LoginSucceedsAnyway(r) == req[r].pc = "discord" /\ call[r].pc \in Finished /\ Open(r)

LoginSucceeds(r) == req[r].pc = "discord" /\ call[r].pc = "member" /\ Open(r)

\* The process dies: only answers that are on their way and cookies are left.
Crash ==
    /\ \E r \in Callers : req[r].pc \in {"sent", "discord"}
    /\ req' = [r \in Callers |-> IF req[r].pc = "answered" THEN req[r] ELSE Free]
    /\ call' = [r \in Callers |-> Idle]
    /\ late' = late \union {call[r].code : r \in {c \in Callers : call[c].pc = "posted"}}
    /\ UNCHANGED <<jar, minted, offered, grants, opened, ended, spent>>

-----------------------------------------------------------------------------
Serve(r) ==
    \/ ForwardAuth(r) \/ ForwardAuthFails(r) \/ Logout(r)
    \/ Callback(r) \/ LoginFails(r) \/ LoginSucceeds(r)
    \/ ClientStep(r) /\ UNCHANGED loginVars

Outside ==
    \/ \E r \in Callers :
         \/ \E v \in Visits : Send(r, v)
         \/ \E b \in Browsers : SendCallback(r, b)
         \/ Deliver(r) \/ Lose(r)
         \/ DiscordAnswers(r) /\ UNCHANGED loginVars
    \/ \E code \in late : DiscordRedeemsLate(code) /\ UNCHANGED loginVars
    \/ Grant
    \/ \E b \in Browsers : Forget(b)
    \/ \E i \in 1..Len(opened) : EndSession(i)
    \/ Crash

Next == (\E r \in Callers : Serve(r)) \/ Outside

Spec == Init /\ [][Next]_vars

\* Handlers run; every request to Discord ends within 15 s, with or without an answer.
FairSpec == Spec /\ \A r \in Callers : WF_vars(Serve(r))

-----------------------------------------------------------------------------
(* Correctness *)

\* Whoever is signed in signed in here: the session that a browser's cookie names was
\* created by a callback of this browser, for a login that began in this browser, whoever
\* else followed the same link meanwhile; and it went back to the host where it began.
OwnLogins ==
    \A b \in Browsers : jar[b].sess \notin {0, Old} =>
        LET o == opened[jar[b].sess]
        IN  /\ o.browser = b /\ minted[o.state].browser = b
            /\ o.home = minted[o.state].from

\* One consent opens one session, however often its callback is sent (a reload, two
\* answers in flight, a retry by the client).
OneSessionPerCode ==
    \A i, j \in 1..Len(opened) : opened[i].code = opened[j].code => i = j

\* The answer that arrives in this step.
Arrives(r) == req[r].pc = "answered" /\ req'[r].pc = "free" /\ jar' # jar

\* A login in progress is not disturbed by what it has nothing to do with: only another
\* login page or a callback that was accepted changes the CSRF cookie, not a callback
\* that is stale, a link from another browser or a sub-resource.
LoginsUndisturbed ==
    [][\A r \in Callers : Arrives(r) /\ req[r].set.csrf # Keep =>
          \/ req[r].kind = "page" /\ req[r].to = "discord"
          \/ req[r].kind = "callback" /\ req[r].cookie = req[r].state]_vars

\* No answer takes a browser's live session away but that of a logout: not an error,
\* not a login that failed, and a 401 only if it was asked for with an earlier cookie.
ClearsOnlyDead ==
    [][\A r \in Callers : Arrives(r) /\ req[r].kind # "logout" =>
          LET b == req[r].browser
          IN  Held(jar[b].sess) /\ jar'[b].sess = 0 => req[r].cookie # jar[b].sess]_vars

\* Every request is answered, or dies with the process, whatever Discord does.
RequestsAnswered ==
    \A r \in Callers : req[r].pc \in {"sent", "discord"} ~> req[r].pc \in {"answered", "free"}

\* "Sub-resource requests get bare 401 so they cannot clobber the CSRF cookie" (README.md).
SubresourcesSpareCsrf ==
    \A r \in Callers : req[r].kind = "asset" => req[r].set.csrf = Keep
=============================================================================
