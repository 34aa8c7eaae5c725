-------------------------- MODULE OAuthLoginProofs --------------------------
(***************************************************************************)
(* Theorems of OAuthLogin, for any number of requests and browsers, any    *)
(* hosts, and any number of states, codes and sessions: the run of         *)
(* OAuthLogin.cfg shows the same on one instance.                          *)
(***************************************************************************)
EXTENDS OAuthLogin, TLAPS

-----------------------------------------------------------------------------
(* The client: a code is exchanged for one caller at most.                 *)

LEMMA ClientInitTyped == ClientInit => ClientTypeOK
BY DEF ClientInit, ClientTypeOK, Idle, Steps, Finished, Bodies

Call == [pc : Steps, code : Nat, attempt : 1..2, answer : Bodies \union {"none"}]

LEMMA CallsTyped ==
    /\ Idle \in Call
    /\ \A step \in Steps : Then(step) \in Call
    /\ ClientTypeOK => \A c \in Callers : \A answer \in Bodies \union {"none"} :
                          Retry(c, answer) \in Call
<1>1. Idle \in Call /\ \A step \in Steps : Then(step) \in Call
  BY DEF Idle, Then, Call, Steps, Finished, Bodies
<1>2. ASSUME ClientTypeOK, NEW c \in Callers, NEW answer \in Bodies \union {"none"}
      PROVE  Retry(c, answer) \in Call
  <2>1. call[c] \in Call /\ "pause" \in Steps /\ "failed" \in Steps
    BY <1>2 DEF ClientTypeOK, Call, Steps, Finished
  <2>2. [call[c] EXCEPT !.pc = "pause", !.answer = answer] \in Call
    BY <2>1 DEF Call
  <2>3. QED
    BY <1>1, <2>1, <2>2 DEF Retry
<1>3. QED
  BY <1>1, <1>2

\* Each action of the client gives one caller new locals.
LEMMA PutCall ==
    ASSUME ClientTypeOK, NEW c \in Callers, NEW loc \in Call, call' = [call EXCEPT ![c] = loc],
           late' \subseteq Nat, spent' \subseteq Nat
    PROVE  ClientTypeOK'
BY DEF ClientTypeOK, Call

LEMMA ReceiveTyped ==
    ASSUME ClientTypeOK, NEW c \in Callers, NEW body \in Bodies, Receive(c, body),
           late' \subseteq Nat, spent' \subseteq Nat
    PROVE  ClientTypeOK'
<1>1. Then("getMe") \in Call /\ Then("failed") \in Call /\ Retry(c, body) \in Call
  BY CallsTyped DEF Steps, Finished
<1>2. PICK loc \in Call : call' = [call EXCEPT ![c] = loc]
  BY <1>1 DEF Receive, Bodies
<1>3. QED
  BY <1>2, PutCall

LEMMA ClientStepTyped ==
    ASSUME ClientTypeOK, NEW c \in Callers, ClientStep(c) \/ DiscordAnswers(c)
    PROVE  ClientTypeOK'
<1>0. late \subseteq Nat /\ spent \subseteq Nat /\ call[c] \in Call
  BY DEF ClientTypeOK, Call
<1>1. CASE GiveUp(c)
  <2>1. Retry(c, "none") \in Call
    BY CallsTyped
  <2>2. QED
    BY <1>0, <1>1, <2>1, PutCall DEF GiveUp, Call
<1>2. CASE PostAgain(c)
  <2> DEFINE loc == [call[c] EXCEPT !.pc = "posted", !.attempt = 2]
  <2>1. loc \in Call
    <3>1. "posted" \in Steps /\ 2 \in 1..2
      BY DEF Steps
    <3>2. ASSUME NEW step \in Steps, NEW n \in 1..2
          PROVE  [call[c] EXCEPT !.pc = step, !.attempt = n] \in Call
      BY <1>0 DEF Call
    <3>3. QED
      BY <3>1, <3>2
  <2>2. call' = [call EXCEPT ![c] = loc]
    BY <1>2 DEF PostAgain, ClientTypeOK
  <2>3. QED
    BY <1>0, <1>2, <2>1, <2>2, PutCall DEF PostAgain
<1>3. CASE Cancel(c) \/ GetMe(c) \/ GetGuildMember(c)
  <2>1. PICK step \in Steps : call' = [call EXCEPT ![c] = Then(step)]
    BY <1>3 DEF Cancel, GetMe, GetGuildMember, Steps, Finished
  <2>2. late' = late /\ spent' = spent
    BY <1>3 DEF Cancel, GetMe, GetGuildMember
  <2>3. QED
    BY <1>0, <2>1, <2>2, CallsTyped, PutCall
<1>4. CASE DiscordAnswers(c)
  <2>1. late' \subseteq Nat /\ spent' \subseteq Nat
    BY <1>0, <1>4 DEF DiscordAnswers, Call
  <2>2. \E body \in Bodies : Receive(c, body)
    BY <1>4 DEF DiscordAnswers, Bodies
  <2>3. QED
    BY <2>1, <2>2, ReceiveTyped
<1>5. QED
  BY <1>1, <1>2, <1>3, <1>4 DEF ClientStep

-----------------------------------------------------------------------------
(* What is known of one request q, for the states m, the sessions o and    *)
(* those of them that have ended, e.                                       *)

\* The login s was begun in browser b, on a host to which b sends the cookies.
Began(s, b, m) == s \in 1..Len(m) /\ m[s].browser = b /\ Shared(m[s].from)

\* The session i is b's own: b signed in, for a login of its own, and goes back there.
Own(i, b, m, o) ==
    /\ i \in 1..Len(o) /\ o[i].browser = b
    /\ o[i].state \in 1..Len(m) /\ m[o[i].state].browser = b
    /\ o[i].home = m[o[i].state].from

Known(i, o) == i \in {0, Old} \union 1..Len(o)

CallbackOK(q, m) ==
    /\ q.kind = "callback" /\ q.cookie # 0 => Began(q.cookie, q.browser, m)
    /\ q.pc = "discord" =>
         /\ q.kind = "callback" /\ q.code # 0 /\ q.cookie = q.state
         /\ Began(q.state, q.browser, m) /\ q.set.sess = Keep /\ q.to = "none"

\* Answers: a CSRF cookie is set for a page of this host, or cleared by an accepted
\* callback; a session cookie is cleared only if its session is over.
CsrfOK(q, m) ==
    /\ q.set.csrf > 0 =>
         /\ q.kind \in {"page", "asset"} /\ q.to = "discord" /\ q.state = q.set.csrf
         /\ q.kind = "asset" => \E v \in Visits : v.kind = "asset" /\ IsLoginNavigation(v.header)
         /\ q.set.csrf \in 1..Len(m)
         /\ m[q.set.csrf].browser = q.browser /\ m[q.set.csrf].from = q.host
    /\ q.set.csrf = 0 => q.kind = "callback" /\ q.cookie = q.state
    /\ q.to = "discord" => q.set.csrf > 0

SessOK(q, m, o, e) ==
    /\ q.kind \in {"page", "asset", "logout"} => Known(q.cookie, o)
    /\ q.set.sess > 0 => Own(q.set.sess, q.browser, m, o)
    /\ q.set.sess = 0 /\ q.kind # "logout" =>
         q.kind \in {"page", "asset"} /\ q.cookie \notin (1..Len(o)) \ e

RequestOK(q, m, o, e) ==
    /\ q \in Request
    /\ CookieDomain = <<>> => q.host = AuthHost
    /\ q.kind = "asset" => \E v \in Visits : v.kind = "asset" /\ v.header = q.header
    /\ q.pc = "sent" => q.set = KeepBoth /\ q.to = "none"
    /\ CallbackOK(q, m) /\ CsrfOK(q, m) /\ SessOK(q, m, o, e)

Extends(s, t) == Len(s) <= Len(t) /\ \A i \in 1..Len(s) : t[i] = s[i]

\* As the service goes on, what was known stays true.
LEMMA RequestStays ==
    ASSUME NEW q, NEW m \in Seq(Login), NEW n \in Seq(Login), Extends(m, n),
           NEW o \in Seq(Session), NEW p \in Seq(Session), Extends(o, p),
           NEW e, NEW f, e \subseteq f, Len(p) <= MaxIds,
           RequestOK(q, m, o, e)
    PROVE  RequestOK(q, n, p, f)
<1>0. /\ Len(m) \in Nat /\ Len(n) \in Nat /\ Len(o) \in Nat /\ Len(p) \in Nat /\ MaxIds \in Nat
      /\ Len(m) <= Len(n) /\ Len(o) <= Len(p)
  BY LoginAssumption DEF Extends
<1>1. \A i \in 1..Len(m) : i \in 1..Len(n) /\ n[i] = m[i]
  BY <1>0 DEF Extends
<1>2. \A i \in 1..Len(o) : i \in 1..Len(p) /\ p[i] = o[i]
  BY <1>0 DEF Extends
<1>3. q \in Request
  BY DEF RequestOK
<1>4. CallbackOK(q, n)
  BY <1>1 DEF RequestOK, CallbackOK, Began
<1>5. CsrfOK(q, n)
  BY <1>1 DEF RequestOK, CsrfOK
<1>6. SessOK(q, n, p, f)
  <2>1. q.kind \in {"page", "asset", "logout"} => Known(q.cookie, p)
    BY <1>2 DEF RequestOK, SessOK, Known
  <2>2. q.set.sess > 0 => Own(q.set.sess, q.browser, n, p)
    BY <1>1, <1>2 DEF RequestOK, SessOK, Own
  <2>3. ASSUME q.set.sess = 0, q.kind # "logout"
        PROVE  q.kind \in {"page", "asset"} /\ q.cookie \notin (1..Len(p)) \ f
    <3>1. q.kind \in {"page", "asset"} /\ q.cookie \notin (1..Len(o)) \ e /\ Known(q.cookie, o)
      BY <2>3 DEF RequestOK, SessOK
    <3>2. CASE q.cookie \in 1..Len(o)
      BY <3>1, <3>2
    <3>3. CASE q.cookie \in {0, Old}
      BY <1>0, <3>1, <3>3 DEF Old
    <3>4. QED
      BY <3>1, <3>2, <3>3 DEF Known
  <2>4. QED
    BY <2>1, <2>2, <2>3 DEF SessOK
<1>7. QED
  BY <1>3, <1>4, <1>5, <1>6 DEF RequestOK

-----------------------------------------------------------------------------
(* The invariant.  m, f, g, o, e stand for minted, offered, grants, opened *)
(* and ended, j and q for jar and req.                                     *)

MintedOK(m) ==
    \A s \in 1..Len(m) : /\ m[s].host = OriginalHost(m[s].from)
                         /\ CookieDomain = <<>> => m[s].from = AuthHost

StoresOK(m, f, g, o, e) ==
    /\ m \in Seq(Login) /\ MintedOK(m)
    /\ f \subseteq 1..Len(m) /\ g \in Seq(1..Len(m))
    /\ o \in Seq(Session) /\ Len(o) <= MaxIds /\ e \subseteq 1..Len(o)
    /\ \A i \in 1..Len(o) : Own(i, o[i].browser, m, o)

CookiesOK(k, b, m, o) ==
    /\ k.csrf # 0 => Began(k.csrf, b, m)
    /\ k.sess \notin {0, Old} => Own(k.sess, b, m, o)

JarsOK(j, m, o) ==
    /\ j \in [Browsers -> [csrf : Nat, sess : Nat]]
    /\ \A b \in Browsers : CookiesOK(j[b], b, m, o)

RequestsOK(q, m, o, e) ==
    /\ q \in [Callers -> Request]
    /\ \A r \in Callers : RequestOK(q[r], m, o, e)

LoginInv ==
    /\ ClientTypeOK
    /\ StoresOK(minted, offered, grants, opened, ended)
    /\ JarsOK(jar, minted, opened)
    /\ RequestsOK(req, minted, opened, ended)

\* What the invariant gives of the variables' types.
LEMMA InvTypes ==
    ASSUME LoginInv
    PROVE  /\ jar \in [Browsers -> [csrf : Nat, sess : Nat]] /\ minted \in Seq(Login)
           /\ opened \in Seq(Session) /\ ended \subseteq 1..Len(opened)
           /\ req \in [Callers -> Request] /\ Len(opened) <= MaxIds
           /\ Len(minted) \in Nat /\ Len(opened) \in Nat
           /\ \A r \in Callers : RequestOK(req[r], minted, opened, ended)
BY DEF LoginInv, StoresOK, JarsOK, RequestsOK

\* One request gets new locals, the others keep theirs.
LEMMA PutRequest ==
    ASSUME LoginInv, NEW r \in Callers, NEW loc, req' = [req EXCEPT ![r] = loc],
           minted' \in Seq(Login), Extends(minted, minted'),
           opened' \in Seq(Session), Extends(opened, opened'),
           ended \subseteq ended', Len(opened') <= MaxIds,
           RequestOK(loc, minted', opened', ended')
    PROVE  RequestsOK(req', minted', opened', ended')
<1>1. \A q \in Callers : RequestOK(req[q], minted', opened', ended')
  BY InvTypes, RequestStays
<1>2. loc \in Request
  BY DEF RequestOK
<1>3. QED
  BY <1>1, <1>2, InvTypes DEF RequestsOK

LEMMA Unmoved ==
    ASSUME LoginInv
    PROVE  Extends(minted, minted) /\ Extends(opened, opened)
BY InvTypes DEF Extends

\* Most steps give one request new locals and make neither states nor sessions.
LEMMA PutLocals ==
    ASSUME LoginInv, NEW r \in Callers, NEW loc, req' = [req EXCEPT ![r] = loc],
           UNCHANGED <<jar, minted, offered, grants, opened, ended>>, ClientTypeOK',
           RequestOK(loc, minted, opened, ended)
    PROVE  LoginInv'
<1>1. RequestsOK(req', minted', opened', ended')
  BY Unmoved, InvTypes, PutRequest
<1>2. QED
  BY <1>1 DEF LoginInv

LEMMA HostsNamed == AuthHost \in Name
BY LabelsAssumption DEF Name

LEMMA FreeIs ==
    /\ Free = [pc |-> "free", kind |-> "none", browser |-> AnyVisit.browser, host |-> AuthHost,
               header |-> AnyVisit.header, cookie |-> 0, code |-> 0, state |-> 0,
               set |-> KeepBoth, to |-> "none"]
    /\ Free \in Request
    /\ KeepBoth.csrf = Keep /\ KeepBoth.sess = Keep
    /\ KeepBoth \in [csrf : Nat \union {Keep}, sess : Nat \union {Keep}]
<1>1. AnyVisit \in Visit
  BY LoginAssumption DEF AnyVisit
<1>2. AnyVisit.browser \in Browsers /\ AnyVisit.header \in Header
  BY <1>1 DEF Visit
<1>3. KeepBoth.csrf = Keep /\ KeepBoth.sess = Keep
      /\ KeepBoth \in [csrf : Nat \union {Keep}, sess : Nat \union {Keep}]
  BY DEF KeepBoth
<1>4. QED
  BY <1>2, <1>3, HostsNamed DEF Free, Request

LEMMA FreeOK == ASSUME NEW m, NEW o, NEW e PROVE RequestOK(Free, m, o, e)
BY FreeIs DEF RequestOK, CallbackOK, CsrfOK, SessOK, Keep

LEMMA InitInv == Init => LoginInv
<1> SUFFICES ASSUME Init PROVE LoginInv
  OBVIOUS
<1>1. ClientTypeOK
  BY ClientInitTyped DEF Init
<1>2. StoresOK(minted, offered, grants, opened, ended)
  BY LoginAssumption DEF Init, StoresOK, MintedOK
<1>3. JarsOK(jar, minted, opened)
  <2>1. Old \in Nat
    BY LoginAssumption DEF Old
  <2>2. \A b \in Browsers : jar[b] = [csrf |-> 0, sess |-> IF b \in Returning THEN Old ELSE 0]
    BY DEF Init, NoCookies
  <2>3. jar = [b \in Browsers |-> [csrf |-> 0, sess |-> IF b \in Returning THEN Old ELSE 0]]
    BY DEF Init, NoCookies
  <2>4. jar \in [Browsers -> [csrf : Nat, sess : Nat]]
    BY <2>1, <2>3
  <2>5. QED
    BY <2>2, <2>4 DEF JarsOK, CookiesOK
<1>4. RequestsOK(req, minted, opened, ended)
  BY FreeOK, FreeIs DEF Init, RequestsOK
<1>5. QED
  BY <1>1, <1>2, <1>3, <1>4 DEF LoginInv

-----------------------------------------------------------------------------
LEMMA ClientUnmoved == ClientTypeOK /\ UNCHANGED clientVars => ClientTypeOK'
BY DEF clientVars, ClientTypeOK

LEMMA SentCookies ==
    ASSUME LoginInv, NEW b \in Browsers, NEW host
    PROVE  /\ Sent(b, host) \in [csrf : Nat, sess : Nat]
           /\ CookiesOK(Sent(b, host), b, minted, opened)
BY DEF Sent, NoCookies, LoginInv, JarsOK, CookiesOK

LEMMA SendInv ==
    ASSUME LoginInv, NEW r \in Callers, NEW v \in Visits, Send(r, v)
    PROVE  LoginInv'
<1> DEFINE sess == Sent(v.browser, v.host).sess
           loc == [Free EXCEPT !.pc = "sent", !.kind = v.kind, !.browser = v.browser,
                               !.host = v.host, !.header = v.header, !.cookie = sess]
<1>1. /\ v.kind \in {"page", "asset", "logout"} /\ v.browser \in Browsers /\ v.host \in Name
      /\ v.header \in Header
      /\ CookieDomain = <<>> => v.host = AuthHost
  BY LoginAssumption DEF Visit
<1>2. sess \in Nat /\ Known(sess, opened)
  BY <1>1, SentCookies DEF CookiesOK, Known, Own
<1> HIDE DEF sess
<1>3. /\ loc.pc = "sent" /\ loc.kind = v.kind /\ loc.browser = v.browser /\ loc.host = v.host
      /\ loc.header = v.header /\ loc.cookie = sess /\ loc.state = 0
      /\ loc.set = KeepBoth /\ loc.to = "none"
  BY FreeIs
<1>4. loc \in Request
  BY <1>1, <1>2, FreeIs DEF Request
<1>5. RequestOK(loc, minted, opened, ended)
  BY <1>1, <1>2, <1>3, <1>4, FreeIs DEF RequestOK, CallbackOK, CsrfOK, SessOK, Keep
<1>6. req' = [req EXCEPT ![r] = loc]
  BY DEF Send, sess
<1>7. ClientTypeOK' /\ UNCHANGED <<jar, minted, offered, grants, opened, ended>>
  BY ClientUnmoved DEF Send, LoginInv
<1>8. QED
  BY <1>5, <1>6, <1>7, PutLocals

LEMMA SendCallbackInv ==
    ASSUME LoginInv, NEW r \in Callers, NEW b \in Browsers, SendCallback(r, b)
    PROVE  LoginInv'
<1>1. PICK code \in 0..Len(grants) : req' = [req EXCEPT ![r] = [Free EXCEPT
             !.pc = "sent", !.kind = "callback", !.browser = b, !.code = code,
             !.state = IF code = 0 THEN 0 ELSE grants[code],
             !.cookie = Sent(b, AuthHost).csrf]]
  BY DEF SendCallback
<1> DEFINE csrf == Sent(b, AuthHost).csrf
           state == IF code = 0 THEN 0 ELSE grants[code]
           loc == [Free EXCEPT !.pc = "sent", !.kind = "callback", !.browser = b, !.code = code,
                               !.state = state, !.cookie = csrf]
<1>2. code \in Nat /\ state \in Nat
  BY DEF LoginInv, StoresOK
<1>3. csrf \in Nat /\ (csrf # 0 => Began(csrf, b, minted))
  BY SentCookies DEF CookiesOK
<1>6. req' = [req EXCEPT ![r] = loc]
  BY <1>1
<1> HIDE DEF state, csrf
<1>4. /\ loc.pc = "sent" /\ loc.kind = "callback" /\ loc.browser = b /\ loc.host = AuthHost
      /\ loc.cookie = csrf /\ loc.code = code /\ loc.state = state
      /\ loc.set = KeepBoth /\ loc.to = "none"
  BY FreeIs
<1>5. loc \in Request
  BY <1>2, <1>3, FreeIs DEF Request
<1>7. RequestOK(loc, minted, opened, ended)
  BY <1>3, <1>4, <1>5, FreeIs DEF RequestOK, CallbackOK, CsrfOK, SessOK, Keep
<1>8. ClientTypeOK' /\ UNCHANGED <<jar, minted, offered, grants, opened, ended>>
  BY ClientUnmoved DEF SendCallback, LoginInv
<1>9. QED
  BY <1>6, <1>7, <1>8, PutLocals

\* An answer that sets no cookies leaves nothing; another one is on its way.
LEMMA AnswerInv ==
    ASSUME LoginInv, NEW r \in Callers,
           NEW set \in [csrf : Nat \union {Keep}, sess : Nat \union {Keep}],
           Answer(r, set), req[r].to = "none", set.csrf \in {Keep, req[r].set.csrf},
           set.csrf \in {Keep, 0}, set.sess \in {Keep, 0},
           set.sess = 0 /\ req[r].kind # "logout" =>
              req[r].kind \in {"page", "asset"} /\ req[r].cookie \notin (1..Len(opened)) \ ended,
           UNCHANGED <<jar, minted, offered, grants, opened, ended>>, ClientTypeOK'
    PROVE  LoginInv'
<1> DEFINE loc == [req[r] EXCEPT !.pc = "answered", !.set = set]
<1>1. req' = [req EXCEPT ![r] = IF set = KeepBoth THEN Free ELSE loc]
  BY InvTypes DEF Answer
<1>2. RequestOK(req[r], minted, opened, ended) /\ req[r] \in Request
  BY InvTypes
<1>3. /\ loc \in Request /\ loc.pc = "answered" /\ loc.set = set /\ loc.to = "none"
      /\ loc.kind = req[r].kind /\ loc.browser = req[r].browser /\ loc.host = req[r].host
      /\ loc.cookie = req[r].cookie /\ loc.state = req[r].state /\ loc.header = req[r].header
  BY <1>2 DEF Request
<1> HIDE DEF loc
<1>4. CallbackOK(loc, minted)
  BY <1>2, <1>3 DEF RequestOK, CallbackOK
<1>5. CsrfOK(loc, minted)
  BY <1>2, <1>3 DEF RequestOK, CsrfOK, Keep
<1>6. SessOK(loc, minted, opened, ended)
  BY <1>2, <1>3 DEF RequestOK, SessOK, Keep
<1>7. RequestOK(loc, minted, opened, ended)
  BY <1>2, <1>3, <1>4, <1>5, <1>6 DEF RequestOK
<1>8. QED
  BY <1>1, <1>7, FreeOK, PutLocals

LEMMA GrantInv == ASSUME LoginInv, Grant PROVE LoginInv'
<1>1. grants' \in Seq(1..Len(minted))
  BY DEF Grant, LoginInv, StoresOK
<1>2. ClientTypeOK' /\ UNCHANGED <<jar, minted, offered, opened, ended, req>>
  BY ClientUnmoved DEF Grant, LoginInv
<1>3. QED
  BY <1>1, <1>2 DEF LoginInv, StoresOK

LEMMA DeliverInv == ASSUME LoginInv, NEW r \in Callers, Deliver(r) PROVE LoginInv'
<1> DEFINE a == req[r]
           b == a.browser
<1>1. /\ RequestOK(a, minted, opened, ended) /\ a \in Request
      /\ b \in Browsers /\ a.set \in [csrf : Nat \union {Keep}, sess : Nat \union {Keep}]
  BY InvTypes DEF Request
<1>2. /\ ClientTypeOK' /\ UNCHANGED <<minted, grants, opened, ended>>
      /\ req' = [req EXCEPT ![r] = Free]
  BY ClientUnmoved DEF Deliver, LoginInv
<1>3. RequestsOK(req', minted', opened', ended')
  BY <1>2, FreeOK, Unmoved, InvTypes, PutRequest
<1>4. offered' \subseteq 1..Len(minted)
  <2>1. a.to = "discord" => a.state \in 1..Len(minted)
    BY <1>1 DEF RequestOK, CsrfOK
  <2>2. offered \subseteq 1..Len(minted)
    BY DEF LoginInv, StoresOK
  <2>3. offered' = IF a.to = "discord" THEN offered \union {a.state} ELSE offered
    BY DEF Deliver
  <2>4. QED
    BY <2>1, <2>2, <2>3
<1>5. JarsOK(jar', minted, opened)
  <2>1. JarsOK(jar, minted, opened) /\ jar \in [Browsers -> [csrf : Nat, sess : Nat]]
    BY DEF LoginInv, JarsOK
  <2>2. ASSUME Shared(a.host) PROVE JarsOK([jar EXCEPT ![b] = After(jar[b], a.set)], minted, opened)
    <3> DEFINE k == After(jar[b], a.set)
    <3>1. jar[b].csrf \in Nat /\ jar[b].sess \in Nat /\ CookiesOK(jar[b], b, minted, opened)
      BY <1>1, <2>1 DEF JarsOK
    <3>2. /\ k.csrf = IF a.set.csrf = Keep THEN jar[b].csrf ELSE a.set.csrf
          /\ k.sess = IF a.set.sess = Keep THEN jar[b].sess ELSE a.set.sess
          /\ k \in [csrf : Nat, sess : Nat]
      BY <1>1, <3>1 DEF After
    <3> HIDE DEF k
    <3>3. k.csrf # 0 => Began(k.csrf, b, minted)
      <4>1. a.set.csrf > 0 => Began(a.set.csrf, b, minted)
        BY <1>1, <2>2 DEF RequestOK, CsrfOK, Began
      <4>2. QED
        BY <1>1, <3>1, <3>2, <4>1 DEF CookiesOK, Keep
    <3>4. k.sess \notin {0, Old} => Own(k.sess, b, minted, opened)
      <4>1. a.set.sess > 0 => Own(a.set.sess, b, minted, opened)
        BY <1>1 DEF RequestOK, SessOK
      <4>2. QED
        BY <1>1, <3>1, <3>2, <4>1 DEF CookiesOK, Keep
    <3>5. CookiesOK(k, b, minted, opened)
      BY <3>3, <3>4 DEF CookiesOK
    <3>6. QED
      BY <1>1, <2>1, <3>2, <3>5 DEF JarsOK, k
  <2>3. jar' = IF Shared(a.host) THEN [jar EXCEPT ![b] = After(jar[b], a.set)] ELSE jar
    BY DEF Deliver
  <2>4. QED
    BY <2>1, <2>2, <2>3
<1>6. QED
  BY <1>2, <1>3, <1>4, <1>5 DEF LoginInv, StoresOK

LEMMA LoseInv == ASSUME LoginInv, NEW r \in Callers, Lose(r) PROVE LoginInv'
<1>1. /\ req' = [req EXCEPT ![r] = Free] /\ ClientTypeOK'
      /\ UNCHANGED <<jar, minted, offered, grants, opened, ended>>
  BY ClientUnmoved DEF Lose, LoginInv
<1>2. QED
  BY <1>1, FreeOK, PutLocals

LEMMA ForgetInv == ASSUME LoginInv, NEW b \in Browsers, Forget(b) PROVE LoginInv'
<1>1. /\ ClientTypeOK' /\ UNCHANGED <<minted, offered, grants, opened, ended, req>>
  BY ClientUnmoved DEF Forget, LoginInv
<1>2. JarsOK(jar', minted, opened)
  BY DEF Forget, LoginInv, JarsOK, CookiesOK
<1>3. QED
  BY <1>1, <1>2 DEF LoginInv

LEMMA RequestsStay ==
    ASSUME LoginInv, UNCHANGED <<req, minted, opened>>, ended \subseteq ended'
    PROVE  RequestsOK(req', minted', opened', ended')
<1>1. \A r \in Callers : RequestOK(req[r], minted, opened, ended')
  BY InvTypes, Unmoved, RequestStays
<1>2. QED
  BY <1>1, InvTypes DEF RequestsOK

LEMMA EndSessionInv ==
    ASSUME LoginInv, NEW i \in 1..Len(opened), EndSession(i)
    PROVE  LoginInv'
<1>1. /\ ClientTypeOK' /\ UNCHANGED <<jar, minted, offered, grants, opened, req>>
      /\ ended' = ended \union {i}
  BY ClientUnmoved DEF EndSession, LoginInv
<1>2. RequestsOK(req', minted', opened', ended')
  BY <1>1, RequestsStay
<1>3. QED
  BY <1>1, <1>2 DEF LoginInv, StoresOK

LEMMA HeldIs == \A i : Held(i) <=> i \in (1..Len(opened)) \ ended
BY DEF Held

\* A state is made for the host of the request, and named in its answer.
LEMMA MintInv ==
    ASSUME LoginInv, NEW r \in Callers, req[r].pc = "sent", req[r].kind \in {"page", "asset"},
           IsLoginNavigation(req[r].header), NEW sess \in {Keep, 0},
           sess = 0 => ~Held(req[r].cookie),
           minted' = Append(minted,
               [browser |-> req[r].browser, from |-> req[r].host, host |-> OriginalHost(req[r].host)]),
           req' = [req EXCEPT ![r].pc = "answered", ![r].to = "discord", ![r].state = Len(minted'),
                              ![r].set = [csrf |-> Len(minted'), sess |-> sess]],
           UNCHANGED <<jar, offered, grants, opened, ended>>, ClientTypeOK'
    PROVE  LoginInv'
<1> DEFINE a == req[r]
           n == Len(minted) + 1
           new == [browser |-> a.browser, from |-> a.host, host |-> OriginalHost(a.host)]
           set == [csrf |-> n, sess |-> sess]
           loc == [a EXCEPT !.pc = "answered", !.to = "discord", !.state = n, !.set = set]
<1>1. RequestOK(a, minted, opened, ended) /\ a \in Request /\ n \in Nat /\ n > 0
  BY InvTypes
<1>2. new \in Login
  <2>1. a.browser \in Browsers /\ a.host \in Name
    BY <1>1 DEF Request
  <2>2. OriginalHost(a.host) \in Name
    BY <2>1 DEF OriginalHost, Name
  <2>3. QED
    BY <2>1, <2>2 DEF Login
<1> HIDE DEF new
<1>3. /\ minted' = Append(minted, new) /\ minted' \in Seq(Login) /\ Len(minted') = n
      /\ minted'[n] = new /\ \A s \in 1..Len(minted) : minted'[s] = minted[s]
  BY <1>2, InvTypes DEF new
<1>4. Extends(minted, minted') /\ Extends(opened, opened)
  BY <1>3, InvTypes DEF Extends
<1>5. StoresOK(minted', offered, grants, opened, ended)
  <2>1. MintedOK(minted')
    <3>1. /\ new.host = OriginalHost(new.from)
          /\ CookieDomain = <<>> => new.from = AuthHost
      BY <1>1 DEF RequestOK, new
    <3>2. MintedOK(minted)
      BY DEF LoginInv, StoresOK
    <3>3. \A s \in 1..n : s \in 1..Len(minted) \/ s = n
      BY InvTypes
    <3>4. QED
      BY <1>3, <3>1, <3>2, <3>3 DEF MintedOK
  <2>2. offered \subseteq 1..Len(minted') /\ grants \in Seq(1..Len(minted'))
    <3>1. 1..Len(minted) \subseteq 1..Len(minted')
      BY <1>3, InvTypes
    <3>2. offered \subseteq 1..Len(minted) /\ grants \in Seq(1..Len(minted))
      BY DEF LoginInv, StoresOK
    <3>3. QED
      BY <3>1, <3>2
  <2>3. \A i \in 1..Len(opened) : Own(i, opened[i].browser, minted', opened)
    <3>1. \A s \in 1..Len(minted) : s \in 1..Len(minted')
      BY <1>3, InvTypes
    <3>2. QED
      BY <1>3, <3>1 DEF LoginInv, StoresOK, Own
  <2>4. QED
    BY <1>3, <2>1, <2>2, <2>3 DEF LoginInv, StoresOK
<1>6. JarsOK(jar, minted', opened)
  <2>1. \A s \in 1..Len(minted) : s \in 1..Len(minted')
    BY <1>3, InvTypes
  <2>2. QED
    BY <1>3, <2>1 DEF LoginInv, JarsOK, CookiesOK, Began, Own
<1>7. loc \in Request
  <2>1. set \in [csrf : Nat \union {Keep}, sess : Nat \union {Keep}]
    BY <1>1
  <2> HIDE DEF set
  <2>2. QED
    BY <1>1, <2>1 DEF Request
<1>8. /\ loc.pc = "answered" /\ loc.to = "discord" /\ loc.state = n /\ loc.set.csrf = n
      /\ loc.set.sess = sess /\ loc.kind = a.kind /\ loc.browser = a.browser /\ loc.host = a.host
      /\ loc.cookie = a.cookie /\ loc.header = a.header
  BY <1>1 DEF Request
<1>9. RequestOK(a, minted', opened, ended)
  BY <1>1, <1>3, <1>4, InvTypes, RequestStays
<1>10. req' = [req EXCEPT ![r] = loc]
  <2>1. req' = [req EXCEPT ![r] = [a EXCEPT !.pc = "answered", !.to = "discord",
                     !.state = Len(minted'), !.set = [csrf |-> Len(minted'), sess |-> sess]]]
    BY InvTypes
  <2>2. QED
    BY <1>3, <2>1
<1> HIDE DEF loc
<1>11. RequestOK(loc, minted', opened, ended)
  <2>1. CallbackOK(loc, minted')
    BY <1>8, <1>9 DEF RequestOK, CallbackOK
  <2>2. CsrfOK(loc, minted')
    <3>1. n \in 1..Len(minted') /\ minted'[n].browser = a.browser /\ minted'[n].from = a.host
      BY <1>1, <1>3 DEF new
    <3>2. a.kind = "asset" => \E v \in Visits : v.kind = "asset" /\ IsLoginNavigation(v.header)
      BY <1>1 DEF RequestOK
    <3>3. QED
      BY <1>1, <1>8, <3>1, <3>2 DEF CsrfOK
  <2>3. SessOK(loc, minted', opened, ended)
    BY <1>8, <1>9, HeldIs DEF RequestOK, SessOK, Keep
  <2>4. QED
    BY <1>7, <1>8, <1>9, <2>1, <2>2, <2>3 DEF RequestOK
<1>12. RequestsOK(req', minted', opened', ended')
  BY <1>3, <1>4, <1>10, <1>11, InvTypes, PutRequest
<1>13. QED
  BY <1>5, <1>6, <1>12 DEF LoginInv

LEMMA SentIs ==
    ASSUME LoginInv, NEW r \in Callers, req[r].pc = "sent"
    PROVE  req[r].to = "none" /\ req[r].set = KeepBoth
BY InvTypes DEF RequestOK

LEMMA CookieSets ==
    \A csrf, sess \in {Keep, 0} :
        [csrf |-> csrf, sess |-> sess] \in [csrf : Nat \union {Keep}, sess : Nat \union {Keep}]
OBVIOUS

LEMMA UnauthenticatedInv ==
    ASSUME LoginInv, NEW r \in Callers, req[r].pc = "sent", req[r].kind \in {"page", "asset"},
           NEW sess \in {Keep, 0}, sess = 0 => ~Held(req[r].cookie), Unauthenticated(r, sess),
           UNCHANGED <<jar, offered, grants, opened, ended>>, ClientTypeOK'
    PROVE  LoginInv'
<1>1. CASE IsLoginNavigation(req[r].header)
  BY <1>1, MintInv DEF Unauthenticated
<1>2. CASE ~IsLoginNavigation(req[r].header)
  <2> DEFINE set == [csrf |-> Keep, sess |-> sess]
  <2>1. Answer(r, set) /\ UNCHANGED minted
    BY <1>2 DEF Unauthenticated
  <2>2. /\ set \in [csrf : Nat \union {Keep}, sess : Nat \union {Keep}]
        /\ set.csrf = Keep /\ set.sess = sess
    BY CookieSets
  <2> HIDE DEF set
  <2>3. QED
    BY <2>1, <2>2, SentIs, HeldIs, AnswerInv
<1>3. QED
  BY <1>1, <1>2

LEMMA ForwardAuthInv == ASSUME LoginInv, NEW r \in Callers, ForwardAuth(r) PROVE LoginInv'
<1>1. /\ req[r].pc = "sent" /\ req[r].kind \in {"page", "asset"}
      /\ UNCHANGED <<jar, offered, grants, opened, ended>> /\ ClientTypeOK'
  BY ClientUnmoved DEF ForwardAuth, LoginInv
<1>2. CASE Unauthenticated(r, Keep)
  BY <1>1, <1>2, UnauthenticatedInv DEF Keep
<1>3. CASE ~Held(req[r].cookie) /\ Unauthenticated(r, 0)
  BY <1>1, <1>3, UnauthenticatedInv
<1>4. CASE Answer(r, KeepBoth) /\ UNCHANGED minted
  BY <1>1, <1>4, SentIs, FreeIs, AnswerInv DEF Keep
<1>5. QED
  BY <1>2, <1>3, <1>4 DEF ForwardAuth

LEMMA ForwardAuthFailsInv ==
    ASSUME LoginInv, NEW r \in Callers, ForwardAuthFails(r)
    PROVE  LoginInv'
<1>1. /\ req[r].pc = "sent" /\ req[r].kind \in {"page", "asset"}
      /\ UNCHANGED <<jar, minted, offered, grants, opened, ended>> /\ ClientTypeOK'
  BY ClientUnmoved DEF ForwardAuthFails, LoginInv
<1>2. CASE Answer(r, KeepBoth)
  BY <1>1, <1>2, SentIs, FreeIs, AnswerInv DEF Keep
<1>3. CASE /\ ~Held(req[r].cookie)
           /\ Answer(r, [csrf |-> Keep, sess |-> IF req[r].cookie = 0 THEN Keep ELSE 0])
  <2> DEFINE set == [csrf |-> Keep, sess |-> IF req[r].cookie = 0 THEN Keep ELSE 0]
  <2>1. /\ set \in [csrf : Nat \union {Keep}, sess : Nat \union {Keep}]
        /\ set.csrf = Keep /\ set.sess \in {Keep, 0}
    BY CookieSets
  <2>2. Answer(r, set)
    BY <1>3
  <2> HIDE DEF set
  <2>3. QED
    BY <1>1, <1>3, <2>1, <2>2, SentIs, HeldIs, AnswerInv
<1>4. QED
  BY <1>2, <1>3 DEF ForwardAuthFails

LEMMA LogoutInv == ASSUME LoginInv, NEW r \in Callers, Logout(r) PROVE LoginInv'
<1> DEFINE a == req[r]
           loc == [a EXCEPT !.pc = "answered", !.set = [csrf |-> Keep, sess |-> 0]]
<1>1. /\ a.pc = "sent" /\ a.kind = "logout" /\ ClientTypeOK'
      /\ UNCHANGED <<jar, minted, offered, grants, opened>>
      /\ ended \subseteq ended' /\ ended' \subseteq 1..Len(opened)
  BY ClientUnmoved, InvTypes DEF Logout, LoginInv
<1>2. req' = [req EXCEPT ![r] = loc]
  <2> DEFINE set == [csrf |-> Keep, sess |-> 0]
  <2>1. set # KeepBoth
    <3>1. set.sess # KeepBoth.sess
      BY FreeIs DEF Keep
    <3>2. QED
      BY <3>1
  <2>2. Answer(r, set)
    BY DEF Logout
  <2> HIDE DEF set
  <2>3. req' = [req EXCEPT ![r] = [a EXCEPT !.pc = "answered", !.set = set]]
    BY <2>1, <2>2, InvTypes DEF Answer
  <2>4. QED
    BY <2>3 DEF set
<1>3. RequestOK(a, minted, opened, ended') /\ a \in Request
  BY <1>1, InvTypes, Unmoved, RequestStays
<1>4. /\ loc \in Request /\ loc.pc = "answered" /\ loc.kind = "logout" /\ loc.to = a.to
      /\ loc.set.csrf = Keep /\ loc.set.sess = 0 /\ loc.cookie = a.cookie /\ loc.host = a.host
  BY <1>1, <1>3, CookieSets DEF Request
<1> HIDE DEF loc
<1>5. RequestOK(loc, minted, opened, ended')
  BY <1>1, <1>3, <1>4, SentIs DEF RequestOK, CallbackOK, CsrfOK, SessOK, Keep
<1>6. RequestsOK(req', minted', opened', ended')
  BY <1>1, <1>2, <1>5, InvTypes, Unmoved, PutRequest
<1>7. QED
  BY <1>1, <1>6 DEF LoginInv, StoresOK

-----------------------------------------------------------------------------
LEMMA ExchangeTyped ==
    ASSUME ClientTypeOK, NEW r \in Callers, NEW code \in Nat, ExchangeCode(r, code)
    PROVE  ClientTypeOK'
<1> DEFINE loc == [Idle EXCEPT !.pc = "posted", !.code = code]
<1>1. loc \in Call
  BY CallsTyped DEF Idle, Call, Steps
<1>2. call' = [call EXCEPT ![r] = loc] /\ late' \subseteq Nat /\ spent' \subseteq Nat
  BY DEF ExchangeCode, ClientTypeOK
<1>3. QED
  BY <1>1, <1>2, PutCall

LEMMA ClientIdleTyped ==
    ASSUME ClientTypeOK, NEW r \in Callers, ClientIdle(r)
    PROVE  ClientTypeOK'
BY CallsTyped, PutCall DEF ClientIdle, ClientTypeOK

LEMMA CallbackInv == ASSUME LoginInv, NEW r \in Callers, Callback(r) PROVE LoginInv'
<1> DEFINE a == req[r]
           loc == [a EXCEPT !.pc = "discord", !.set = [csrf |-> 0, sess |-> Keep]]
<1>1. /\ a.pc = "sent" /\ a.kind = "callback" /\ a \in Request
      /\ RequestOK(a, minted, opened, ended)
      /\ UNCHANGED <<jar, minted, offered, grants, opened, ended>>
  BY InvTypes DEF Callback
<1>2. CASE ~Accepted(r)
  <2>1. Answer(r, KeepBoth) /\ ClientTypeOK'
    BY <1>2, ClientUnmoved DEF Callback, LoginInv
  <2>2. QED
    BY <1>1, <2>1, SentIs, FreeIs, AnswerInv DEF Keep
<1>3. CASE Accepted(r)
  <2>1. ClientTypeOK'
    <3>1. a.code \in Nat /\ ExchangeCode(r, a.code)
      BY <1>1, <1>3 DEF Callback, Request
    <3>2. QED
      BY <3>1, ExchangeTyped DEF LoginInv
  <2>2. a.code # 0 /\ a.cookie # 0 /\ a.cookie = a.state
    BY <1>3 DEF Accepted
  <2>3. req' = [req EXCEPT ![r] = loc]
    <3>1. a.set = [csrf |-> Keep, sess |-> Keep]
      BY <1>1, SentIs DEF KeepBoth
    <3>2. req' = [req EXCEPT ![r] = [a EXCEPT !.pc = "discord", !.set = [a.set EXCEPT !.csrf = 0]]]
      BY <1>1, <1>3, InvTypes DEF Callback, Request
    <3>3. [a.set EXCEPT !.csrf = 0] = [csrf |-> 0, sess |-> Keep]
      BY <3>1
    <3>4. QED
      BY <3>2, <3>3
  <2>4. /\ loc \in Request /\ loc.pc = "discord" /\ loc.kind = "callback" /\ loc.to = "none"
        /\ loc.set.csrf = 0 /\ loc.set.sess = Keep /\ loc.cookie = a.cookie
        /\ loc.state = a.state /\ loc.code = a.code /\ loc.browser = a.browser /\ loc.host = a.host
    BY <1>1, CookieSets, SentIs DEF Request
  <2> HIDE DEF loc
  <2>5. RequestOK(loc, minted, opened, ended)
    BY <1>1, <2>2, <2>4 DEF RequestOK, CallbackOK, CsrfOK, SessOK, Keep
  <2>6. QED
    BY <1>1, <2>1, <2>3, <2>5, PutLocals
<1>4. QED
  BY <1>2, <1>3

LEMMA LoginFailsInv == ASSUME LoginInv, NEW r \in Callers, LoginFails(r) PROVE LoginInv'
<1>1. /\ req[r].pc = "discord" /\ Answer(r, req[r].set) /\ ClientTypeOK'
      /\ UNCHANGED <<jar, minted, offered, grants, opened, ended>>
  BY ClientIdleTyped DEF LoginFails, LoginInv
<1>2. /\ req[r].set \in [csrf : Nat \union {Keep}, sess : Nat \union {Keep}]
      /\ req[r].to = "none" /\ req[r].set.sess = Keep /\ req[r].kind = "callback"
      /\ req[r].set.csrf \in {Keep, 0}
  BY <1>1, InvTypes DEF Request, RequestOK, CallbackOK, CsrfOK
<1>3. QED
  BY <1>1, <1>2, AnswerInv DEF Keep

\* The session that a login opens is the browser's own, and goes where it began.
LEMMA HomeIsOrigin ==
    ASSUME LoginInv, NEW s \in 1..Len(minted), Shared(minted[s].from)
    PROVE  Home(minted[s].host) = minted[s].from
<1>1. /\ minted[s] \in Login
      /\ minted[s].host = OriginalHost(minted[s].from)
      /\ CookieDomain = <<>> => minted[s].from = AuthHost
  BY DEF LoginInv, StoresOK, MintedOK
<1> DEFINE h == minted[s].from
<1>2. h \in Seq(Labels) /\ CookieDomain \in Seq(DnsLabels)
  BY <1>1, LabelsAssumption DEF Login, Name
<1>3. CASE CookieDomain = <<>>
  BY <1>1, <1>3 DEF Home, OriginalHost
<1>4. CASE CookieDomain # <<>>
  <2>1. Len(CookieDomain) > 0
    BY <1>2, <1>4
  <2>2. h # <<>> /\ HostAllowed(h)
    BY <1>2, <1>4, <2>1 DEF Shared, HostAllowed, UnderDomain
  <2>3. QED
    BY <1>1, <2>2 DEF Home, OriginalHost
<1>5. QED
  BY <1>3, <1>4

LEMMA OpenInv ==
    ASSUME LoginInv, NEW r \in Callers, req[r].pc = "discord", Open(r)
    PROVE  LoginInv'
<1> DEFINE a == req[r]
           n == Len(opened) + 1
           new == [browser |-> a.browser, code |-> a.code, state |-> a.state,
                   home |-> Home(minted[a.state].host)]
           loc == [a EXCEPT !.pc = "answered", !.set = [csrf |-> a.set.csrf, sess |-> n],
                            !.to = "home"]
<1>1. /\ a \in Request /\ RequestOK(a, minted, opened, ended) /\ n \in Nat /\ n > 0
      /\ a.kind = "callback" /\ a.cookie = a.state /\ Began(a.state, a.browser, minted)
      /\ a.set.csrf \in {0, Keep} /\ a.set \in [csrf : Nat \union {Keep}, sess : Nat \union {Keep}]
      /\ Len(opened) < MaxIds /\ MaxIds \in Nat
  BY InvTypes, LoginAssumption DEF RequestOK, CallbackOK, CsrfOK, Open, Request
<1>2. new \in Session /\ new.home = minted[new.state].from
  <2>0. /\ minted \in Seq(Login) /\ a.state \in 1..Len(minted) /\ Shared(minted[a.state].from)
    BY <1>1, InvTypes DEF Began
  <2>1. Home(minted[a.state].host) = minted[a.state].from /\ minted[a.state] \in Login
    <3>1. Home(minted[a.state].host) = minted[a.state].from
      BY <2>0, HomeIsOrigin
    <3>2. QED
      BY <2>0, <3>1
  <2>2. minted[a.state].from \in Name /\ a.browser \in Browsers /\ a.code \in Nat /\ a.state \in Nat
    BY <1>1, <2>0, <2>1 DEF Login, Request
  <2>3. QED
    BY <2>1, <2>2 DEF Session
<1>3. new.browser = a.browser /\ new.state = a.state
  OBVIOUS
<1> HIDE DEF new
<1>4. /\ opened' = Append(opened, new) /\ opened' \in Seq(Session) /\ Len(opened') = n
      /\ opened'[n] = new /\ \A i \in 1..Len(opened) : opened'[i] = opened[i]
      /\ UNCHANGED <<jar, minted, offered, grants, ended>> /\ ClientTypeOK'
  BY <1>2, InvTypes, ClientIdleTyped DEF new, Open, LoginInv
<1>5. Extends(opened, opened') /\ Extends(minted, minted)
  BY <1>4, InvTypes DEF Extends
<1>6. Own(n, a.browser, minted, opened')
  BY <1>1, <1>2, <1>3, <1>4 DEF Own, Began
<1>7. \A i \in 1..Len(opened) : \A b : Own(i, b, minted, opened) => Own(i, b, minted, opened')
  BY <1>4, InvTypes DEF Own
<1>8. StoresOK(minted', offered', grants', opened', ended')
  <2>1. \A i \in 1..n : i \in 1..Len(opened) \/ i = n
    BY InvTypes
  <2>2. \A i \in 1..n : Own(i, opened'[i].browser, minted, opened')
    BY <1>3, <1>4, <1>6, <1>7, <2>1 DEF LoginInv, StoresOK
  <2>3. ended \subseteq 1..n /\ n <= MaxIds
    BY <1>1, InvTypes
  <2>4. QED
    BY <1>4, <2>2, <2>3 DEF LoginInv, StoresOK
<1>9. JarsOK(jar', minted', opened')
  BY <1>4, <1>7, InvTypes DEF LoginInv, JarsOK, CookiesOK, Own
<1>10. /\ loc \in Request /\ loc.pc = "answered" /\ loc.kind = "callback" /\ loc.to = "home"
       /\ loc.set.csrf = a.set.csrf /\ loc.set.sess = n /\ loc.cookie = a.cookie
       /\ loc.state = a.state /\ loc.browser = a.browser /\ loc.host = a.host
  <2> DEFINE set == [csrf |-> a.set.csrf, sess |-> n]
  <2>1. set \in [csrf : Nat \union {Keep}, sess : Nat \union {Keep}]
        /\ set.csrf = a.set.csrf /\ set.sess = n
    BY <1>1
  <2> HIDE DEF set
  <2>2. QED
    BY <1>1, <2>1 DEF Request
<1>11. req' = [req EXCEPT ![r] = loc]
  <2>1. req' = [req EXCEPT ![r] = [a EXCEPT !.pc = "answered",
                                   !.set = [a.set EXCEPT !.sess = Len(opened')], !.to = "home"]]
    BY InvTypes DEF Open
  <2>2. [a.set EXCEPT !.sess = n] = [csrf |-> a.set.csrf, sess |-> n]
    BY <1>1
  <2>3. QED
    BY <1>4, <2>1, <2>2
<1> HIDE DEF loc
<1>12. RequestOK(loc, minted, opened', ended)
  <2>0. Len(opened') <= MaxIds /\ minted \in Seq(Login) /\ opened \in Seq(Session)
    BY <1>1, <1>4, InvTypes
  <2>1. RequestOK(a, minted, opened', ended)
    BY <1>1, <1>4, <1>5, <2>0, RequestStays
  <2>2. QED
    BY <1>1, <1>6, <1>10, <2>1 DEF RequestOK, CallbackOK, CsrfOK, SessOK, Keep
<1>13. RequestsOK(req', minted', opened', ended')
  <2>1. Len(opened') <= MaxIds /\ minted' = minted /\ ended' = ended /\ minted \in Seq(Login)
    BY <1>1, <1>4, InvTypes
  <2>2. RequestOK(loc, minted', opened', ended') /\ Extends(minted, minted')
    BY <1>5, <1>12, <2>1
  <2>3. ended \subseteq ended'
    BY <2>1
  <2>4. QED
    BY <1>4, <1>5, <1>11, <2>1, <2>2, <2>3, PutRequest
<1>14. QED
  BY <1>4, <1>8, <1>9, <1>13 DEF LoginInv

LEMMA CrashInv == ASSUME LoginInv, Crash PROVE LoginInv'
<1>1. /\ UNCHANGED <<jar, minted, offered, grants, opened, ended, spent>>
      /\ req' = [r \in Callers |-> IF req[r].pc = "answered" THEN req[r] ELSE Free]
      /\ call' = [r \in Callers |-> Idle]
      /\ late' = late \union {call[r].code : r \in {c \in Callers : call[c].pc = "posted"}}
  BY DEF Crash
<1>2. ClientTypeOK'
  BY <1>1, CallsTyped DEF LoginInv, ClientTypeOK, Call
<1>3. RequestsOK(req', minted, opened, ended)
  BY <1>1, FreeOK, FreeIs, InvTypes DEF RequestsOK
<1>4. QED
  BY <1>1, <1>2, <1>3 DEF LoginInv

LEMMA StepInv == LoginInv /\ [Next]_vars => LoginInv'
<1> SUFFICES ASSUME LoginInv, [Next]_vars PROVE LoginInv'
  OBVIOUS
<1>1. ASSUME UNCHANGED loginVars, ClientTypeOK' PROVE LoginInv'
  BY <1>1 DEF loginVars, LoginInv
<1>2. ASSUME NEW r \in Callers, Serve(r) PROVE LoginInv'
  <2>1. CASE LoginSucceeds(r)
    BY <2>1, OpenInv DEF LoginSucceeds
  <2>2. CASE ClientStep(r) /\ UNCHANGED loginVars
    BY <1>1, <2>2, ClientStepTyped DEF LoginInv
  <2>3. QED
    BY <1>2, <2>1, <2>2, ForwardAuthInv, ForwardAuthFailsInv, LogoutInv, CallbackInv, LoginFailsInv
       DEF Serve
<1>3. CASE Outside
  <2>1. ASSUME NEW r \in Callers, DiscordAnswers(r), UNCHANGED loginVars PROVE LoginInv'
    BY <1>1, <2>1, ClientStepTyped DEF LoginInv
  <2>2. ASSUME NEW code \in late, DiscordRedeemsLate(code), UNCHANGED loginVars PROVE LoginInv'
    <3>1. ClientTypeOK'
      BY <2>2 DEF LoginInv, DiscordRedeemsLate, ClientTypeOK
    <3>2. QED
      BY <1>1, <2>2, <3>1
  <2>3. QED
    BY <1>3, <2>1, <2>2, SendInv, SendCallbackInv, DeliverInv, LoseInv, GrantInv, ForgetInv,
       EndSessionInv, CrashInv DEF Outside
<1>4. CASE UNCHANGED vars
  BY <1>1, <1>4, ClientUnmoved DEF vars, LoginInv
<1>5. QED
  BY <1>2, <1>3, <1>4 DEF Next

LEMMA SpecInv == Spec => []LoginInv
BY InitInv, StepInv, PTL DEF Spec

\* Every variable keeps its type, and every state the service has made decodes.
THEOREM LoginsTyped == Spec => []TypeOK
<1>1. LoginInv => TypeOK
  <2> SUFFICES ASSUME LoginInv PROVE TypeOK
    OBVIOUS
  <2>1. \A s \in 1..Len(minted) : Decodes(minted[s])
    BY DEF LoginInv, StoresOK, MintedOK, Decodes, OriginalHost
  <2>2. QED
    BY <2>1 DEF LoginInv, StoresOK, JarsOK, RequestsOK, TypeOK
<1>2. QED
  BY <1>1, SpecInv, PTL

\* Whoever is signed in has signed in in this browser, for a login that began in it, and
\* is sent back to where it began: for any hosts and any number of tabs.
THEOREM LoginsAreOwn == Spec => []OwnLogins
<1>1. LoginInv => OwnLogins
  BY DEF LoginInv, JarsOK, CookiesOK, Own, OwnLogins
<1>2. QED
  BY <1>1, SpecInv, PTL

-----------------------------------------------------------------------------
(* What an answer does when it arrives.                                    *)

LEMMA ArrivesDelivers ==
    ASSUME LoginInv, [Next]_vars, NEW r \in Callers, Arrives(r)
    PROVE  Deliver(r)
<1>1. jar' # jar /\ req[r].pc = "answered" /\ req'[r].pc = "free"
  BY DEF Arrives
<1>2. ASSUME NEW q \in Callers PROVE ~Serve(q)
  BY <1>1 DEF Serve, ForwardAuth, ForwardAuthFails, Logout, Callback, LoginFails, LoginSucceeds,
              Open, loginVars
<1>3. ASSUME NEW b \in Browsers PROVE ~Forget(b)
  BY <1>1 DEF Forget
<1>4. ASSUME NEW q \in Callers, Deliver(q) PROVE q = r
  BY <1>1, <1>4, InvTypes DEF Deliver
<1>5. ~(UNCHANGED vars)
  BY <1>1 DEF vars, loginVars
<1>6. ASSUME Outside PROVE \E q \in Callers : Deliver(q)
  BY <1>1, <1>3, <1>6 DEF Outside, Send, SendCallback, Lose, Grant, EndSession, Crash, loginVars
<1>7. QED
  BY <1>2, <1>4, <1>5, <1>6 DEF Next

\* No answer but a logout's takes away the cookie of a live session, except a 401 to a
\* request that was sent with a different, earlier cookie.
THEOREM LiveCookiesStay == Spec => ClearsOnlyDead
<1>1. ASSUME LoginInv, [Next]_vars, NEW r \in Callers, Arrives(r), req[r].kind # "logout",
             Held(jar[req[r].browser].sess), jar'[req[r].browser].sess = 0
      PROVE  req[r].cookie # jar[req[r].browser].sess
  <2> DEFINE a == req[r]
             b == a.browser
  <2>1. Deliver(r) /\ RequestOK(a, minted, opened, ended) /\ b \in Browsers
    BY <1>1, ArrivesDelivers, InvTypes DEF Request
  <2>2. jar' = [jar EXCEPT ![b] = After(jar[b], a.set)]
    BY <1>1, <2>1 DEF Deliver, Arrives
  <2>3. jar'[b] = After(jar[b], a.set)
    BY <1>1, <2>1, <2>2, InvTypes
  <2>4. jar[b].sess \in (1..Len(opened)) \ ended
    BY <1>1 DEF Held
  <2>5. a.set.sess = 0
    BY <1>1, <2>3, <2>4, InvTypes DEF After
  <2>6. QED
    BY <1>1, <2>1, <2>4, <2>5 DEF RequestOK, SessOK
<1>2. LoginInv /\ [Next]_vars =>
        [\A r \in Callers : Arrives(r) /\ req[r].kind # "logout" =>
           LET b == req[r].browser
           IN  Held(jar[b].sess) /\ jar'[b].sess = 0 => req[r].cookie # jar[b].sess]_vars
  BY <1>1
<1>3. QED
  BY <1>2, SpecInv, PTL DEF Spec, ClearsOnlyDead

\* A login in progress is not disturbed, provided that nothing on a page looks like a
\* login navigation (it does in CsrfClobber.cfg).
THEOREM LoginsGoOn ==
    ASSUME \A v \in Visits : v.kind = "asset" => ~IsLoginNavigation(v.header)
    PROVE  Spec => LoginsUndisturbed
<1>1. ASSUME LoginInv, NEW r \in Callers, req[r].set.csrf # Keep
      PROVE  \/ req[r].kind = "page" /\ req[r].to = "discord"
             \/ req[r].kind = "callback" /\ req[r].cookie = req[r].state
  <2>1. CsrfOK(req[r], minted) /\ req[r].set.csrf \in Nat
    BY <1>1, InvTypes DEF RequestOK, Request
  <2>2. QED
    BY <2>1 DEF CsrfOK
<1>2. LoginInv =>
        [\A r \in Callers : Arrives(r) /\ req[r].set.csrf # Keep =>
           \/ req[r].kind = "page" /\ req[r].to = "discord"
           \/ req[r].kind = "callback" /\ req[r].cookie = req[r].state]_vars
  BY <1>1
<1>3. QED
  BY <1>2, SpecInv, PTL DEF LoginsUndisturbed

-----------------------------------------------------------------------------
(* A code opens one session: at any time one caller at most has its token, *)
(* and nobody has the token of a code that has opened a session.           *)

HasToken == {"getMe", "getMember", "member", "notMember"}

\* For the calls k, the requests q, the sessions o and the codes p that are spent.
CallsOK(k, q) ==
    \A c \in Callers : /\ k[c].pc # "idle" => q[c].pc = "discord"
                       /\ k[c].pc \in {"posted", "pause"} => k[c].code = q[c].code

TokensOK(k, q, p) ==
    /\ \A c \in Callers : k[c].pc \in HasToken => q[c].code \in p
    /\ \A c, d \in Callers : k[c].pc \in HasToken /\ k[d].pc \in HasToken /\ c # d
                               => q[c].code # q[d].code

SessionsOK(k, q, o, p) ==
    /\ \A i \in 1..Len(o) : o[i].code \in p
    /\ \A i \in 1..Len(o) : \A c \in Callers : k[c].pc \in HasToken => o[i].code # q[c].code
    /\ \A i, j \in 1..Len(o) : o[i].code = o[j].code => i = j

CodeInv == CallsOK(call, req) /\ TokensOK(call, req, spent) /\ SessionsOK(call, req, opened, spent)

\* Requests that do not wait for Discord come and go.
LEMMA CallsStay ==
    ASSUME CodeInv, UNCHANGED <<call, opened, spent>>,
           \A c \in Callers : req[c].pc = "discord" => req'[c] = req[c]
    PROVE  CodeInv'
<1>1. \A c \in Callers : call[c].pc # "idle" => req'[c] = req[c]
  BY DEF CodeInv, CallsOK
<1>2. \A c \in Callers : call[c].pc \in HasToken => call[c].pc # "idle"
  BY DEF HasToken
<1>3. CallsOK(call', req')
  BY <1>1 DEF CodeInv, CallsOK
<1>4. TokensOK(call', req', spent')
  BY <1>1, <1>2 DEF CodeInv, TokensOK
<1>5. SessionsOK(call', req', opened', spent')
  BY <1>1, <1>2 DEF CodeInv, SessionsOK
<1>6. QED
  BY <1>3, <1>4, <1>5 DEF CodeInv

\* A call moves on; it gains the token only as Discord redeems the code.
LEMMA CallMoves ==
    ASSUME CodeInv, ClientTypeOK, NEW c \in Callers, NEW loc, call' = [call EXCEPT ![c] = loc],
           UNCHANGED <<req, opened>>, spent \subseteq spent', call[c].pc # "idle",
           loc.pc \in {"posted", "pause"} =>
              call[c].pc \in {"posted", "pause"} /\ loc.code = call[c].code,
           loc.pc \in HasToken => \/ call[c].pc \in HasToken
                                  \/ /\ call[c].pc = "posted"
                                     /\ call[c].code \notin spent /\ call[c].code \in spent'
    PROVE  CodeInv'
<1>1. call'[c] = loc /\ \A d \in Callers : d # c => call'[d] = call[d]
  BY DEF ClientTypeOK
<1>2. CallsOK(call', req')
  BY <1>1 DEF CodeInv, CallsOK
<1>3. /\ loc.pc \in HasToken /\ call[c].pc \notin HasToken =>
           req[c].code \notin spent /\ req[c].code \in spent'
  BY DEF CodeInv, CallsOK
<1>4. TokensOK(call', req', spent')
  BY <1>1, <1>3 DEF CodeInv, TokensOK
<1>5. SessionsOK(call', req', opened', spent')
  BY <1>1, <1>3 DEF CodeInv, SessionsOK
<1>6. QED
  BY <1>2, <1>4, <1>5 DEF CodeInv

\* A call ends, with its request; a login that succeeds appends its code.
LEMMA CallEnds ==
    ASSUME CodeInv, ClientTypeOK, NEW r \in Callers, ClientIdle(r), req[r].pc = "discord",
           \A c \in Callers : c # r => req'[c] = req[c],
           \/ UNCHANGED opened
           \/ /\ call[r].pc \in HasToken /\ opened \in Seq(Session) /\ opened' \in Seq(Session)
              /\ \E s : opened' = Append(opened, s) /\ s.code = req[r].code
    PROVE  CodeInv'
<1>1. /\ call'[r].pc = "idle" /\ \A d \in Callers : d # r => call'[d] = call[d]
      /\ spent' = spent /\ "idle" \notin HasToken
  BY DEF ClientIdle, ClientTypeOK, Idle, HasToken
<1>2. CallsOK(call', req')
  BY <1>1 DEF CodeInv, CallsOK
<1>3. TokensOK(call', req', spent')
  BY <1>1 DEF CodeInv, TokensOK
<1>4. SessionsOK(call', req', opened', spent')
  <2>1. CASE UNCHANGED opened
    BY <1>1, <2>1 DEF CodeInv, SessionsOK
  <2>2. CASE /\ call[r].pc \in HasToken /\ opened \in Seq(Session) /\ opened' \in Seq(Session)
             /\ \E s : opened' = Append(opened, s) /\ s.code = req[r].code
    <3>1. /\ Len(opened) \in Nat /\ Len(opened') = Len(opened) + 1
          /\ opened'[Len(opened) + 1].code = req[r].code
          /\ \A i \in 1..Len(opened) : opened'[i] = opened[i]
      BY <2>2
    <3>2. \A i \in 1..Len(opened') : i \in 1..Len(opened) \/ i = Len(opened) + 1
      BY <3>1
    <3>3. req[r].code \in spent
      BY <2>2 DEF CodeInv, TokensOK
    <3>4. \A i \in 1..Len(opened) : opened[i].code # req[r].code
      BY <2>2 DEF CodeInv, SessionsOK
    <3>5. \A c \in Callers : call'[c].pc \in HasToken =>
             c # r /\ call[c].pc \in HasToken /\ req'[c].code = req[c].code /\ req[c].code # req[r].code
      BY <1>1, <2>2 DEF CodeInv, TokensOK
    <3>6. QED
      BY <1>1, <3>1, <3>2, <3>3, <3>4, <3>5 DEF CodeInv, SessionsOK
  <2>3. QED
    BY <2>1, <2>2
<1>5. QED
  BY <1>2, <1>3, <1>4 DEF CodeInv

LEMMA ThenIs == \A step : Then(step).pc = step
BY DEF Then, Idle

LEMMA RetryIs ==
    ASSUME NEW c \in Callers, NEW answer, ClientTypeOK
    PROVE  \/ Retry(c, answer).pc = "failed"
           \/ Retry(c, answer).pc = "pause" /\ Retry(c, answer).code = call[c].code
BY ThenIs DEF Retry, ClientTypeOK

LEMMA ReceiveCode ==
    ASSUME CodeInv, ClientTypeOK, NEW c \in Callers, NEW body \in Bodies, Receive(c, body),
           call[c].pc = "posted", UNCHANGED <<req, opened>>, spent \subseteq spent',
           body # "apiError" => call[c].code \notin spent /\ call[c].code \in spent'
    PROVE  CodeInv'
<1>1. PICK loc \in {Then("getMe"), Then("failed"), Retry(c, body)} :
         /\ call' = [call EXCEPT ![c] = loc]
         /\ loc = Then("getMe") => body # "apiError"
  <2>1. Then("getMe") # Then("failed")
    <3>1. Then("getMe").pc # Then("failed").pc
      BY ThenIs
    <3>2. QED
      BY <3>1
  <2>2. CASE body = "token"
    BY <2>2 DEF Receive
  <2>3. CASE body = "apiError"
    BY <2>1, <2>3 DEF Receive
  <2>4. CASE body = "garbled"
    BY <2>4 DEF Receive
  <2>5. QED
    BY <2>2, <2>3, <2>4 DEF Bodies
<1>2. /\ loc.pc \in {"getMe", "failed", "pause"}
      /\ loc.pc = "pause" => loc.code = call[c].code
      /\ loc.pc = "getMe" => body # "apiError"
  BY <1>1, ThenIs, RetryIs
<1>3. QED
  BY <1>1, <1>2, CallMoves DEF HasToken

LEMMA ClientCodes ==
    ASSUME CodeInv, ClientTypeOK, NEW c \in Callers, ClientStep(c) \/ DiscordAnswers(c),
           UNCHANGED <<req, opened>>
    PROVE  CodeInv'
<1>1. CASE GiveUp(c)
  BY <1>1, RetryIs, CallMoves DEF GiveUp, HasToken
<1>2. CASE PostAgain(c)
  <2> DEFINE loc == [call[c] EXCEPT !.pc = "posted", !.attempt = 2]
  <2>1. loc.pc = "posted" /\ loc.code = call[c].code /\ call[c].pc = "pause"
        /\ call' = [call EXCEPT ![c] = loc] /\ spent' = spent
    BY <1>2 DEF PostAgain, ClientTypeOK
  <2> HIDE DEF loc
  <2>2. QED
    BY <2>1, CallMoves DEF HasToken
<1>3. CASE Cancel(c)
  BY <1>3, ThenIs, CallMoves DEF Cancel, HasToken
<1>4. CASE GetMe(c)
  BY <1>4, ThenIs, CallMoves DEF GetMe, HasToken
<1>5. CASE GetGuildMember(c)
  BY <1>5, ThenIs, CallMoves DEF GetGuildMember, HasToken, Finished
<1>6. CASE DiscordAnswers(c)
  <2>1. PICK body \in Bodies : /\ Receive(c, body) /\ call[c].pc = "posted" /\ spent \subseteq spent'
                               /\ body # "apiError" => call[c].code \notin spent /\ call[c].code \in spent'
    BY <1>6 DEF DiscordAnswers, Bodies
  <2>2. QED
    BY <2>1, ReceiveCode
<1>7. QED
  BY <1>1, <1>2, <1>3, <1>4, <1>5, <1>6 DEF ClientStep

LEMMA CodeInit == Init => CodeInv
BY DEF Init, ClientInit, Idle, CodeInv, CallsOK, TokensOK, SessionsOK, HasToken

LEMMA CodeStep == LoginInv /\ CodeInv /\ [Next]_vars => CodeInv'
<1> SUFFICES ASSUME LoginInv, CodeInv, [Next]_vars PROVE CodeInv'
  OBVIOUS
<1>0. ClientTypeOK /\ req \in [Callers -> Request] /\ opened \in Seq(Session)
  BY InvTypes DEF LoginInv
\* Steps of requests that are not at Discord.
<1>1. ASSUME NEW r \in Callers, req[r].pc # "discord", UNCHANGED <<call, opened, spent>>,
             \E loc : req' = [req EXCEPT ![r] = loc]
      PROVE  CodeInv'
  <2>1. \A c \in Callers : c # r => req'[c] = req[c]
    BY <1>0, <1>1
  <2>2. QED
    BY <1>1, <2>1, CallsStay
<1>2. ASSUME NEW r \in Callers, ForwardAuth(r) \/ ForwardAuthFails(r) \/ Logout(r) PROVE CodeInv'
  <2>1. /\ req[r].pc = "sent" /\ UNCHANGED <<call, opened, spent>>
        /\ \E loc : req' = [req EXCEPT ![r] = loc]
    BY <1>0, <1>2 DEF ForwardAuth, ForwardAuthFails, Logout, Unauthenticated, Answer, clientVars
  <2>2. QED
    BY <1>1, <2>1
<1>3. ASSUME NEW r \in Callers, Callback(r) PROVE CodeInv'
  <2>1. CASE ~Accepted(r)
    BY <1>1, <1>3, <2>1 DEF Callback, Answer, clientVars
  <2>2. CASE Accepted(r)
    <3>1. /\ ExchangeCode(r, req[r].code) /\ req[r].pc = "sent" /\ UNCHANGED opened
          /\ req' = [req EXCEPT ![r].pc = "discord", ![r].set.csrf = 0]
      BY <1>3, <2>2 DEF Callback
    <3>2. /\ req'[r].pc = "discord" /\ req'[r].code = req[r].code
          /\ \A c \in Callers : c # r => req'[c] = req[c]
      BY <1>0, <3>1 DEF Request
    <3>3. /\ call'[r].pc = "posted" /\ call'[r].code = req[r].code /\ spent' = spent
          /\ \A c \in Callers : c # r => call'[c] = call[c]
      BY <1>0, <3>1 DEF ExchangeCode, ClientTypeOK, Idle
    <3>4. CallsOK(call', req')
      BY <3>2, <3>3 DEF CodeInv, CallsOK
    <3>5. TokensOK(call', req', spent')
      BY <3>2, <3>3 DEF CodeInv, TokensOK, HasToken
    <3>6. SessionsOK(call', req', opened', spent')
      <4>1. \A c \in Callers : call'[c].pc \in HasToken => call[c].pc \in HasToken /\ req'[c] = req[c]
        BY <3>2, <3>3 DEF HasToken
      <4>2. opened' = opened /\ spent' = spent
        BY <3>1, <3>3
      <4>3. QED
        BY <4>1, <4>2 DEF CodeInv, SessionsOK
    <3>7. QED
      BY <3>4, <3>5, <3>6 DEF CodeInv
  <2>3. QED
    BY <2>1, <2>2
<1>4. ASSUME NEW r \in Callers, LoginFails(r) PROVE CodeInv'
  <2>1. /\ ClientIdle(r) /\ req[r].pc = "discord" /\ UNCHANGED opened
        /\ \A c \in Callers : c # r => req'[c] = req[c]
    BY <1>0, <1>4 DEF LoginFails, Answer
  <2>2. QED
    BY <1>0, <2>1, CallEnds
<1>5. ASSUME NEW r \in Callers, LoginSucceeds(r) PROVE CodeInv'
  <2>1. /\ ClientIdle(r) /\ req[r].pc = "discord" /\ call[r].pc \in HasToken
        /\ \A c \in Callers : c # r => req'[c] = req[c]
    BY <1>0, <1>5 DEF LoginSucceeds, Open, HasToken
  <2>2. opened' \in Seq(Session)
    <3>1. LoginInv'
      BY <1>5, OpenInv DEF LoginSucceeds
    <3>2. QED
      BY <3>1 DEF LoginInv, StoresOK
  <2>3. \E s : opened' = Append(opened, s) /\ s.code = req[r].code
    BY <1>5 DEF LoginSucceeds, Open
  <2>4. QED
    BY <1>0, <2>1, <2>2, <2>3, CallEnds
<1>6. ASSUME NEW r \in Callers, ClientStep(r) \/ DiscordAnswers(r), UNCHANGED loginVars PROVE CodeInv'
  BY <1>0, <1>6, ClientCodes DEF loginVars
<1>7. ASSUME NEW r \in Callers, \/ \E v \in Visits : Send(r, v)
                                \/ \E b \in Browsers : SendCallback(r, b)
                                \/ Deliver(r) \/ Lose(r)
      PROVE  CodeInv'
  <2>1. /\ req[r].pc # "discord" /\ UNCHANGED <<call, opened, spent>>
        /\ \E loc : req' = [req EXCEPT ![r] = loc]
    BY <1>7 DEF Send, SendCallback, Deliver, Lose, clientVars
  <2>2. QED
    BY <1>1, <2>1
<1>8. ASSUME NEW code \in late, DiscordRedeemsLate(code), UNCHANGED loginVars PROVE CodeInv'
  BY <1>8 DEF DiscordRedeemsLate, loginVars, CodeInv, CallsOK, TokensOK, SessionsOK
<1>9. ASSUME UNCHANGED <<call, opened, spent, req>> PROVE CodeInv'
  BY <1>9, CallsStay
<1>10. CASE Crash
  <2>1. /\ \A c \in Callers : call'[c].pc = "idle"
        /\ UNCHANGED <<opened, spent>>
    BY <1>10 DEF Crash, Idle
  <2>2. QED
    BY <2>1 DEF CodeInv, CallsOK, TokensOK, SessionsOK, HasToken
<1>11. ASSUME NEW r \in Callers, Serve(r) PROVE CodeInv'
  BY <1>2, <1>3, <1>4, <1>5, <1>6, <1>11 DEF Serve
<1>12. CASE Outside
  <2>1. ASSUME Grant \/ (\E b \in Browsers : Forget(b)) \/ \E i \in 1..Len(opened) : EndSession(i)
        PROVE  CodeInv'
    BY <1>9, <2>1 DEF Grant, Forget, EndSession, clientVars
  <2>2. QED
    BY <1>6, <1>7, <1>8, <1>10, <1>12, <2>1 DEF Outside
<1>13. CASE UNCHANGED vars
  BY <1>9, <1>13 DEF vars, loginVars, clientVars
<1>14. QED
  BY <1>11, <1>12, <1>13 DEF Next

\* A code opens one session at most, whatever is sent twice, lost or answered late.
THEOREM CodesOpenOnce == Spec => []OneSessionPerCode
<1>1. CodeInv => OneSessionPerCode
  BY DEF CodeInv, SessionsOK, OneSessionPerCode
<1>2. QED
  BY <1>1, CodeInit, CodeStep, SpecInv, PTL DEF Spec

-----------------------------------------------------------------------------
LEMMA RetryAnswers ==
    ASSUME NoBlindRetry, ClientTypeOK, NEW c \in Callers, NEW loc, call' = [call EXCEPT ![c] = loc],
           loc.pc = "pause" \/ (loc.pc = "posted" /\ loc.attempt = 2) => loc.answer \in {"none", "garbled"}
    PROVE  NoBlindRetry'
BY DEF NoBlindRetry, ClientTypeOK

LEMMA RetryStep == LoginInv /\ NoBlindRetry /\ [Next]_vars => NoBlindRetry'
<1> SUFFICES ASSUME LoginInv, NoBlindRetry, [Next]_vars PROVE NoBlindRetry'
  OBVIOUS
<1>0. ClientTypeOK
  BY DEF LoginInv
<1>1. ASSUME UNCHANGED call PROVE NoBlindRetry'
  BY <1>1 DEF NoBlindRetry
<1>2. ASSUME NEW c \in Callers, NEW answer \in {"none", "garbled"},
             call' = [call EXCEPT ![c] = Retry(c, answer)]
      PROVE  NoBlindRetry'
  <2>1. \/ Retry(c, answer) = Then("failed")
        \/ Retry(c, answer) = [call[c] EXCEPT !.pc = "pause", !.answer = answer]
    BY DEF Retry
  <2>2. CASE Retry(c, answer) = Then("failed")
    BY <1>0, <1>2, <2>2, ThenIs, RetryAnswers
  <2>3. CASE Retry(c, answer) = [call[c] EXCEPT !.pc = "pause", !.answer = answer]
    <3>1. Retry(c, answer).answer = answer
      BY <1>0, <2>3 DEF ClientTypeOK
    <3>2. QED
      BY <1>0, <1>2, <3>1, RetryAnswers
  <2>4. QED
    BY <2>1, <2>2, <2>3
<1>3. ASSUME NEW c \in Callers, NEW step \in Steps \ {"posted", "pause"},
             call' = [call EXCEPT ![c] = Then(step)]
      PROVE  NoBlindRetry'
  BY <1>0, <1>3, ThenIs, RetryAnswers
<1>4. ASSUME NEW c \in Callers, ClientStep(c) PROVE NoBlindRetry'
  <2>1. CASE GiveUp(c)
    BY <1>2, <2>1 DEF GiveUp
  <2>2. CASE PostAgain(c)
    <3> DEFINE loc == [call[c] EXCEPT !.pc = "posted", !.attempt = 2]
    <3>1. loc.answer = call[c].answer /\ call[c].pc = "pause" /\ call' = [call EXCEPT ![c] = loc]
      BY <1>0, <2>2 DEF PostAgain, ClientTypeOK
    <3> HIDE DEF loc
    <3>2. loc.answer \in {"none", "garbled"}
      BY <3>1 DEF NoBlindRetry
    <3>3. QED
      BY <1>0, <3>1, <3>2, RetryAnswers
  <2>3. CASE Cancel(c) \/ GetMe(c) \/ GetGuildMember(c)
    BY <1>3, <2>3 DEF Cancel, GetMe, GetGuildMember, Steps, Finished
  <2>4. QED
    BY <1>4, <2>1, <2>2, <2>3 DEF ClientStep
<1>5. ASSUME NEW c \in Callers, NEW body \in Bodies, Receive(c, body) PROVE NoBlindRetry'
  <2>1. CASE body = "garbled"
    BY <1>2, <1>5, <2>1 DEF Receive
  <2>2. CASE body \in {"token", "apiError"}
    BY <1>3, <1>5, <2>2 DEF Receive, Steps, Finished
  <2>3. QED
    BY <2>1, <2>2 DEF Bodies
<1>6. ASSUME NEW c \in Callers, NEW code, ExchangeCode(c, code) PROVE NoBlindRetry'
  <2> DEFINE loc == [Idle EXCEPT !.pc = "posted", !.code = code]
  <2>1. call' = [call EXCEPT ![c] = loc] /\ loc.pc = "posted" /\ loc.attempt = 1
    BY <1>6 DEF ExchangeCode, Idle
  <2> HIDE DEF loc
  <2>2. ~(loc.pc = "pause" \/ (loc.pc = "posted" /\ loc.attempt = 2))
    BY <2>1
  <2>3. QED
    BY <1>0, <2>1, <2>2, RetryAnswers
<1>7. ASSUME NEW c \in Callers, ClientIdle(c) PROVE NoBlindRetry'
  BY <1>0, <1>7, RetryAnswers DEF ClientIdle, Idle
<1>8. ASSUME NEW c \in Callers, Serve(c) PROVE NoBlindRetry'
  BY <1>1, <1>4, <1>6, <1>7, <1>8 DEF Serve, ForwardAuth, ForwardAuthFails, Logout, Callback,
     LoginFails, LoginSucceeds, Open, clientVars
<1>9. CASE Outside
  <2>1. CASE Crash
    BY <2>1 DEF Crash, Idle, NoBlindRetry
  <2>2. ASSUME NEW c \in Callers, DiscordAnswers(c) PROVE NoBlindRetry'
    BY <1>5, <2>2 DEF DiscordAnswers, Bodies
  <2>3. QED
    BY <1>1, <1>9, <2>1, <2>2 DEF Outside, Send, SendCallback, Deliver, Lose, Grant, Forget,
       EndSession, DiscordRedeemsLate, clientVars
<1>10. CASE UNCHANGED vars
  BY <1>1, <1>10 DEF vars, clientVars
<1>11. QED
  BY <1>8, <1>9, <1>10 DEF Next

\* A code is not posted again after an answer of Discord's API.
THEOREM RetriesOnlyUnanswered == Spec => []NoBlindRetry
<1>1. Init => NoBlindRetry
  BY DEF Init, ClientInit, Idle, NoBlindRetry
<1>2. QED
  BY <1>1, RetryStep, SpecInv, PTL DEF Spec
=============================================================================
