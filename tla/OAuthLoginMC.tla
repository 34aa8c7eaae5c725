---------------------------- MODULE OAuthLoginMC ----------------------------
(* Instances of OAuthLogin for TLC: browsers that send Fetch Metadata, and *)
(* an older one that does not.                                             *)
EXTENDS OAuthLogin

auth == <<"auth", "ex", "com">>
app  == <<"app", "ex", "com">>
far  == <<"app", "far", "com">>

MCDomain == <<"ex", "com">>

CONSTANTS b1, b2

Ask(kind, b, host, fetch, accept) ==
    [kind |-> kind, browser |-> b, host |-> host, header |-> [fetch |-> fetch, accept |-> accept]]

\* Pages of two hosts, of which one is not under COOKIE_DOMAIN, images, and a logout.
Modern == {Ask("page", b1, app, "navigate", "html"), Ask("page", b2, app, "navigate", "html"),
           Ask("page", b2, far, "navigate", "html"),
           Ask("asset", b1, app, "other", "any"),
           Ask("logout", b1, auth, "navigate", "html")}

\* Over plain HTTP, or from an older browser: Accept alone, which is "*/*" for a script.
Older == {Ask("page", b1, app, "none", "html"), Ask("asset", b1, app, "none", "any")}
=============================================================================
