----------------------------- MODULE HostAccess -----------------------------
(***************************************************************************)
(* Host names, host patterns and the access decision                       *)
(* (internal/hostpolicy/hostpolicy.go, HostAllowed in internal/config).    *)
(* A name is the sequence of its labels, lower-case and without its port:  *)
(* what NormalizeHost leaves of a spelling.  A pattern is a name whose     *)
(* first label may be Star.                                                *)
(***************************************************************************)
EXTENDS Integers, Sequences, Authz

CONSTANTS
    Labels,        \* what may stand between two dots
    DnsLabels,     \* the labels isDNSLabel accepts
    Star,          \* the label "*"
    AuthHost,      \* AUTH_HOST
    CookieDomain   \* COOKIE_DOMAIN without its leading dot, <<>> if it is empty

ASSUME LabelsAssumption ==
    /\ DnsLabels \subseteq Labels
    /\ Star \in Labels \ DnsLabels
    /\ AuthHost \in Seq(Labels)
    /\ CookieDomain \in Seq(DnsLabels)   \* or no browser would take the cookie

Name == Seq(Labels)

Wild(p) == Len(p) > 1 /\ p[1] = Star

\* At least two labels, all of them DNS labels, from position k on.
HostnameFrom(p, k) == Len(p) > k /\ \A j \in k..Len(p) : p[j] \in DnsLabels

ValidPattern(p) == HostnameFrom(p, IF Wild(p) THEN 2 ELSE 1)

\* Mutant: "*.example.com" also stands for deeper names.
MatchHostDeep(p, host) ==
    IF Wild(p)
      THEN /\ Len(host) >= Len(p) /\ host[1] \in DnsLabels
           /\ \A k \in 2..Len(p) : host[Len(host) - Len(p) + k] = p[k]
      ELSE p = host /\ host # <<>>

\* "*.example.com" stands for one label under example.com.
MatchHost(p, host) ==
    IF Wild(p)
      THEN /\ Len(host) = Len(p) /\ host[1] \in DnsLabels
           /\ \A k \in 2..Len(p) : host[k] = p[k]
      ELSE p = host /\ host # <<>>

\* labelCount, over a thousand for an exact name.
Specificity(p) == IF Wild(p) THEN Len(p) - 1 ELSE 1000 + Len(p)

\* The name is domain or lies under it.
UnderDomain(host, domain) ==
    LET d == Len(host) - Len(domain)
    IN  d >= 0 /\ \A k \in 1..Len(domain) : host[d + k] = domain[k]

HostAllowed(host) ==
    /\ host # <<>>
    /\ host = AuthHost \/ (CookieDomain # <<>> /\ UnderDomain(host, CookieDomain))

\* Mutant: without the check of COOKIE_DOMAIN.
SettableAnywhere(p) == p # <<>> /\ ValidPattern(p) /\ p # AuthHost

\* The checks of the admin API before it stores a pattern.
Settable(p) == p # <<>> /\ ValidPattern(p) /\ p # AuthHost /\ HostAllowed(p)

\* The access decision; required is the matching policy's groups, {} for no policy.
Allowed(host, groups, required) ==
    \/ IsAdmin(groups)
    \/ host = <<>> \/ host = AuthHost
    \/ groups \intersect required # {}

-----------------------------------------------------------------------------
(* What matching comes to: at most two stored patterns match a host, its   *)
(* own name and the wildcard over its first label.                         *)

Wildcard(host) == [host EXCEPT ![1] = Star]

\* The pattern that governs host among a set of patterns, <<>> if none does.
Governing(host, patterns) ==
    IF host \in patterns /\ ~Wild(host) /\ host # <<>> THEN host
    ELSE IF Len(host) > 1 /\ host[1] \in DnsLabels /\ Wildcard(host) \in patterns
           THEN Wildcard(host) ELSE <<>>
=============================================================================
