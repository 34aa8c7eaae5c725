---------------------------- MODULE BestMatchMC ----------------------------
(* Names up to two labels below the cookie domain, and one outside it. *)
EXTENDS BestMatch, SequencesExt

MCAuthHost == <<"a", "ex", "com">>
MCCookieDomain == <<"ex", "com">>

Below == {<<>>} \union {<<l>> : l \in {"a", "b", Star, "-"}}
                   \union {<<l, m>> : l \in {"a", Star, "-"}, m \in {"a", "b", Star}}

MCHosts == {p \o MCCookieDomain : p \in Below} \union {<<>>, <<"a">>, <<"a", "b", "com">>}

MCPatterns == {p \in MCHosts : Settable(p)}

\* Every order of every set of at most three patterns.
MCLists == {<<>>} \union UNION {{s \in [1..n -> MCPatterns] : IsInjective(s)} : n \in 1..3}
=============================================================================
