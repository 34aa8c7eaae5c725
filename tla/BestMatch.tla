----------------------------- MODULE BestMatch -----------------------------
(***************************************************************************)
(* The loop of BestMatch over the stored policies, in whatever order the   *)
(* store lists them (Postgres sorts, the memory store iterates a map).     *)
(***************************************************************************)
EXTENDS HostAccess

CONSTANTS
    Hosts,    \* the names of X-Forwarded-Host
    Lists     \* the lists of stored patterns

\* The admin API stores settable patterns only.
ASSUME ListsAssumption ==
    /\ Hosts \subseteq Name
    /\ Lists \subseteq Seq(Name)
    /\ \A list \in Lists : \A k \in 1..Len(list) : Settable(list[k])

VARIABLES
    list, host,        \* the arguments
    i,                 \* the next policy
    bestIdx, bestScore \* the best match so far; 0 for the -1 of the code

vars == <<list, host, i, bestIdx, bestScore>>

TypeOK ==
    /\ list \in Lists /\ host \in Hosts
    /\ i \in 1..(Len(list) + 1)
    /\ bestIdx \in 0..(i - 1)
    /\ bestScore = IF bestIdx = 0 THEN -1 ELSE Specificity(list[bestIdx])

Init ==
    /\ list \in Lists /\ host \in Hosts
    /\ i = 1 /\ bestIdx = 0 /\ bestScore = -1

Beats(k) == bestIdx = 0 \/ Specificity(list[k]) > bestScore
Ties(k) == bestIdx # 0 /\ Specificity(list[k]) = bestScore

\* Mutant: the score of the new best match is not recorded.
TakeUnscored ==
    /\ i <= Len(list) /\ MatchHost(list[i], host) /\ (Beats(i) \/ Ties(i))
    /\ bestIdx' = i
    /\ i' = i + 1
    /\ UNCHANGED <<list, host, bestScore>>

\* On equal scores the code prefers the smaller string; here either may win.
Take ==
    /\ i <= Len(list) /\ MatchHost(list[i], host) /\ (Beats(i) \/ Ties(i))
    /\ bestIdx' = i /\ bestScore' = Specificity(list[i])
    /\ i' = i + 1
    /\ UNCHANGED <<list, host>>

Skip ==
    /\ i <= Len(list) /\ ~(MatchHost(list[i], host) /\ Beats(i))
    /\ i' = i + 1
    /\ UNCHANGED <<list, host, bestIdx, bestScore>>

Next == Take \/ Skip

Spec == Init /\ [][Next]_vars

-----------------------------------------------------------------------------
Done == i > Len(list)
Patterns(n) == {list[k] : k \in 1..n}
Best == IF bestIdx = 0 THEN <<>> ELSE list[bestIdx]

\* Whatever the order of the list, the loop finds the host's own policy if it has
\* one, else the policy of the wildcard over its first label, else none.
FindsGoverning == Done => Best = Governing(host, Patterns(Len(list)))

\* A policy the admin API accepted never governs a host outside COOKIE_DOMAIN.
GovernsOwnDomain == bestIdx # 0 => HostAllowed(host)
=============================================================================
