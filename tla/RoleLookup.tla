----------------------------- MODULE RoleLookup -----------------------------
(***************************************************************************)
(* What the mapping cache of one process promises to who looks up the      *)
(* groups of roles: they are those of one table, no older than the edits   *)
(* acknowledged (at that process) before it asked, or of the cache that an *)
(* edit has just emptied.  A process that restarts has no cache, so every  *)
(* edit that was committed counts as acknowledged.                         *)
(***************************************************************************)
EXTENDS Authz

CONSTANTS Lookups, Roles, Groups

VARIABLES
    tables,  \* the contents of role_group_mappings, the last is current
    acked,   \* the newest table whose edit has been acknowledged
    lookup   \* per lookup: what was asked, when, and the answer

lookupVars == <<tables, acked, lookup>>

Table == SUBSET (Roles \X Groups)

NoLookup == [stage |-> "idle", roles |-> {}, floor |-> 1, groups |-> {}]

Init ==
    /\ tables \in {<<t>> : t \in Table} /\ acked = 1
    /\ lookup = [l \in Lookups |-> NoLookup]

Ask(l) ==
    /\ lookup[l].stage # "asked"
    /\ \E roles \in SUBSET Roles :
         lookup' = [lookup EXCEPT ![l] =
             [stage |-> "asked", roles |-> roles, floor |-> acked, groups |-> {}]]
    /\ UNCHANGED <<tables, acked>>

Answer(l) ==
    /\ lookup[l].stage = "asked"
    /\ \E groups \in Answers(tables, lookup[l].floor, lookup[l].roles) :
         lookup' = [lookup EXCEPT ![l].stage = "answered", ![l].groups = groups]
    /\ UNCHANGED <<tables, acked>>

\* These lookups get no answer.
Drop(S) == lookup' = [l \in Lookups |-> IF l \in S THEN NoLookup ELSE lookup[l]]

Fail ==
    /\ \E S \in SUBSET {l \in Lookups : lookup[l].stage = "asked"} : Drop(S)
    /\ UNCHANGED <<tables, acked>>

Edit ==
    /\ \E t \in Table : tables' = Append(tables, t)
    /\ UNCHANGED <<acked, lookup>>

Acknowledge ==
    /\ acked' \in acked..Len(tables)
    /\ UNCHANGED <<tables, lookup>>

Restart ==
    /\ Drop({l \in Lookups : lookup[l].stage = "asked"})
    /\ acked' = Len(tables)
    /\ UNCHANGED tables

Next == Acknowledge \/ Edit \/ Restart \/ Fail \/ \E l \in Lookups : Ask(l) \/ Answer(l)

Spec == Init /\ [][Next]_lookupVars
=============================================================================
