------------------------------- MODULE Authz -------------------------------
(***************************************************************************)
(* Groups (internal/authz/authz.go): what a member's roles entitle to, and *)
(* the admin group.  A role-to-group table is a set of pairs               *)
(* <<role, group>>, the primary key of role_group_mappings in the one      *)
(* guild that is configured.                                               *)
(***************************************************************************)
EXTENDS Naturals, Sequences

CONSTANTS
    AdminGroup,  \* ADMIN_GROUP
    Bootstrap    \* BOOTSTRAP_ADMIN_ROLE, no role at all when it is unset

GroupsIn(table, roles) == {p[2] : p \in {q \in table : q[1] \in roles}}

\* What the table says, and the admin group for the bootstrap role.
Resolve(table, roles) ==
    GroupsIn(table, roles) \union (IF Bootstrap \in roles THEN {AdminGroup} ELSE {})

\* The groups that a lookup may find which asked when table log[floor] was acknowledged:
\* those of that table or a newer one, or of the cache that an edit has just emptied.
Answers(log, floor, roles) ==
    {Resolve(t, roles) : t \in {log[v] : v \in floor..Len(log)} \union {{}}}

IsAdmin(groups) == AdminGroup \in groups
=============================================================================
