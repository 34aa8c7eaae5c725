-------------------------- MODULE SessionContract --------------------------
(***************************************************************************)
(* What the session store promises to the rest of the service.  A session  *)
(* id is opened at most once, for one identity; while it is held it        *)
(* authenticates that identity and no other; once it has ended (revoked,   *)
(* or past its expiry) it never authenticates anyone again.                *)
(***************************************************************************)

CONSTANTS
    Ids,         \* session ids, the values of the session cookie
    Identities,  \* whom a session can authenticate
    Unopened,    \* no session was ever stored under this id
    Ended        \* the session stored under this id is over

VARIABLE holder  \* holder[i] is the identity that id i authenticates now

TypeOK == holder \in [Ids -> Identities \union {Unopened, Ended}]

Held(i) == holder[i] \in Identities

Init == holder = [i \in Ids |-> Unopened]

\* A session can be over on arrival: its expiry is fixed before it is stored.
Open(i, who) ==
    /\ holder[i] = Unopened
    /\ holder' \in {[holder EXCEPT ![i] = who], [holder EXCEPT ![i] = Ended]}

\* Logout, an admin's kick, or the passing of time, for any number at once.
End(S) ==
    /\ \A i \in S : Held(i)
    /\ holder' = [i \in Ids |-> IF i \in S THEN Ended ELSE holder[i]]

Next ==
    \/ \E i \in Ids, who \in Identities : Open(i, who)
    \/ \E S \in SUBSET Ids : End(S)

Spec == Init /\ [][Next]_holder

=============================================================================
