-------------------------- MODULE AuthServerProofs --------------------------
(***************************************************************************)
(* Theorems of AuthServer, for every set of requests, calls, users, roles, *)
(* groups and host patterns and every content of the database.             *)
(***************************************************************************)
EXTENDS AuthServer, TLAPS

USE ServerAssumption, LabelsAssumption DEF LoginSteps

\* What RequestsTyped says of one request.
LocalsOK(loc) ==
    /\ loc \in Locals
    /\ loc.pc = "done" <=> loc.resp # "none"
    /\ loc.pc = "decide" => loc.call.kind = "forward" /\ loc.who # NoOne
    /\ loc.pc \in LoginSteps => loc.call.kind = "login"
    /\ loc.call.kind \in AdminKinds /\ loc.pc \in {"mutate", "invalidate", "audit"}
         => loc.who # NoOne

LEMMA RequestsAreLocals ==
    ASSUME req \in [Requests -> Locals]
    PROVE  RequestsTyped <=> \A r \in Requests : LocalsOK(req[r])
BY DEF RequestsTyped, LocalsOK, Finished, Kind

\* A request that is given new locals of the right type keeps the requests typed.
LEMMA PutTyped ==
    ASSUME RequestsTyped, NEW r \in Requests, NEW loc, LocalsOK(loc),
           req' = [req EXCEPT ![r] = loc]
    PROVE  RequestsTyped'
<1>1. req' \in [Requests -> Locals]
  BY DEF RequestsTyped, LocalsOK
<1>2. \A q \in Requests : LocalsOK(req[q])
  BY RequestsAreLocals DEF RequestsTyped
<1>3. \A q \in Requests : LocalsOK(req'[q])
  BY <1>2 DEF RequestsTyped
<1>4. QED
  BY <1>1, <1>3 DEF RequestsTyped, LocalsOK, Finished, Kind

LEMMA ReplyTyped ==
    ASSUME RequestsTyped, NEW r \in Requests, NEW resp \in Responses \ {"none"},
           Reply(r, resp)
    PROVE  RequestsTyped'
<1> DEFINE loc == [req[r] EXCEPT !.pc = "done", !.resp = resp]
<1>1. req[r] \in Locals
  BY DEF RequestsTyped
<1>2. /\ loc \in Locals /\ loc.pc = "done" /\ loc.resp = resp
  BY <1>1 DEF Locals, Steps
<1>3. LocalsOK(loc)
  BY <1>2 DEF LocalsOK
<1>4. req' = [req EXCEPT ![r] = loc]
  BY DEF Reply, RequestsTyped
<1>5. QED
  BY <1>3, <1>4, PutTyped

LEMMA GotoTyped ==
    ASSUME RequestsTyped, NEW r \in Requests, NEW step \in Steps \ {"done"},
           req[r].pc # "done", Goto(r, step),
           step = "decide" => Kind(r) = "forward" /\ req[r].who # NoOne,
           step \in LoginSteps => Kind(r) = "login",
           Kind(r) \in AdminKinds /\ step \in {"mutate", "invalidate", "audit"}
             => req[r].who # NoOne
    PROVE  RequestsTyped'
<1> DEFINE loc == [req[r] EXCEPT !.pc = step]
<1>1. req[r] \in Locals /\ req[r].resp = "none"
  BY DEF RequestsTyped, Finished
<1>2. /\ loc \in Locals /\ loc.pc = step /\ loc.resp = req[r].resp
      /\ loc.who = req[r].who /\ loc.call = req[r].call
  BY <1>1 DEF Locals
<1>3. LocalsOK(loc)
  BY <1>1, <1>2 DEF LocalsOK, Kind
<1>4. req' = [req EXCEPT ![r] = loc]
  BY DEF Goto
<1>5. QED
  BY <1>3, <1>4, PutTyped

\* What HistoryTyped says of one request, for p policy tables and m mapping tables.
Memory(p, m) == [effect : BOOLEAN, since : 1..p, floor : 1..m, version : 1..m,
                 doomed : BOOLEAN, targets : SUBSET Ids, flight : SUBSET Requests,
                 acks : [Processes -> 1..m]]

\* Of a history nothing is lost when the tables grow.
LEMMA HistoryGrows ==
    ASSUME StoresTyped, HistoryTyped,
           Len(policies') \in Nat, Len(policies) <= Len(policies'),
           Len(mappings') \in Nat, Len(mappings) <= Len(mappings')
    PROVE  hist \in [Requests -> Memory(Len(policies'), Len(mappings'))]
<1>1. Len(policies) \in Nat /\ Len(mappings) \in Nat
  BY DEF StoresTyped
<1>2. /\ 1..Len(policies) \subseteq 1..Len(policies')
      /\ 1..Len(mappings) \subseteq 1..Len(mappings')
  BY <1>1
<1>3. Memory(Len(policies), Len(mappings)) \subseteq Memory(Len(policies'), Len(mappings'))
  BY <1>2 DEF Memory
<1>4. hist \in [Requests -> Memory(Len(policies), Len(mappings))]
  BY DEF HistoryTyped, Memory
<1>5. QED
  BY <1>3, <1>4

LEMMA EffectTyped ==
    ASSUME NEW r \in Requests,
           hist \in [Requests -> Memory(Len(policies'), Len(mappings'))],
           hist' \in {hist, [hist EXCEPT ![r].effect = TRUE]}
    PROVE  HistoryTyped'
<1> DEFINE M == Memory(Len(policies'), Len(mappings'))
<1>1. hist \in [Requests -> M] /\ hist[r] \in M
  OBVIOUS
<1>2. [hist[r] EXCEPT !.effect = TRUE] \in M
  BY <1>1 DEF Memory
<1>3. hist' \in {hist, [hist EXCEPT ![r] = [hist[r] EXCEPT !.effect = TRUE]]}
  OBVIOUS
<1>4. hist' \in [Requests -> M]
  <2> HIDE DEF M
  <2> QED BY <1>1, <1>2, <1>3
<1>5. QED
  BY <1>4 DEF HistoryTyped, Memory

-----------------------------------------------------------------------------
(* The session table, as SessionContract changes it. *)

LEMMA OpenTyped ==
    ASSUME Sessions!TypeOK, NEW i \in Ids, NEW who \in Identity, Sessions!Open(i, who)
    PROVE  /\ Sessions!TypeOK'
           /\ holder'[i] # Unopened
           /\ \A j \in Ids \ {i} : holder'[j] = holder[j]
           /\ holder[i] = Unopened
BY DEF Sessions!TypeOK, Sessions!Open

LEMMA EndTyped ==
    ASSUME Sessions!TypeOK, NEW S \in SUBSET Ids, Sessions!End(S)
    PROVE  /\ Sessions!TypeOK'
           /\ \A j \in S : holder'[j] = Ended
           /\ \A j \in Ids \ S : holder'[j] = holder[j]
BY DEF Sessions!TypeOK, Sessions!End

LEMMA InitTyped == Init => TypeOK
<1> SUFFICES ASSUME Init PROVE TypeOK
  OBVIOUS
<1>1. StoresTyped
  <2>1. /\ policies = <<PoliciesAtStart>> /\ mappings = <<MappingsAtStart>>
        /\ acked = [p \in Processes |-> 1]
    BY DEF Init
  <2>2. /\ policies \in Seq(PolicyTable) /\ policies # <<>>
        /\ mappings \in Seq(SUBSET (Roles \X Groups)) /\ mappings # <<>>
        /\ acked \in [Processes -> 1..Len(mappings)]
    BY <2>1
  <2>3. Sessions!TypeOK
    BY DEF Init, Sessions!TypeOK
  <2>4. audited \subseteq Requests /\ delivered \subseteq Ids /\ kicked \subseteq Ids
    BY DEF Init
  <2>5. QED
    BY <2>2, <2>3, <2>4 DEF StoresTyped
<1>2. RequestsTyped
  <2> DEFINE loc(p) == [at |-> p, pc |-> "new", call |-> AnyCall, who |-> NoOne,
                        groups |-> {}, sid |-> NoCookie, resp |-> "none"]
  <2>1. AnyCall \in Call
    BY DEF AnyCall
  <2>2. \A p \in Processes : LocalsOK(loc(p))
    BY <2>1 DEF LocalsOK, Locals, Steps, Responses
  <2>3. PICK at \in [Requests -> Processes] : req = [r \in Requests |-> loc(at[r])]
    BY DEF Init
  <2> HIDE DEF loc
  <2>4. QED
    BY <2>2, <2>3, RequestsAreLocals DEF LocalsOK
<1>3. HistoryTyped
  <2>1. Len(policies) = 1 /\ Len(mappings) = 1
    BY DEF Init
  <2>2. QED
    BY <2>1 DEF Init, HistoryTyped, Fresh
<1>4. QED
  BY <1>1, <1>2, <1>3 DEF TypeOK

LEMMA BeginTyped ==
    ASSUME TypeOK, NEW r \in Requests, NEW c \in Calls, Begin(r, c)
    PROVE  TypeOK'
<1> USE DEF TypeOK
<1>1. StoresTyped'
  BY DEF Begin, StoresTyped, Sessions!TypeOK
<1>2. RequestsTyped'
  <2> DEFINE loc == [req[r] EXCEPT !.call = c,
                                   !.pc = IF c.kind = "login" THEN "discord" ELSE "session"]
  <2>1. req[r] \in Locals /\ req[r].resp = "none"
    BY DEF Begin, RequestsTyped, Finished
  <2>2. loc \in Locals /\ loc.pc \in {"discord", "session"} /\ loc.resp = "none"
    BY <2>1 DEF Locals, Steps
  <2>3. LocalsOK(loc)
    BY <2>2 DEF LocalsOK
  <2>4. req' = [req EXCEPT ![r] = loc]
    BY DEF Begin
  <2>5. QED
    BY <2>3, <2>4, PutTyped
<1>3. HistoryTyped'
  <2> DEFINE T == IF c.kind = "revoke"
                    THEN {i \in Ids : Sessions!Held(i) /\ holder[i].user = c.user}
                  ELSE IF c.kind = "logout" THEN {c.cookie} \intersect Ids ELSE {}
             D == c.cookie \in kicked
             F == IF c.kind = "revoke" THEN InFlight ELSE {}
             A == IF c.kind = "revoke" THEN acked ELSE hist[r].acks
             new == [hist[r] EXCEPT !.since = Len(policies), !.doomed = D, !.targets = T,
                                    !.flight = F, !.acks = A]
             M == Memory(Len(policies), Len(mappings))
  <2>1. T \in SUBSET Ids /\ D \in BOOLEAN /\ F \in SUBSET Requests
    BY DEF InFlight
  <2>2. /\ Len(policies) \in 1..Len(policies) /\ acked \in [Processes -> 1..Len(mappings)]
        /\ hist \in [Requests -> M] /\ policies' = policies /\ mappings' = mappings
    BY DEF StoresTyped, HistoryTyped, Memory, Begin
  <2>3. hist' = [hist EXCEPT ![r] = new]
    BY DEF Begin
  <2>4. new \in M
    <3>1. hist[r] \in M
      BY <2>2
    <3>2. A \in [Processes -> 1..Len(mappings)]
      BY <2>2, <3>1 DEF Memory
    <3> HIDE DEF T, D, F, A
    <3> QED
      BY <2>1, <2>2, <3>1, <3>2 DEF Memory
  <2>5. hist' \in [Requests -> M]
    <3> HIDE DEF M, new
    <3> QED BY <2>2, <2>3, <2>4
  <2>6. QED
    BY <2>2, <2>5 DEF HistoryTyped, Memory
<1>4. QED
  BY <1>1, <1>2, <1>3

LEMMA OnlyRequests ==
    ASSUME TypeOK, RequestsTyped',
           UNCHANGED <<holder, policies, mappings, acked, audited, delivered, kicked, hist>>
    PROVE  TypeOK'
BY DEF TypeOK, StoresTyped, HistoryTyped, Sessions!TypeOK

\* A handler that goes on with the session it looked up.
LEMMA AdmitTyped ==
    ASSUME TypeOK, NEW r \in Requests, NEW step \in {"decide", "mutate"},
           req[r].pc = "session", NEW who \in Identity \union {NoOne},
           who = NoOne => step = "mutate" /\ Kind(r) \notin AdminKinds,
           step = "decide" => Kind(r) = "forward",
           req' = [req EXCEPT ![r].pc = step, ![r].who = who]
    PROVE  RequestsTyped'
<1> DEFINE loc == [req[r] EXCEPT !.pc = step, !.who = who]
<1>1. req[r] \in Locals /\ req[r].resp = "none"
  BY DEF TypeOK, RequestsTyped, Finished
<1>2. /\ loc \in Locals /\ loc.pc = step /\ loc.who = who /\ loc.resp = "none"
      /\ loc.call = req[r].call
  BY <1>1 DEF Locals, Steps
<1>3. LocalsOK(loc)
  BY <1>2 DEF LocalsOK, Kind
<1>4. req' = [req EXCEPT ![r] = loc]
  OBVIOUS
<1>5. QED
  BY <1>3, <1>4, PutTyped DEF TypeOK

LEMMA LiveIdentity ==
    ASSUME TypeOK, NEW r \in Requests, Live(r)
    PROVE  holder[req[r].call.cookie] \in Identity /\ holder[req[r].call.cookie] # NoOne
BY DEF Live, Sessions!Held

\* The steps that read: they change the request's locals alone.
LEMMA ReadersTyped ==
    ASSUME TypeOK, NEW r \in Requests,
           \/ ForwardSession(r) \/ AdminSession(r) \/ LogoutSession(r) \/ SessionError(r)
           \/ Decide(r) \/ DecideError(r) \/ MutationFails(r) \/ CreateFails(r)
    PROVE  TypeOK'
<1> USE DEF Responses, Steps
<1>0. RequestsTyped
  BY DEF TypeOK
<1>1. CASE ForwardSession(r)
  <2>1. RequestsTyped'
    <3>1. CASE Reply(r, "unauthenticated") \/ Reply(r, "forbidden")
      BY <1>0, <3>1, ReplyTyped
    <3>2. CASE /\ Live(r) /\ req' = [req EXCEPT ![r].pc = "decide",
                                             ![r].who = holder[req[r].call.cookie]]
      BY <1>1, <3>2, LiveIdentity, AdmitTyped DEF ForwardSession
    <3>3. QED
      BY <1>1, <3>1, <3>2 DEF ForwardSession
  <2>2. QED
    BY <1>1, <2>1, OnlyRequests DEF ForwardSession
<1>2. CASE AdminSession(r)
  <2>1. RequestsTyped'
    <3>1. CASE Reply(r, "unauthenticated") \/ Reply(r, "forbidden")
      BY <1>0, <3>1, ReplyTyped
    <3>2. CASE /\ Live(r) /\ req' = [req EXCEPT ![r].pc = "mutate",
                                             ![r].who = holder[req[r].call.cookie]]
      BY <1>2, <3>2, LiveIdentity, AdmitTyped DEF AdminSession
    <3>3. QED
      BY <1>2, <3>1, <3>2 DEF AdminSession
  <2>2. QED
    BY <1>2, <2>1, OnlyRequests DEF AdminSession
<1>3. CASE LogoutSession(r)
  <2> DEFINE who == IF Live(r) THEN holder[req[r].call.cookie] ELSE NoOne
  <2>1. RequestsTyped'
    <3>1. CASE Reply(r, "ok")
      BY <1>0, <3>1, ReplyTyped
    <3>2. CASE req' = [req EXCEPT ![r].pc = "mutate", ![r].who = who]
      <4>1. who \in Identity \union {NoOne}
        BY LiveIdentity
      <4>2. req[r].pc = "session" /\ Kind(r) \notin AdminKinds
        BY <1>3 DEF LogoutSession, AdminKinds
      <4> HIDE DEF who
      <4>3. QED
        BY <3>2, <4>1, <4>2, AdmitTyped
    <3>3. QED
      BY <1>3, <3>1, <3>2 DEF LogoutSession
  <2>2. QED
    BY <1>3, <2>1, OnlyRequests DEF LogoutSession
<1>4. CASE SessionError(r)
  <2>1. RequestsTyped'
    BY <1>0, <1>4, ReplyTyped, GotoTyped DEF SessionError, AdminKinds
  <2>2. QED
    BY <1>4, <2>1, OnlyRequests DEF SessionError
<1>5. CASE Decide(r)
  BY <1>0, <1>5, ReplyTyped, OnlyRequests DEF Decide
<1>6. CASE DecideError(r)
  BY <1>0, <1>6, ReplyTyped, OnlyRequests DEF DecideError
<1>7. CASE MutationFails(r)
  BY <1>0, <1>7, ReplyTyped, OnlyRequests DEF MutationFails
<1>8. CASE CreateFails(r)
  BY <1>0, <1>8, ReplyTyped, OnlyRequests DEF CreateFails
<1>9. QED
  BY <1>1, <1>2, <1>3, <1>4, <1>5, <1>6, <1>7, <1>8

\* A step that commits and goes on, or is told of an error.
LEMMA CommittedTyped ==
    ASSUME TypeOK, NEW r \in Requests, NEW step \in {"audit", "invalidate"},
           req[r].pc = "mutate", Kind(r) \in AdminKinds,
           Goto(r, step) \/ Reply(r, "unavailable")
    PROVE  RequestsTyped'
<1>1. req[r].who # NoOne /\ RequestsTyped
  BY DEF TypeOK, RequestsTyped
<1>2. QED
  BY <1>1, GotoTyped, ReplyTyped DEF Responses, Steps

LEMMA AppendTyped ==
    ASSUME NEW S, NEW log \in Seq(S), NEW x \in S, NEW log2, log2 = Append(log, x)
    PROVE  /\ log2 \in Seq(S) /\ log2 # <<>>
           /\ Len(log2) = Len(log) + 1 /\ Len(log) \in Nat
OBVIOUS

\* The steps of the admin handlers that write.
LEMMA EditPolicyTyped ==
    ASSUME TypeOK, NEW r \in Requests, UpsertPolicy(r) \/ DeletePolicy(r)
    PROVE  TypeOK'
<1> USE DEF TypeOK
<1>0. Kind(r) \in AdminKinds /\ req[r].pc = "mutate"
  BY DEF UpsertPolicy, DeletePolicy, AdminKinds
<1>1. CASE UNCHANGED <<policies, hist>>
  <2>1. RequestsTyped'
    <3>1. CASE Reply(r, "rejected") \/ Reply(r, "notFound")
      BY <3>1, ReplyTyped DEF Responses
    <3>2. CASE Committed(r, "audit")
      BY <1>0, <3>2, CommittedTyped DEF Committed
    <3>3. QED
      BY <3>1, <3>2 DEF UpsertPolicy, DeletePolicy
  <2>2. QED
    BY <1>1, <2>1, OnlyRequests DEF UpsertPolicy, DeletePolicy
<1>2. CASE ~UNCHANGED <<policies, hist>>
  <2>1. PICK gs \in SUBSET Groups :
          policies' = Append(policies, [Last(policies) EXCEPT ![req[r].call.host] = gs])
    <3>1. req[r].call.groups \in SUBSET Groups /\ {} \in SUBSET Groups
      BY DEF RequestsTyped, Locals, Call
    <3>2. QED
      BY <1>2, <3>1 DEF UpsertPolicy, DeletePolicy
  <2>2. Committed(r, "audit")
    BY <1>2 DEF UpsertPolicy, DeletePolicy
  <2>3. /\ policies' \in Seq(PolicyTable) /\ policies' # <<>>
        /\ Len(policies') = Len(policies) + 1 /\ Len(policies) \in Nat
    <3>1. Last(policies) \in PolicyTable
      BY DEF Last, StoresTyped
    <3>2. [Last(policies) EXCEPT ![req[r].call.host] = gs] \in PolicyTable
      BY <3>1 DEF PolicyTable
    <3>3. policies \in Seq(PolicyTable)
      BY DEF StoresTyped
    <3>4. QED
      BY <2>1, <3>2, <3>3, AppendTyped
  <2>4. UNCHANGED <<holder, mappings, acked, audited, delivered, kicked>>
    BY DEF UpsertPolicy, DeletePolicy
  <2>5. StoresTyped'
    BY <2>3, <2>4 DEF StoresTyped, Sessions!TypeOK
  <2>6. RequestsTyped'
    BY <1>0, <2>2, CommittedTyped DEF Committed
  <2>7. HistoryTyped'
    <3>1. Len(mappings) \in Nat /\ mappings' = mappings
      BY <2>4 DEF StoresTyped
    <3>2. hist \in [Requests -> Memory(Len(policies'), Len(mappings'))]
      BY <2>3, <3>1, HistoryGrows
    <3>3. QED
      BY <2>2, <3>2, EffectTyped DEF Committed
  <2>8. QED
    BY <2>5, <2>6, <2>7
<1>3. QED
  BY <1>1, <1>2

LEMMA EditMappingTyped ==
    ASSUME TypeOK, NEW r \in Requests, EditMapping(r)
    PROVE  TypeOK'
<1> USE DEF TypeOK
<1>0. Kind(r) \in AdminKinds /\ req[r].pc = "mutate"
  BY DEF EditMapping, AdminKinds
<1>1. PICK t \in SUBSET (Roles \X Groups) : mappings' = Append(mappings, t)
  <2>1. Last(mappings) \in SUBSET (Roles \X Groups)
    BY DEF Last, StoresTyped
  <2>2. req[r].call.pair \in Roles \X Groups
    BY DEF RequestsTyped, Locals, Call
  <2>3. QED
    BY <2>1, <2>2 DEF EditMapping
<1>2. /\ mappings' \in Seq(SUBSET (Roles \X Groups)) /\ mappings' # <<>>
      /\ Len(mappings') = Len(mappings) + 1 /\ Len(mappings) \in Nat
  BY <1>1, AppendTyped DEF StoresTyped
<1>3. UNCHANGED <<holder, policies, acked, audited, delivered, kicked>>
  BY DEF EditMapping
<1>4. StoresTyped'
  BY <1>2, <1>3 DEF StoresTyped, Sessions!TypeOK
<1>5. RequestsTyped'
  BY <1>0, CommittedTyped DEF EditMapping
<1>6. HistoryTyped'
  <2> DEFINE M == Memory(Len(policies'), Len(mappings'))
             new == [hist[r] EXCEPT !.effect = TRUE, !.version = Len(mappings')]
  <2>1. Len(policies) \in Nat /\ policies' = policies
    BY <1>3 DEF StoresTyped
  <2>2. hist \in [Requests -> M] /\ hist[r] \in M
    BY <1>2, <2>1, HistoryGrows
  <2>3. Len(mappings') \in 1..Len(mappings')
    BY <1>2
  <2>4. new \in M
    BY <2>2, <2>3 DEF Memory
  <2>5. hist' = [hist EXCEPT ![r] = new]
    BY DEF EditMapping
  <2>6. hist' \in [Requests -> M]
    <3> HIDE DEF M, new
    <3> QED BY <2>2, <2>4, <2>5
  <2>7. QED
    BY <2>6 DEF HistoryTyped, Memory
<1>7. QED
  BY <1>4, <1>5, <1>6

LEMMA InvalidateTyped ==
    ASSUME TypeOK, NEW r \in Requests, Invalidate(r)
    PROVE  TypeOK'
<1> USE DEF TypeOK
<1>1. /\ req[r].pc = "invalidate" /\ Goto(r, "audit")
      /\ UNCHANGED <<holder, policies, mappings, audited, delivered, kicked, hist>>
  BY DEF Invalidate
<1>2. acked' \in [Processes -> 1..Len(mappings)]
  <2>1. req[r].at \in Processes /\ hist[r].version \in 1..Len(mappings)
    BY DEF RequestsTyped, HistoryTyped, Locals
  <2>2. QED
    BY <2>1 DEF Invalidate, StoresTyped
<1>3. StoresTyped' /\ HistoryTyped'
  BY <1>1, <1>2 DEF StoresTyped, HistoryTyped, Sessions!TypeOK
<1>4. RequestsTyped'
  <2>1. Kind(r) \in AdminKinds => req[r].who # NoOne
    BY <1>1 DEF RequestsTyped
  <2>2. QED
    BY <1>1, <2>1, GotoTyped DEF Steps
<1>5. QED
  BY <1>3, <1>4

LEMMA SessionStepTyped ==
    ASSUME TypeOK, NEW r \in Requests, Sessions!TypeOK', RequestsTyped',
           hist' \in {hist, [hist EXCEPT ![r].effect = TRUE]},
           UNCHANGED <<policies, mappings, acked, audited, delivered, kicked>>
    PROVE  TypeOK'
<1>1. StoresTyped'
  BY DEF TypeOK, StoresTyped
<1>2. hist \in [Requests -> Memory(Len(policies'), Len(mappings'))]
  BY DEF TypeOK, HistoryTyped, Memory
<1>3. HistoryTyped'
  BY <1>2, EffectTyped
<1>4. QED
  BY <1>1, <1>3 DEF TypeOK

\* The steps that end sessions.
LEMMA EndersTyped ==
    ASSUME TypeOK, NEW r \in Requests, RevokeUser(r) \/ Logout(r)
    PROVE  TypeOK'
<1>1. CASE RevokeUser(r)
  <2> DEFINE S == {i \in Ids : Sessions!Held(i) /\ holder[i].user = req[r].call.user}
  <2>1. Sessions!End(S) /\ S \in SUBSET Ids
    BY <1>1 DEF RevokeUser
  <2>2. Sessions!TypeOK'
    <3> HIDE DEF S
    <3> QED BY <2>1, EndTyped DEF TypeOK, StoresTyped
  <2>3. RequestsTyped'
    BY <1>1, CommittedTyped DEF RevokeUser, Committed, AdminKinds
  <2>4. QED
    BY <1>1, <2>2, <2>3, SessionStepTyped DEF RevokeUser, Committed
<1>2. CASE Logout(r)
  <2> DEFINE S == {i \in {req[r].call.cookie} : Sessions!Held(i)}
  <2>1. Sessions!TypeOK
    BY DEF TypeOK, StoresTyped
  <2>2. Sessions!TypeOK'
    <3>1. CASE holder' = holder
      BY <2>1, <3>1 DEF Sessions!TypeOK
    <3>2. CASE Sessions!End(S)
      BY <2>1, <3>2 DEF Sessions!TypeOK, Sessions!End
    <3>3. QED
      BY <1>2, <3>1, <3>2 DEF Logout
  <2>3. RequestsTyped'
    BY <1>2, GotoTyped, ReplyTyped DEF Logout, TypeOK, Steps, Responses, AdminKinds
  <2>4. QED
    BY <1>2, <2>2, <2>3, SessionStepTyped DEF Logout
<1>3. QED
  BY <1>1, <1>2

LEMMA ResolvedGroups ==
    ASSUME TypeOK, NEW r \in Requests, NEW groups \in Lookup(r)
    PROVE  groups \in SUBSET Groups
<1>1. hist[r].floor \in 1..Len(mappings) /\ mappings \in Seq(SUBSET (Roles \X Groups))
  BY DEF TypeOK, StoresTyped, HistoryTyped
<1>2. PICK t \in {mappings[v] : v \in hist[r].floor..Len(mappings)} \union {{}} :
          groups = Resolve(t, req[r].call.roles)
  BY DEF Lookup, Answers
<1>3. t \in SUBSET (Roles \X Groups)
  BY <1>1, <1>2
<1>4. QED
  BY <1>2, <1>3 DEF Resolve, GroupsIn

LEMMA LoginTyped ==
    ASSUME TypeOK, NEW r \in Requests,
           Discord(r) \/ ResolveRoles(r) \/ CreateSession(r)
    PROVE  TypeOK'
<1>0. RequestsTyped /\ req[r] \in Locals
  BY DEF TypeOK, RequestsTyped
<1>1. CASE Discord(r)
  <2>1. RequestsTyped'
    BY <1>0, <1>1, GotoTyped, ReplyTyped DEF Discord, Steps, Responses, RequestsTyped, AdminKinds
  <2>2. StoresTyped'
    BY <1>1 DEF Discord, TypeOK, StoresTyped, Sessions!TypeOK
  <2>3. HistoryTyped'
    <3> DEFINE M == Memory(Len(policies), Len(mappings))
    <3> DEFINE floor == acked[req[r].at]
    <3>1. floor \in 1..Len(mappings) /\ hist \in [Requests -> M]
      BY <1>0 DEF TypeOK, StoresTyped, HistoryTyped, Memory, Locals
    <3>2. hist[r] \in M
      BY <3>1
    <3>3. [hist[r] EXCEPT !.floor = floor] \in M
      BY <3>1, <3>2 DEF Memory
    <3>4. hist' = [hist EXCEPT ![r] = [hist[r] EXCEPT !.floor = floor]]
      BY <1>1 DEF Discord
    <3>5. hist' \in [Requests -> M]
      <4> HIDE DEF M
      <4> QED BY <3>1, <3>3, <3>4
    <3>6. QED
      BY <1>1, <3>5 DEF Discord, HistoryTyped, Memory
  <2>4. QED
    BY <2>1, <2>2, <2>3 DEF TypeOK
<1>2. CASE ResolveRoles(r)
  <2>1. RequestsTyped'
    <3>1. CASE Reply(r, "unavailable")
      BY <1>0, <3>1, ReplyTyped DEF Responses
    <3>2. CASE ~Reply(r, "unavailable")
      <4>1. PICK groups \in Lookup(r) :
              req' = [req EXCEPT ![r].groups = groups,
                                 ![r].pc = IF groups = {} THEN "denied" ELSE "create"]
        BY <1>2, <3>2 DEF ResolveRoles
      <4>2. groups \in SUBSET Groups
        BY ResolvedGroups
      <4> DEFINE loc == [req[r] EXCEPT !.groups = groups,
                                       !.pc = IF groups = {} THEN "denied" ELSE "create"]
      <4>3. req[r].pc = "resolve" /\ req[r].resp = "none" /\ Kind(r) = "login"
        BY <1>0, <1>2 DEF ResolveRoles, RequestsTyped, Finished
      <4>4. /\ loc \in Locals /\ loc.pc \in {"denied", "create"} /\ loc.resp = "none"
            /\ loc.call = req[r].call
        BY <1>0, <4>2, <4>3 DEF Locals, Steps
      <4>5. LocalsOK(loc)
        BY <4>3, <4>4 DEF LocalsOK, Kind
      <4>6. req' = [req EXCEPT ![r] = loc]
        BY <4>1
      <4> HIDE DEF loc
      <4>7. QED
        BY <1>0, <4>5, <4>6, PutTyped
    <3>3. QED
      BY <3>1, <3>2
  <2>2. QED
    BY <1>2, <2>1, OnlyRequests DEF ResolveRoles
<1>3. CASE CreateSession(r)
  <2>1. PICK i \in Ids :
          /\ Sessions!Open(i, [user |-> req[r].call.user, groups |-> req[r].groups])
          /\ \/ req' = [req EXCEPT ![r].pc = "audit", ![r].sid = i]
             \/ Reply(r, "unavailable")
    BY <1>3 DEF CreateSession
  <2>2. [user |-> req[r].call.user, groups |-> req[r].groups] \in Identity
    BY <1>0 DEF Locals, Call, Identity
  <2>3. Sessions!TypeOK'
    BY <2>1, <2>2, OpenTyped DEF TypeOK, StoresTyped
  <2>4. RequestsTyped'
    <3> DEFINE loc == [req[r] EXCEPT !.pc = "audit", !.sid = i]
    <3>1. CASE Reply(r, "unavailable")
      BY <1>0, <3>1, ReplyTyped DEF Responses
    <3>2. CASE req' = [req EXCEPT ![r].pc = "audit", ![r].sid = i]
      <4>1. req[r].resp = "none" /\ req[r].pc = "create"
        BY <1>3 DEF CreateSession, TypeOK, RequestsTyped, Finished
      <4>2. Kind(r) \notin AdminKinds
        BY <4>1 DEF TypeOK, RequestsTyped, AdminKinds
      <4>3. loc \in Locals /\ loc.pc = "audit" /\ loc.resp = "none" /\ loc.call = req[r].call
        BY <1>0, <4>1 DEF Locals, Steps
      <4>4. LocalsOK(loc)
        BY <4>2, <4>3 DEF LocalsOK, Kind
      <4>5. QED
        BY <1>0, <3>2, <4>4, PutTyped, ZenonT(40)
    <3>3. QED
      BY <2>1, <3>1, <3>2
  <2>5. QED
    BY <1>3, <2>3, <2>4, SessionStepTyped DEF CreateSession
<1>4. QED
  BY <1>1, <1>2, <1>3

LEMMA AuditTyped ==
    ASSUME TypeOK, NEW r \in Requests, Audit(r)
    PROVE  TypeOK'
<1>1. RequestsTyped'
  BY ReplyTyped DEF TypeOK, Audit, Responses
<1>2. StoresTyped'
  <2>1. hist[r].targets \in SUBSET Ids
    BY DEF TypeOK, HistoryTyped
  <2>2. audited' \subseteq Requests /\ delivered' \subseteq Ids /\ kicked' \subseteq Ids
    BY <2>1 DEF TypeOK, StoresTyped, Audit
  <2>3. QED
    BY <2>2 DEF TypeOK, StoresTyped, Audit, Sessions!TypeOK
<1>3. HistoryTyped'
  BY DEF TypeOK, HistoryTyped, Audit
<1>4. QED
  BY <1>1, <1>2, <1>3 DEF TypeOK

\* Steps of no request: an expiry passes, the process dies.
LEMMA WorldTyped ==
    ASSUME TypeOK, (\E p \in Processes : Crash(p)) \/ \E i \in Ids : Lapse(i)
    PROVE  TypeOK'
<1>1. ASSUME NEW i \in Ids, Lapse(i) PROVE TypeOK'
  <2>1. Sessions!TypeOK'
    BY <1>1, EndTyped DEF Lapse, TypeOK, StoresTyped
  <2>2. QED
    BY <1>1, <2>1 DEF Lapse, TypeOK, StoresTyped, RequestsTyped, HistoryTyped, Finished, Kind
<1>2. ASSUME NEW p \in Processes, Crash(p) PROVE TypeOK'
  <2>1. /\ UNCHANGED <<holder, policies, mappings, audited, delivered, kicked, hist>>
        /\ acked' = [acked EXCEPT ![p] = Len(mappings)]
    BY <1>2 DEF Crash
  <2>2. acked' \in [Processes -> 1..Len(mappings)]
    BY <2>1 DEF TypeOK, StoresTyped
  <2>3. StoresTyped' /\ HistoryTyped'
    BY <2>1, <2>2 DEF TypeOK, StoresTyped, HistoryTyped, Sessions!TypeOK
  <2>4. RequestsTyped'
    <3> DEFINE loc(r) == IF Active(r) /\ req[r].at = p
                           THEN [req[r] EXCEPT !.pc = "done", !.resp = "lost"] ELSE req[r]
    <3>1. ASSUME NEW r \in Requests PROVE LocalsOK(loc(r))
      <4>1. LocalsOK(req[r]) /\ req[r] \in Locals
        BY RequestsAreLocals DEF TypeOK, RequestsTyped
      <4>2. CASE Active(r) /\ req[r].at = p
        <5>1. /\ loc(r) \in Locals /\ loc(r).pc = "done" /\ loc(r).resp = "lost"
          BY <4>1, <4>2 DEF Locals, Steps, Responses
        <5>2. QED
          BY <5>1 DEF LocalsOK
      <4>3. CASE ~(Active(r) /\ req[r].at = p)
        BY <4>1, <4>3
      <4>4. QED
        BY <4>2, <4>3
    <3>2. req' = [r \in Requests |-> loc(r)]
      BY <1>2 DEF Crash
    <3> HIDE DEF loc
    <3>3. req' \in [Requests -> Locals] /\ \A r \in Requests : LocalsOK(req'[r])
      BY <3>1, <3>2 DEF LocalsOK
    <3>4. QED
      BY <3>3 DEF RequestsTyped, LocalsOK, Finished, Kind
  <2>5. QED
    BY <2>3, <2>4 DEF TypeOK
<1>3. QED
  BY <1>1, <1>2

LEMMA TypeStep ==
    ASSUME TypeOK, [Next]_vars PROVE TypeOK'
<1>1. CASE UNCHANGED vars
  BY <1>1 DEF vars, TypeOK, StoresTyped, RequestsTyped, HistoryTyped, Sessions!TypeOK,
              Finished, Kind
<1>2. QED
  BY <1>1, BeginTyped, ReadersTyped, EditPolicyTyped, EditMappingTyped, InvalidateTyped,
     EndersTyped, LoginTyped, AuditTyped, WorldTyped DEF Next, Handle

\* Every variable keeps its type, an admin handler that mutates knows who asked, and
\* a request has a response exactly when it is done.
THEOREM TypeCorrect == Spec => []TypeOK
BY TypeStep, InitTyped, PTL DEF Spec

-----------------------------------------------------------------------------
(* Frames: what a step leaves alone. *)

\* A session id that was opened keeps its identity or is over.
Fate == \A i \in Ids : holder[i] # Unopened => holder'[i] \in {holder[i], Ended}

\* A handler touches the locals and the history of its own request alone.
Own(r) == \A q \in Requests \ {r} : req'[q] = req[q] /\ hist'[q] = hist[q]

LEMMA HandlersOwn ==
    ASSUME TypeOK, NEW r \in Requests, Handle(r)
    PROVE  Own(r)
<1>1. req \in [Requests -> Locals] /\ DOMAIN hist = Requests
  BY DEF TypeOK, RequestsTyped, HistoryTyped
<1> USE DEF Own, Goto, Reply, Committed
<1>2. ASSUME NEW c \in Calls, Begin(r, c) PROVE Own(r)
  BY <1>1, <1>2 DEF Begin
<1>3. CASE ForwardSession(r) \/ AdminSession(r) \/ LogoutSession(r) \/ SessionError(r)
  BY <1>1, <1>3 DEF ForwardSession, AdminSession, LogoutSession, SessionError
<1>4. CASE Decide(r) \/ DecideError(r) \/ MutationFails(r) \/ CreateFails(r) \/ Invalidate(r)
  BY <1>1, <1>4 DEF Decide, DecideError, MutationFails, CreateFails, Invalidate
<1>5. CASE UpsertPolicy(r) \/ DeletePolicy(r)
  BY <1>1, <1>5 DEF UpsertPolicy, DeletePolicy
<1>6. CASE EditMapping(r) \/ RevokeUser(r) \/ Logout(r)
  BY <1>1, <1>6 DEF EditMapping, RevokeUser, Logout
<1>7. CASE Discord(r) \/ ResolveRoles(r) \/ CreateSession(r)
  BY <1>1, <1>7 DEF Discord, ResolveRoles, CreateSession
<1>8. CASE Audit(r)
  BY <1>1, <1>8 DEF Audit
<1>9. QED
  BY <1>2, <1>3, <1>4, <1>5, <1>6, <1>7, <1>8 DEF Handle

LEMMA Fates ==
    ASSUME TypeOK, [Next]_vars
    PROVE  Fate
<1>1. Sessions!TypeOK
  BY DEF TypeOK, StoresTyped
<1>2. ASSUME NEW i \in Ids, NEW who, Sessions!Open(i, who) PROVE Fate
  BY <1>1, <1>2 DEF Fate, Sessions!TypeOK, Sessions!Open
<1>3. ASSUME NEW S, Sessions!End(S) PROVE Fate
  BY <1>3 DEF Fate, Sessions!End
<1>4. CASE UNCHANGED holder
  BY <1>4 DEF Fate
<1>5. ASSUME NEW r \in Requests, Handle(r) PROVE Fate
  <2>1. CASE RevokeUser(r) \/ Logout(r) \/ CreateSession(r)
    BY <2>1, <1>2, <1>3, <1>4 DEF RevokeUser, Logout, CreateSession
  <2>2. CASE UNCHANGED holder
    BY <2>2, <1>4
  <2>3. QED
    BY <1>5, <2>1, <2>2 DEF Handle, Begin, ForwardSession, AdminSession, LogoutSession,
       SessionError, Decide, DecideError, UpsertPolicy, DeletePolicy, EditMapping, Invalidate,
       MutationFails, Discord, ResolveRoles, CreateFails, Audit
<1>6. ASSUME NEW i \in Ids, Lapse(i) PROVE Fate
  BY <1>6, <1>3 DEF Lapse
<1>7. QED
  BY <1>4, <1>5, <1>6 DEF Next, Crash, vars

-----------------------------------------------------------------------------
(* Who may mutate, and what the audit history says of it. *)

Authorised(r) ==
    req[r].who # NoOne /\ IsAdmin(req[r].who.groups) /\ req[r].call.sameOrigin

AdminOK(r) ==
    /\ req[r].pc = "new" => ~hist[r].effect /\ r \notin audited
    /\ r \in audited => Finished(r)
    /\ Kind(r) \in AdminKinds =>
         /\ req[r].pc \in {"mutate", "invalidate", "audit"} \/ hist[r].effect => Authorised(r)
         /\ req[r].pc \in {"invalidate", "audit"} \/ r \in audited => hist[r].effect

AdminInv == \A r \in Requests : AdminOK(r)

LEMMA AdminStable ==
    ASSUME NEW q \in Requests, AdminOK(q), req'[q] = req[q], hist'[q] = hist[q],
           q \in audited' <=> q \in audited
    PROVE  AdminOK(q)'
BY DEF AdminOK, Authorised, Finished, Kind

\* What a step does to the parts of a request that AdminOK speaks of.
LEMMA AdminMoves ==
    ASSUME TypeOK, AdminInv, NEW r \in Requests, req'[r].call = req[r].call,
           req[r].pc \notin {"new", "done"}, req'[r].pc # "new",
           r \in audited' => req'[r].pc = "done",
           Kind(r) \in AdminKinds =>
             /\ req'[r].pc \in {"mutate", "invalidate", "audit"} \/ hist'[r].effect
                  => /\ req'[r].who # NoOne /\ IsAdmin(req'[r].who.groups)
                     /\ req[r].call.sameOrigin
             /\ req'[r].pc \in {"invalidate", "audit"} \/ r \in audited' => hist'[r].effect
    PROVE  AdminOK(r)'
BY DEF AdminOK, Authorised, Finished, Kind

LEMMA AdminStep ==
    ASSUME TypeOK, AdminInv, NEW r \in Requests, Handle(r)
    PROVE  AdminOK(r)'
<1> USE DEF Goto, Reply, Committed
<1>0. /\ req \in [Requests -> Locals] /\ req[r] \in Locals
      /\ hist \in [Requests -> Memory(Len(policies), Len(mappings))]
      /\ hist[r] \in Memory(Len(policies), Len(mappings))
  BY DEF TypeOK, RequestsTyped, HistoryTyped, Memory
<1>a. AdminOK(r)
  BY DEF AdminInv
<1>1. ASSUME NEW c \in Calls, Begin(r, c) PROVE AdminOK(r)'
  <2>1. /\ req'[r].pc \in {"discord", "session"} /\ hist'[r].effect = hist[r].effect
        /\ audited' = audited /\ req[r].pc = "new"
    BY <1>0, <1>1 DEF Begin, Locals, Memory
  <2>2. QED
    BY <1>a, <2>1 DEF AdminOK, Finished
<1>2. CASE ForwardSession(r) \/ LogoutSession(r) \/ Decide(r) \/ DecideError(r)
  <2>1. /\ req'[r].call = req[r].call /\ Kind(r) \notin AdminKinds
        /\ req[r].pc \notin {"new", "done"} /\ req'[r].pc # "new"
        /\ audited' = audited /\ hist' = hist
    BY <1>0, <1>2 DEF ForwardSession, LogoutSession, Decide, DecideError, AdminKinds, Locals,
       TypeOK, RequestsTyped
  <2>2. QED
    BY <1>a, <2>1, AdminMoves DEF AdminOK, Finished
<1>3. CASE AdminSession(r)
  <2>1. /\ req'[r].call = req[r].call /\ req[r].pc = "session" /\ req'[r].pc # "new"
        /\ audited' = audited /\ hist' = hist
    BY <1>0, <1>3 DEF AdminSession, Locals
  <2>2. CASE req'[r].pc = "done" /\ req'[r].who = req[r].who
    BY <1>a, <2>1, <2>2, AdminMoves DEF AdminOK, Authorised, Finished
  <2>3. CASE /\ req'[r].pc = "mutate" /\ Live(r) /\ IsAdmin(holder[req[r].call.cookie].groups)
             /\ req[r].call.sameOrigin /\ req'[r].who = holder[req[r].call.cookie]
    BY <1>a, <2>1, <2>3, LiveIdentity, AdminMoves DEF AdminOK, Finished
  <2>4. QED
    BY <1>0, <1>3, <2>2, <2>3 DEF AdminSession, Locals
<1>4. CASE SessionError(r) \/ MutationFails(r) \/ CreateFails(r)
  <2>1. /\ req'[r].call = req[r].call /\ req'[r].who = req[r].who
        /\ req[r].pc \in {"session", "mutate", "create"}
        /\ req'[r].pc = "done" \/ (req'[r].pc = "mutate" /\ Kind(r) \notin AdminKinds)
        /\ audited' = audited /\ hist' = hist
    BY <1>0, <1>4 DEF SessionError, MutationFails, CreateFails, Locals, AdminKinds
  <2>2. QED
    BY <1>a, <2>1, AdminMoves DEF AdminOK, Authorised, Finished
<1>5. CASE UpsertPolicy(r) \/ DeletePolicy(r) \/ EditMapping(r) \/ RevokeUser(r)
  <2>1. /\ req'[r].call = req[r].call /\ req'[r].who = req[r].who /\ req[r].pc = "mutate"
        /\ Kind(r) \in AdminKinds /\ audited' = audited
        /\ \/ hist'[r].effect /\ req'[r].pc \in {"audit", "invalidate", "done"}
           \/ hist' = hist /\ req'[r].pc = "done"
    BY <1>0, <1>5 DEF UpsertPolicy, DeletePolicy, EditMapping, RevokeUser, Locals, AdminKinds,
       Memory
  <2>2. QED
    BY <1>a, <2>1, AdminMoves DEF AdminOK, Authorised, Finished
<1>6. CASE Invalidate(r)
  <2>1. /\ req'[r].call = req[r].call /\ req'[r].who = req[r].who /\ req[r].pc = "invalidate"
        /\ req'[r].pc = "audit" /\ audited' = audited /\ hist' = hist
    BY <1>0, <1>6 DEF Invalidate, Locals
  <2>2. QED
    BY <1>a, <2>1, AdminMoves DEF AdminOK, Authorised, Finished
<1>7. CASE Logout(r) \/ Discord(r) \/ ResolveRoles(r) \/ CreateSession(r)
  <2>1. /\ req'[r].call = req[r].call /\ Kind(r) \notin AdminKinds
        /\ req[r].pc \notin {"new", "done"} /\ req'[r].pc # "new" /\ audited' = audited
    <3>1. CASE Logout(r) \/ Discord(r)
      BY <1>0, <3>1 DEF Logout, Discord, AdminKinds, Locals, TypeOK, RequestsTyped
    <3>2. CASE ResolveRoles(r)
      <4>1. PICK groups \in SUBSET Groups, step \in {"denied", "create"} :
              \/ req' = [req EXCEPT ![r].groups = groups, ![r].pc = step]
              \/ req' = [req EXCEPT ![r].pc = "done", ![r].resp = "unavailable"]
        BY <3>2, ResolvedGroups DEF ResolveRoles
      <4>2. req[r].pc = "resolve" /\ audited' = audited
        BY <3>2 DEF ResolveRoles
      <4>3. Kind(r) \notin AdminKinds
        BY <4>2 DEF AdminKinds, TypeOK, RequestsTyped
      <4>4. req'[r].call = req[r].call /\ req'[r].pc \in {"denied", "create", "done"}
        BY <1>0, <4>1 DEF Locals
      <4>5. QED
        BY <4>2, <4>3, <4>4
    <3>3. CASE CreateSession(r)
      <4>1. PICK i \in Ids : \/ req' = [req EXCEPT ![r].pc = "audit", ![r].sid = i]
                             \/ req' = [req EXCEPT ![r].pc = "done", ![r].resp = "unavailable"]
        BY <3>3 DEF CreateSession
      <4>2. req[r].pc = "create" /\ audited' = audited
        BY <3>3 DEF CreateSession
      <4>3. Kind(r) \notin AdminKinds
        BY <4>2 DEF AdminKinds, TypeOK, RequestsTyped
      <4>4. req'[r].call = req[r].call /\ req'[r].pc \in {"audit", "done"}
        BY <1>0, <4>1 DEF Locals
      <4>5. QED
        BY <4>2, <4>3, <4>4
    <3>4. QED
      BY <1>7, <3>1, <3>2, <3>3
  <2>2. QED
    BY <1>a, <2>1, AdminMoves DEF AdminOK, Finished
<1>8. CASE Audit(r)
  <2>1. /\ req'[r].call = req[r].call /\ req'[r].who = req[r].who
        /\ req[r].pc \in {"audit", "denied"} /\ req'[r].pc = "done" /\ hist' = hist
    BY <1>0, <1>8 DEF Audit, Locals
  <2>2. Kind(r) \in AdminKinds => req[r].pc = "audit"
    BY <2>1 DEF TypeOK, RequestsTyped, AdminKinds
  <2>3. QED
    BY <1>a, <2>1, <2>2, AdminMoves DEF AdminOK, Authorised, Finished
<1>9. QED
  BY <1>1, <1>2, <1>3, <1>4, <1>5, <1>6, <1>7, <1>8 DEF Handle

LEMMA AdminInvStep == TypeOK /\ AdminInv /\ [Next]_vars => AdminInv'
<1> SUFFICES ASSUME TypeOK, AdminInv, [Next]_vars PROVE AdminInv'
  OBVIOUS
<1>1. ASSUME NEW r \in Requests, Handle(r) PROVE AdminInv'
  <2>1. ASSUME NEW q \in Requests \ {r} PROVE AdminOK(q)'
    <3>1. req'[q] = req[q] /\ hist'[q] = hist[q]
      BY <1>1, HandlersOwn DEF Own
    <3>2. q \in audited' <=> q \in audited
      BY <1>1 DEF Handle, Begin, ForwardSession, AdminSession, LogoutSession, SessionError,
         Decide, DecideError, UpsertPolicy, DeletePolicy, EditMapping, Invalidate, RevokeUser,
         MutationFails, Logout, Discord, ResolveRoles, CreateSession, CreateFails, Audit
    <3>3. QED
      BY <3>1, <3>2, AdminStable DEF AdminInv
  <2>2. QED
    BY <1>1, <2>1, AdminStep DEF AdminInv
<1>2. ASSUME NEW p \in Processes, Crash(p) PROVE AdminInv'
  <2>1. ASSUME NEW r \in Requests PROVE AdminOK(r)'
    <3>1. req[r] \in Locals /\ AdminOK(r) /\ hist' = hist /\ audited' = audited
      BY <1>2 DEF TypeOK, RequestsTyped, AdminInv, Crash
    <3>2. CASE Active(r) /\ req[r].at = p
      <4>1. req'[r] = [req[r] EXCEPT !.pc = "done", !.resp = "lost"]
        BY <1>2, <3>2 DEF Crash
      <4>2. /\ req'[r].call = req[r].call /\ req'[r].who = req[r].who /\ req'[r].pc = "done"
            /\ req[r].pc \notin {"new", "done"}
        BY <3>1, <3>2, <4>1 DEF Active, Locals
      <4>3. QED
        BY <3>1, <4>2, AdminMoves DEF AdminOK, Authorised, Finished
    <3>3. CASE ~(Active(r) /\ req[r].at = p)
      <4>1. req'[r] = req[r]
        BY <1>2, <3>3 DEF Crash
      <4>2. QED
        BY <3>1, <4>1, AdminStable
    <3>4. QED
      BY <3>2, <3>3
  <2>2. QED
    BY <2>1 DEF AdminInv
<1>3. ASSUME NEW i \in Ids, Lapse(i) PROVE AdminInv'
  BY <1>3, AdminStable DEF Lapse, AdminInv
<1>4. CASE UNCHANGED vars
  BY <1>4, AdminStable DEF vars, AdminInv
<1>5. QED
  BY <1>1, <1>2, <1>3, <1>4 DEF Next

LEMMA AdminInvInit == Init => AdminInv
BY DEF Init, AdminInv, AdminOK, Finished, Fresh, Kind

\* Only an admin whose request came from the admin UI's origin changes policies,
\* mappings or another user's sessions.
THEOREM AdminsMutate == Spec => []OnlyAdminsMutate
<1>1. AdminInv => OnlyAdminsMutate
  BY DEF AdminInv, AdminOK, Authorised, OnlyAdminsMutate
<1>2. QED
  BY <1>1, AdminInvInit, AdminInvStep, TypeCorrect, PTL DEF Spec

\* The audit history records no admin mutation that did not happen, with crashes and
\* errors reported after the statement took effect.
THEOREM AuditTruthful == Spec => []AuditSound
<1>1. TypeOK /\ AdminInv => AuditSound
  <2> SUFFICES ASSUME TypeOK, AdminInv, NEW r \in audited, Kind(r) \in AdminKinds
               PROVE hist[r].effect
    BY DEF AuditSound
  <2>1. QED
    BY DEF AdminInv, AdminOK, TypeOK, StoresTyped
<1>2. QED
  BY <1>1, AdminInvInit, AdminInvStep, TypeCorrect, PTL DEF Spec

-----------------------------------------------------------------------------
(* Kicks.  The sessions that a kick or logout is to end are all over when  *)
(* its handler goes on to the audit, and stay so: an id is never opened    *)
(* twice.  A request that begins with one of them gets no further than the *)
(* session lookup.                                                         *)

KickOK(r) ==
    /\ req[r].pc = "new" => ~hist[r].effect
    /\ req[r].sid \in Ids => holder[req[r].sid] # Unopened
    /\ Kind(r) \in {"revoke", "logout"} => req[r].pc # "invalidate"
    /\ Kind(r) = "logout" /\ req[r].pc \in {"session", "mutate"} => ~hist[r].effect
    /\ Kind(r) = "revoke" /\ req[r].pc # "new" =>
         \A i \in hist[r].targets :
            holder[i] # Ended => holder[i] \in Identity /\ holder[i].user = req[r].call.user
    /\ Kind(r) = "logout" /\ req[r].pc # "new" =>
         \A i \in hist[r].targets : i = req[r].call.cookie /\ holder[i] # Unopened
    /\ req[r].pc = "audit" /\ (Kind(r) = "revoke" \/ (Kind(r) = "logout" /\ hist[r].effect)) =>
         \A i \in hist[r].targets : holder[i] = Ended
    /\ hist[r].doomed /\ req[r].pc # "new" /\ Kind(r) \notin {"login", "logout"} =>
         /\ req[r].call.cookie \in kicked /\ ~hist[r].effect
         /\ req[r].pc \in {"session", "done"}
         /\ req[r].resp \in {"none", "unauthenticated", "unavailable", "lost"}

Gone == \A i \in kicked : holder[i] = Ended
Given == \A i \in delivered : holder[i] # Unopened
KickInv == Gone /\ Given /\ \A r \in Requests : KickOK(r)

LEMMA KickStable ==
    ASSUME TypeOK, NEW q \in Requests, KickOK(q), Fate,
           req'[q] = req[q], hist'[q] = hist[q], kicked \subseteq kicked'
    PROVE  KickOK(q)'
<1>1. hist[q].targets \subseteq Ids
  BY DEF TypeOK, HistoryTyped
<1>2. \A i \in hist[q].targets :
        /\ holder[i] = Ended => holder'[i] = Ended
        /\ holder[i] # Unopened => holder'[i] # Unopened
        /\ holder[i] \in Identity => holder'[i] \in {holder[i], Ended}
  BY <1>1 DEF Fate
<1>3. req[q].sid \in Ids /\ holder[req[q].sid] # Unopened => holder'[req[q].sid] # Unopened
  BY DEF Fate
<1>4. QED
  BY <1>2, <1>3 DEF KickOK, Kind

\* What a step does to the parts of a request that KickOK speaks of.
LEMMA KickMoves ==
    ASSUME TypeOK, NEW r \in Requests, KickOK(r), Fate, kicked \subseteq kicked',
           req'[r].call = req[r].call, req[r].pc # "new", req'[r].pc # "new",
           hist'[r].targets = hist[r].targets, hist'[r].doomed = hist[r].doomed,
           req'[r].sid \in Ids => holder'[req'[r].sid] # Unopened,
           Kind(r) \in {"revoke", "logout"} => req'[r].pc # "invalidate",
           Kind(r) = "logout" /\ req'[r].pc \in {"session", "mutate"} => ~hist'[r].effect,
           (req'[r].pc = "audit" /\ (Kind(r) = "revoke" \/ (Kind(r) = "logout" /\ hist'[r].effect)))
             => \A i \in hist[r].targets : holder'[i] = Ended,
           hist[r].doomed /\ Kind(r) \notin {"login", "logout"} =>
             /\ ~hist'[r].effect /\ req'[r].pc \in {"session", "done"}
             /\ req'[r].resp \in {"none", "unauthenticated", "unavailable", "lost"}
    PROVE  KickOK(r)'
<1>1. hist[r].targets \subseteq Ids
  BY DEF TypeOK, HistoryTyped
<1>2. \A i \in hist[r].targets :
        /\ holder[i] = Ended => holder'[i] = Ended
        /\ holder[i] # Unopened => holder'[i] # Unopened
        /\ holder[i] \in Identity => holder'[i] \in {holder[i], Ended}
  BY <1>1 DEF Fate
<1>3. QED
  BY <1>2 DEF KickOK, Kind

\* A doomed request finds no live session.
LEMMA DoomedDead ==
    ASSUME Gone, NEW r \in Requests, req[r].call.cookie \in kicked
    PROVE  ~Live(r)
BY DEF Gone, Live, Sessions!Held

LEMMA KickStep ==
    ASSUME TypeOK, KickInv, Fate, NEW r \in Requests, Handle(r)
    PROVE  KickOK(r)'
<1> USE DEF Goto, Reply, Committed
<1>0. /\ req \in [Requests -> Locals] /\ req[r] \in Locals
      /\ hist \in [Requests -> Memory(Len(policies), Len(mappings))]
      /\ hist[r] \in Memory(Len(policies), Len(mappings))
  BY DEF TypeOK, RequestsTyped, HistoryTyped, Memory
<1>a. KickOK(r) /\ Gone /\ Given
  BY DEF KickInv
<1>b. req[r].sid \in Ids => holder'[req[r].sid] # Unopened
  BY <1>a DEF KickOK, Fate
<1>c. hist[r].doomed /\ req[r].pc \notin {"new"} /\ Kind(r) \notin {"login", "logout"}
        => req[r].pc \in {"session", "done"} /\ ~Live(r) /\ ~hist[r].effect
  BY <1>a, DoomedDead DEF KickOK
<1>1. ASSUME NEW c \in Calls, Begin(r, c) PROVE KickOK(r)'
  <2> DEFINE T == IF c.kind = "revoke"
                    THEN {i \in Ids : Sessions!Held(i) /\ holder[i].user = c.user}
                  ELSE IF c.kind = "logout" THEN {c.cookie} \intersect Ids ELSE {}
  <2>1. /\ req'[r].pc \in {"discord", "session"} /\ req'[r].call = c
        /\ req'[r].pc = "session" <=> c.kind # "login"
        /\ req'[r].sid = req[r].sid /\ req'[r].resp = req[r].resp
        /\ holder' = holder /\ kicked' = kicked /\ req[r].pc = "new"
    BY <1>0, <1>1 DEF Begin, Locals
  <2>2. /\ hist'[r].effect = hist[r].effect /\ hist'[r].targets = T
        /\ hist'[r].doomed <=> c.cookie \in kicked
    BY <1>0, <1>1 DEF Begin, Memory
  <2>3. ~hist[r].effect /\ req[r].resp = "none"
    BY <1>a, <2>1 DEF KickOK, TypeOK, RequestsTyped, Finished
  <2>4. c.kind = "revoke" =>
          \A i \in T : holder[i] \in Identity /\ holder[i].user = c.user
    BY DEF Sessions!Held
  <2>5. c.kind = "logout" => \A i \in T : i = c.cookie /\ holder[i] # Unopened
    BY <1>1, <1>a DEF Begin, Given
  <2> HIDE DEF T
  <2>6. QED
    BY <1>b, <2>1, <2>2, <2>3, <2>4, <2>5 DEF KickOK, Kind
<1>2. CASE \/ ForwardSession(r) \/ AdminSession(r) \/ LogoutSession(r) \/ SessionError(r)
           \/ Decide(r) \/ DecideError(r) \/ MutationFails(r) \/ CreateFails(r)
  <2>1. /\ req'[r].call = req[r].call /\ req'[r].sid = req[r].sid /\ req[r].pc \notin {"new", "done"}
        /\ req'[r].pc \in {"done", "decide", "mutate"} /\ hist' = hist /\ kicked' = kicked
        /\ req'[r].pc = "mutate" => req[r].pc = "session"
    BY <1>0, <1>2 DEF ForwardSession, AdminSession, LogoutSession, SessionError,
       Decide, DecideError, MutationFails, CreateFails, Locals
  <2>2. hist[r].doomed /\ Kind(r) \notin {"login", "logout"} =>
          /\ req'[r].pc = "done"
          /\ req'[r].resp \in {"unauthenticated", "unavailable"}
    BY <1>0, <1>2, <1>c DEF ForwardSession, AdminSession, LogoutSession, SessionError,
       Decide, DecideError, MutationFails, CreateFails, Locals
  <2>3. Kind(r) = "logout" /\ req'[r].pc \in {"session", "mutate"} => ~hist'[r].effect
    BY <1>a, <2>1 DEF KickOK
  <2>4. QED
    BY <1>a, <1>b, <1>c, <2>1, <2>2, <2>3, KickMoves
<1>3. CASE UpsertPolicy(r) \/ DeletePolicy(r) \/ EditMapping(r)
  <2>1. /\ req'[r].call = req[r].call /\ req'[r].sid = req[r].sid /\ req[r].pc = "mutate"
        /\ req'[r].pc # "new" /\ kicked' = kicked /\ Kind(r) \notin {"revoke", "logout", "login"}
        /\ hist'[r].targets = hist[r].targets /\ hist'[r].doomed = hist[r].doomed
    BY <1>0, <1>3 DEF UpsertPolicy, DeletePolicy, EditMapping, Locals, Memory
  <2>2. QED
    BY <1>a, <1>b, <1>c, <2>1, KickMoves
<1>4. CASE Invalidate(r)
  <2>1. /\ req'[r].call = req[r].call /\ req'[r].sid = req[r].sid /\ req[r].pc = "invalidate"
        /\ req'[r].pc = "audit" /\ kicked' = kicked /\ hist' = hist
    BY <1>0, <1>4 DEF Invalidate, Locals
  <2>2. Kind(r) \notin {"revoke", "logout"}
    BY <1>a, <2>1 DEF KickOK
  <2>3. QED
    BY <1>a, <1>b, <1>c, <2>1, <2>2, KickMoves
<1>5. CASE RevokeUser(r)
  <2>1. /\ req'[r].call = req[r].call /\ req'[r].sid = req[r].sid /\ req[r].pc = "mutate"
        /\ req'[r].pc \in {"audit", "done"} /\ kicked' = kicked /\ Kind(r) = "revoke"
        /\ hist'[r].targets = hist[r].targets /\ hist'[r].doomed = hist[r].doomed
    BY <1>0, <1>5 DEF RevokeUser, Locals, Memory
  <2>2. \A i \in hist[r].targets : holder'[i] = Ended
    <3> SUFFICES ASSUME NEW i \in hist[r].targets PROVE holder'[i] = Ended
      OBVIOUS
    <3>1. i \in Ids
      BY <1>0 DEF Memory
    <3>2. CASE holder[i] = Ended
      BY <3>1, <3>2 DEF Fate
    <3>3. CASE holder[i] # Ended
      <4>1. Sessions!Held(i) /\ holder[i].user = req[r].call.user
        BY <1>a, <2>1, <3>3 DEF KickOK, Sessions!Held
      <4>2. QED
        BY <1>5, <3>1, <4>1 DEF RevokeUser, Sessions!End
    <3>4. QED
      BY <3>2, <3>3
  <2>3. QED
    BY <1>a, <1>b, <1>c, <2>1, <2>2, KickMoves
<1>6. CASE Logout(r)
  <2>1. /\ req'[r].call = req[r].call /\ req'[r].sid = req[r].sid /\ req[r].pc = "mutate"
        /\ req'[r].pc \in {"audit", "done"} /\ kicked' = kicked /\ Kind(r) = "logout"
        /\ hist'[r].targets = hist[r].targets /\ hist'[r].doomed = hist[r].doomed
    BY <1>0, <1>6 DEF Logout, Locals, Memory
  <2>2. hist'[r].effect => \A i \in hist[r].targets : holder'[i] = Ended
    <3>1. CASE hist' = hist
      BY <1>a, <2>1, <3>1 DEF KickOK
    <3>2. CASE Sessions!End({i \in {req[r].call.cookie} : Sessions!Held(i)})
      <4> SUFFICES ASSUME NEW i \in hist[r].targets PROVE holder'[i] = Ended
        OBVIOUS
      <4>1. i \in Ids /\ i = req[r].call.cookie /\ holder[i] # Unopened
        BY <1>0, <1>a, <2>1 DEF Memory, KickOK
      <4>2. Sessions!Held(i) \/ holder[i] = Ended
        BY <4>1 DEF TypeOK, StoresTyped, Sessions!TypeOK, Sessions!Held
      <4>3. QED
        BY <3>2, <4>1, <4>2 DEF Sessions!End
    <3>3. QED
      BY <1>6, <3>1, <3>2 DEF Logout
  <2>3. QED
    BY <1>a, <1>b, <1>c, <2>1, <2>2, KickMoves
<1>7. CASE Discord(r) \/ ResolveRoles(r)
  <2>1. /\ req'[r].call = req[r].call /\ req'[r].sid = req[r].sid /\ Kind(r) = "login"
        /\ req[r].pc # "new" /\ req'[r].pc # "new" /\ kicked' = kicked
        /\ hist'[r].targets = hist[r].targets /\ hist'[r].doomed = hist[r].doomed
    <3>1. CASE Discord(r)
      BY <1>0, <3>1 DEF Discord, Locals, Memory, TypeOK, RequestsTyped
    <3>2. CASE ResolveRoles(r)
      <4>1. PICK groups \in SUBSET Groups, step \in {"denied", "create"} :
              \/ req' = [req EXCEPT ![r].groups = groups, ![r].pc = step]
              \/ req' = [req EXCEPT ![r].pc = "done", ![r].resp = "unavailable"]
        BY <3>2, ResolvedGroups DEF ResolveRoles
      <4>2. req[r].pc = "resolve" /\ kicked' = kicked /\ hist' = hist
        BY <3>2 DEF ResolveRoles
      <4>3. Kind(r) = "login"
        BY <4>2 DEF TypeOK, RequestsTyped
      <4>4. QED
        BY <1>0, <4>1, <4>2, <4>3 DEF Locals
    <3>3. QED
      BY <1>7, <3>1, <3>2
  <2>2. QED
    BY <1>a, <1>b, <1>c, <2>1, KickMoves
<1>8. CASE CreateSession(r)
  <2>1. PICK i \in Ids :
          /\ Sessions!Open(i, [user |-> req[r].call.user, groups |-> req[r].groups])
          /\ \/ req' = [req EXCEPT ![r].pc = "audit", ![r].sid = i]
             \/ req' = [req EXCEPT ![r].pc = "done", ![r].resp = "unavailable"]
    BY <1>8 DEF CreateSession
  <2>2. holder'[i] # Unopened
    <3>1. [user |-> req[r].call.user, groups |-> req[r].groups] \in Identity
      BY <1>0 DEF Locals, Call, Identity
    <3>2. QED
      BY <2>1, <3>1, OpenTyped DEF TypeOK, StoresTyped
  <2>3. /\ req'[r].call = req[r].call /\ req'[r].sid \in {req[r].sid, i} /\ Kind(r) = "login"
        /\ req[r].pc # "new" /\ req'[r].pc # "new" /\ kicked' = kicked
        /\ req'[r].pc # "invalidate"
    BY <1>0, <1>8, <2>1 DEF CreateSession, Locals, TypeOK, RequestsTyped
  <2>4. hist'[r].targets = hist[r].targets /\ hist'[r].doomed = hist[r].doomed
    BY <1>0, <1>8 DEF CreateSession, Memory
  <2>5. QED
    BY <1>a, <1>b, <2>2, <2>3, <2>4, KickMoves
<1>9. CASE Audit(r)
  <2>1. /\ req'[r].call = req[r].call /\ req'[r].sid = req[r].sid
        /\ req[r].pc \in {"audit", "denied"} /\ req'[r].pc = "done"
        /\ kicked \subseteq kicked' /\ hist' = hist
    BY <1>0, <1>9 DEF Audit, Locals
  <2>2. QED
    BY <1>a, <1>b, <1>c, <2>1, KickMoves
<1>10. QED
  BY <1>1, <1>2, <1>3, <1>4, <1>5, <1>6, <1>7, <1>8, <1>9 DEF Handle

LEMMA KickEach ==
    ASSUME TypeOK, KickInv, Fate, [Next]_vars, kicked \subseteq kicked', NEW q \in Requests
    PROVE  KickOK(q)'
<1>0. KickOK(q)
  BY DEF KickInv
<1>1. ASSUME NEW r \in Requests, Handle(r) PROVE KickOK(q)'
  <2>1. CASE q = r
    BY <1>1, <2>1, KickStep
  <2>2. CASE q # r
    BY <1>0, <1>1, <2>2, HandlersOwn, KickStable DEF Own
  <2>3. QED
    BY <2>1, <2>2
<1>2. ASSUME NEW p \in Processes, Crash(p) PROVE KickOK(q)'
  <2>1. hist' = hist /\ holder' = holder /\ req[q] \in Locals
    BY <1>2 DEF Crash, TypeOK, RequestsTyped
  <2>2. CASE Active(q) /\ req[q].at = p
    <3>1. req'[q] = [req[q] EXCEPT !.pc = "done", !.resp = "lost"]
      BY <1>2, <2>2 DEF Crash
    <3>2. /\ req'[q].call = req[q].call /\ req'[q].sid = req[q].sid
          /\ req'[q].pc = "done" /\ req'[q].resp = "lost" /\ req[q].pc \notin {"new", "done"}
      BY <2>1, <2>2, <3>1 DEF Active, Locals
    <3>3. QED
      BY <1>0, <2>1, <3>2, KickMoves DEF KickOK
  <2>3. CASE ~(Active(q) /\ req[q].at = p)
    <3>1. req'[q] = req[q]
      BY <1>2, <2>3 DEF Crash
    <3>2. QED
      BY <1>0, <2>1, <3>1, KickStable
  <2>4. QED
    BY <2>2, <2>3
<1>3. ASSUME NEW i \in Ids, Lapse(i) PROVE KickOK(q)'
  BY <1>0, <1>3, KickStable DEF Lapse
<1>4. CASE UNCHANGED vars
  BY <1>0, <1>4, KickStable DEF vars
<1>5. QED
  BY <1>1, <1>2, <1>3, <1>4 DEF Next

LEMMA KickInvStep == TypeOK /\ KickInv /\ [Next]_vars => KickInv'
<1> SUFFICES ASSUME TypeOK, KickInv, [Next]_vars PROVE KickInv'
  OBVIOUS
<1>0. Fate /\ kicked \subseteq Ids /\ delivered \subseteq Ids
  BY Fates DEF TypeOK, StoresTyped
<1>1. CASE kicked' = kicked /\ delivered' = delivered
  <2>1. Gone' /\ Given'
    <3>1. \A i \in kicked : holder'[i] = Ended
      BY <1>0 DEF KickInv, Gone, Fate
    <3>2. \A i \in delivered : holder'[i] # Unopened
      BY <1>0 DEF KickInv, Given, Fate
    <3>3. QED
      BY <1>1, <3>1, <3>2 DEF Gone, Given
  <2>2. ASSUME NEW q \in Requests PROVE KickOK(q)'
    BY <1>0, <1>1, KickEach
  <2>3. QED
    BY <2>1, <2>2 DEF KickInv
<1>2. ASSUME NEW r \in Requests, Audit(r) PROVE KickInv'
  <2>1. Gone'
    <3>1. \A i \in kicked : holder'[i] = Ended
      BY <1>0 DEF KickInv, Gone, Fate
    <3>2. Kind(r) \in {"revoke", "logout"} => req[r].pc = "audit"
      BY <1>2 DEF Audit, TypeOK, RequestsTyped
    <3>3. kicked' # kicked => \A i \in hist[r].targets : holder[i] = Ended
      BY <1>2, <3>2 DEF Audit, KickInv, KickOK
    <3>4. kicked' \in {kicked, kicked \union hist[r].targets} /\ holder' = holder
      BY <1>2 DEF Audit
    <3>5. QED
      BY <3>1, <3>3, <3>4 DEF Gone
  <2>2. Given'
    <3>1. delivered' = delivered \union ({req[r].sid} \intersect Ids) /\ holder' = holder
      BY <1>2 DEF Audit
    <3>2. req[r].sid \in Ids => holder[req[r].sid] # Unopened
      BY DEF KickInv, KickOK
    <3>3. QED
      BY <3>1, <3>2 DEF KickInv, Given
  <2>3. kicked \subseteq kicked'
    BY <1>2 DEF Audit
  <2>4. ASSUME NEW q \in Requests PROVE KickOK(q)'
    BY <1>0, <2>3, KickEach
  <2>5. QED
    BY <2>1, <2>2, <2>4 DEF KickInv
<1>3. QED
  BY <1>1, <1>2, ZenonT(40) DEF Next, Handle, Crash, Lapse, vars, Begin, ForwardSession,
     AdminSession, LogoutSession, SessionError, Decide, DecideError, UpsertPolicy, DeletePolicy, EditMapping,
     Invalidate, RevokeUser, MutationFails, Logout, Discord, ResolveRoles, CreateSession,
     CreateFails

LEMMA KickInvInit == Init => KickInv
BY DEF Init, KickInv, Gone, Given, KickOK, Kind, Fresh

\* Once a kick or a logout was acknowledged, no request that begins with a session it
\* was to end is served or changes anything.
THEOREM KicksHold == Spec => []KickEffective
<1>1. TypeOK /\ KickInv => KickEffective
  BY DEF KickInv, KickOK, KickEffective, TypeOK, RequestsTyped, Finished
<1>2. QED
  BY <1>1, KickInvInit, KickInvStep, TypeCorrect, PTL DEF Spec

-----------------------------------------------------------------------------
(* Decisions.  A request decides by the table that is current at that one  *)
(* step, and tables are only ever appended: the table it decided by stays  *)
(* among those that were current since it began.                           *)

Decision(host, groups, table) == Allowed(host, groups, Required(table, host))

DeciderOK(r) ==
    /\ req[r].pc \in {"new", "session"} => req[r].who = NoOne
    /\ Kind(r) = "forward" => req[r].pc \in {"new", "session", "decide", "done"}
    /\ Kind(r) = "forward" /\ req[r].who # NoOne =>
         /\ req[r].resp = "ok" =>
              \E v \in hist[r].since..Len(policies) :
                 Decision(req[r].call.host, req[r].who.groups, policies[v])
         /\ req[r].resp = "forbidden" =>
              \E v \in hist[r].since..Len(policies) :
                 ~Decision(req[r].call.host, req[r].who.groups, policies[v])

\* Only settable patterns ever have a row.
RowsSettable ==
    \A v \in 1..Len(policies) : \A p \in Patterns : policies[v][p] # {} => Settable(p)

PolicyInv == RowsSettable /\ \A r \in Requests : DeciderOK(r)

PoliciesGrow ==
    /\ Len(policies) \in Nat /\ Len(policies') \in Nat /\ Len(policies) <= Len(policies')
    /\ \A v \in 1..Len(policies) : policies'[v] = policies[v]

LEMMA AppendGrows ==
    ASSUME NEW S, NEW log \in Seq(S), NEW x \in S, NEW log2, log2 = Append(log, x)
    PROVE  /\ Len(log2) \in Nat /\ Len(log) \in Nat /\ Len(log2) = Len(log) + 1
           /\ \A v \in 1..Len(log) : log2[v] = log[v]
           /\ log2[Len(log) + 1] = x
OBVIOUS

\* What a policy edit appends: the current table with one row set or removed.
LEMMA PolicyAppended ==
    ASSUME TypeOK, NEW r \in Requests, UpsertPolicy(r) \/ DeletePolicy(r),
           policies' # policies
    PROVE  \E t \in PolicyTable :
             /\ policies' = Append(policies, t)
             /\ \A p \in Patterns : t[p] # {} => Last(policies)[p] # {} \/ Settable(p)
<1>1. policies \in Seq(PolicyTable) /\ policies # <<>>
  BY DEF TypeOK, StoresTyped
<1>2. Last(policies) \in PolicyTable
  BY <1>1 DEF Last
<1>3. req[r].call.groups \in SUBSET Groups /\ {} \in SUBSET Groups
  BY DEF TypeOK, RequestsTyped, Locals, Call
<1>4. PICK gs \in SUBSET Groups :
        /\ policies' = Append(policies, [Last(policies) EXCEPT ![req[r].call.host] = gs])
        /\ gs = {} \/ Settable(req[r].call.host)
  <2>1. CASE UpsertPolicy(r)
    BY <1>3, <2>1 DEF UpsertPolicy, Accepted
  <2>2. CASE DeletePolicy(r)
    BY <1>3, <2>2 DEF DeletePolicy
  <2>3. QED
    BY <2>1, <2>2
<1> DEFINE t == [Last(policies) EXCEPT ![req[r].call.host] = gs]
<1>5. t \in PolicyTable
  BY <1>2 DEF PolicyTable
<1>6. ASSUME NEW p \in Patterns, t[p] # {} PROVE Last(policies)[p] # {} \/ Settable(p)
  BY <1>2, <1>4, <1>6 DEF PolicyTable
<1>7. policies' = Append(policies, t)
  BY <1>4
<1> HIDE DEF t
<1>8. QED
  BY <1>5, <1>6, <1>7

LEMMA PoliciesFate ==
    ASSUME TypeOK, [Next]_vars
    PROVE  \/ policies' = policies
           \/ \E r \in Requests : UpsertPolicy(r) \/ DeletePolicy(r)
BY ZenonT(40) DEF Next, Handle, Begin, ForwardSession, AdminSession, LogoutSession,
   SessionError, Decide, DecideError, EditMapping, Invalidate, RevokeUser, MutationFails, Logout, Discord,
   ResolveRoles, CreateSession, CreateFails, Audit, Lapse, Crash, vars

LEMMA PolicyLog ==
    ASSUME TypeOK, RowsSettable, [Next]_vars
    PROVE  PoliciesGrow /\ RowsSettable'
<1>1. policies \in Seq(PolicyTable) /\ policies # <<>> /\ Len(policies) \in Nat
  BY DEF TypeOK, StoresTyped
<1>2. CASE policies' = policies
  BY <1>1, <1>2 DEF PoliciesGrow, RowsSettable
<1>3. CASE policies' # policies
  <2>1. PICK t \in PolicyTable :
          /\ policies' = Append(policies, t)
          /\ \A p \in Patterns : t[p] # {} => Last(policies)[p] # {} \/ Settable(p)
    BY <1>3, PoliciesFate, PolicyAppended
  <2>2. /\ Len(policies') \in Nat /\ Len(policies') = Len(policies) + 1
        /\ \A v \in 1..Len(policies) : policies'[v] = policies[v]
        /\ policies'[Len(policies) + 1] = t
    BY <1>1, <2>1, AppendGrows
  <2>3. PoliciesGrow
    BY <1>1, <2>2 DEF PoliciesGrow
  <2>4. ASSUME NEW v \in 1..Len(policies'), NEW p \in Patterns, policies'[v][p] # {}
        PROVE  Settable(p)
    <3>1. CASE v \in 1..Len(policies)
      BY <2>2, <2>4, <3>1 DEF RowsSettable
    <3>2. CASE v = Len(policies) + 1
      <4>1. Len(policies) \in 1..Len(policies)
        BY <1>1
      <4>2. QED
        BY <2>1, <2>2, <2>4, <3>2, <4>1 DEF RowsSettable, Last
    <3>3. QED
      BY <1>1, <2>2, <3>1, <3>2
  <2>5. QED
    BY <2>3, <2>4 DEF RowsSettable
<1>4. QED
  BY <1>2, <1>3

LEMMA DeciderStable ==
    ASSUME TypeOK, NEW q \in Requests, DeciderOK(q), PoliciesGrow,
           req'[q] = req[q], hist'[q] = hist[q]
    PROVE  DeciderOK(q)'
<1>1. hist[q].since \in 1..Len(policies) /\ hist'[q].since = hist[q].since
  BY DEF TypeOK, HistoryTyped
<1>2. \A v \in hist[q].since..Len(policies) :
        v \in hist[q].since..Len(policies') /\ policies'[v] = policies[v]
  BY <1>1 DEF PoliciesGrow
<1>3. QED
  BY <1>1, <1>2 DEF DeciderOK, Kind

\* What a step does to the parts of a request that DeciderOK speaks of.
LEMMA DeciderMoves ==
    ASSUME TypeOK, NEW r \in Requests, PoliciesGrow,
           req'[r].call = req[r].call, req'[r].pc \notin {"new", "session"},
           hist'[r].since = hist[r].since,
           Kind(r) = "forward" =>
             /\ req'[r].pc \in {"decide", "done"}
             /\ req'[r].who # NoOne /\ req'[r].resp \in {"ok", "forbidden"} =>
                  /\ req'[r].who = req[r].who
                  /\ req'[r].resp = "ok" <=>
                       Decision(req[r].call.host, req[r].who.groups, Last(policies))
    PROVE  DeciderOK(r)'
<1>1. Len(policies) \in hist[r].since..Len(policies') /\ policies'[Len(policies)] = Last(policies)
  <2>1. hist[r].since \in 1..Len(policies) /\ Len(policies) \in 1..Len(policies)
    BY DEF TypeOK, StoresTyped, HistoryTyped
  <2>2. QED
    BY <2>1 DEF PoliciesGrow, Last
<1>2. QED
  BY <1>1 DEF DeciderOK, Kind

LEMMA DeciderStep ==
    ASSUME TypeOK, PolicyInv, PoliciesGrow, NEW r \in Requests, Handle(r)
    PROVE  DeciderOK(r)'
<1> USE DEF Goto, Reply, Committed
<1>0. /\ req \in [Requests -> Locals] /\ req[r] \in Locals
      /\ hist \in [Requests -> Memory(Len(policies), Len(mappings))]
      /\ hist[r] \in Memory(Len(policies), Len(mappings))
  BY DEF TypeOK, RequestsTyped, HistoryTyped, Memory
<1>a. DeciderOK(r)
  BY DEF PolicyInv
<1>1. ASSUME NEW c \in Calls, Begin(r, c) PROVE DeciderOK(r)'
  <2>1. /\ req'[r].pc = IF c.kind = "login" THEN "discord" ELSE "session"
        /\ req'[r].call = c /\ req'[r].who = req[r].who /\ req[r].pc = "new"
    BY <1>0, <1>1 DEF Begin, Locals
  <2>2. req[r].who = NoOne
    BY <1>a, <2>1 DEF DeciderOK
  <2>3. QED
    BY <2>1, <2>2 DEF DeciderOK, Kind
<1>2. CASE ForwardSession(r)
  <2>1. /\ req'[r].call = req[r].call /\ hist' = hist /\ req'[r].pc \in {"decide", "done"}
        /\ \/ req'[r].who = req[r].who
           \/ req'[r].resp = req[r].resp
        /\ req[r].pc = "session"
    BY <1>0, <1>2 DEF ForwardSession, Locals
  <2>2. req[r].who = NoOne /\ req[r].resp = "none"
    BY <1>a, <2>1 DEF DeciderOK, TypeOK, RequestsTyped, Finished
  <2>3. QED
    BY <2>1, <2>2, DeciderMoves
<1>3. CASE Decide(r)
  <2>1. /\ req'[r].call = req[r].call /\ hist' = hist /\ req'[r].pc = "done"
        /\ req'[r].who = req[r].who
        /\ req'[r].resp = IF Permits(r, Last(policies)) THEN "ok" ELSE "forbidden"
    BY <1>0, <1>3 DEF Decide, Locals
  <2>2. Permits(r, Last(policies))
          <=> Decision(req[r].call.host, req[r].who.groups, Last(policies))
    BY DEF Permits, Decision
  <2>3. QED
    BY <2>1, <2>2, DeciderMoves
<1>4. CASE DecideError(r) \/ SessionError(r) \/ MutationFails(r) \/ CreateFails(r)
  <2>1. /\ req'[r].call = req[r].call /\ hist' = hist
        /\ req'[r].pc = "done" \/ (req'[r].pc = "mutate" /\ Kind(r) = "logout")
        /\ req'[r].pc = "done" => req'[r].resp = "unavailable"
    BY <1>0, <1>4 DEF DecideError, SessionError, MutationFails, CreateFails, Locals
  <2>2. QED
    BY <2>1, DeciderMoves
<1>5. CASE Kind(r) # "forward" /\ ~(\E c \in Calls : Begin(r, c))
  <2>1. req'[r].call = req[r].call /\ req'[r].pc \notin {"new", "session"}
    <3>1. CASE AdminSession(r) \/ LogoutSession(r) \/ SessionError(r) \/ MutationFails(r)
      BY <1>0, <3>1 DEF AdminSession, LogoutSession, SessionError, MutationFails, Locals
    <3>2. CASE \/ UpsertPolicy(r) \/ DeletePolicy(r) \/ EditMapping(r) \/ Invalidate(r)
               \/ RevokeUser(r) \/ Logout(r) \/ Audit(r)
      BY <1>0, <3>2 DEF UpsertPolicy, DeletePolicy, EditMapping, Invalidate, RevokeUser,
         Logout, Audit, Locals
    <3>3. CASE Discord(r) \/ CreateSession(r) \/ CreateFails(r)
      BY <1>0, <3>3 DEF Discord, CreateSession, CreateFails, Locals
    <3>4. CASE ResolveRoles(r)
      <4>1. PICK groups \in SUBSET Groups, step \in {"denied", "create"} :
              \/ req' = [req EXCEPT ![r].groups = groups, ![r].pc = step]
              \/ req' = [req EXCEPT ![r].pc = "done", ![r].resp = "unavailable"]
        BY <3>4, ResolvedGroups DEF ResolveRoles
      <4>2. QED
        BY <1>0, <4>1 DEF Locals
    <3>5. QED
      BY <1>5, <3>1, <3>2, <3>3, <3>4 DEF Handle, ForwardSession, Decide,
         DecideError, TypeOK, RequestsTyped
  <2>2. hist'[r].since = hist[r].since
    <3>1. CASE UNCHANGED hist
      BY <3>1
    <3>2. CASE \/ UpsertPolicy(r) \/ DeletePolicy(r) \/ EditMapping(r)
      BY <1>0, <3>2 DEF UpsertPolicy, DeletePolicy, EditMapping, Memory
    <3>3. CASE RevokeUser(r) \/ Logout(r) \/ Discord(r) \/ CreateSession(r)
      BY <1>0, <3>3 DEF RevokeUser, Logout, Discord, CreateSession, Memory
    <3>4. QED
      BY <1>5, <3>1, <3>2, <3>3 DEF Handle, ForwardSession, AdminSession, LogoutSession,
         SessionError, Decide, DecideError, Invalidate, MutationFails, ResolveRoles,
         CreateFails, Audit
  <2>3. QED
    BY <1>5, <2>1, <2>2, DeciderMoves
<1>6. CASE Kind(r) = "forward" /\ req[r].pc \notin {"new", "session", "decide", "done"}
  BY <1>a, <1>6 DEF DeciderOK
<1>7. QED
  <2>1. CASE Kind(r) = "forward" /\ req[r].pc \in {"session", "decide", "done"}
    BY <1>2, <1>3, <1>4, <2>1 DEF Handle, Begin, AdminSession, LogoutSession, UpsertPolicy,
       DeletePolicy, EditMapping, Invalidate, RevokeUser, Logout, Discord, ResolveRoles,
       CreateSession, Audit, AdminKinds
  <2>2. CASE req[r].pc = "new"
    BY <1>1, <2>2 DEF Handle, ForwardSession, AdminSession, LogoutSession, SessionError, Decide,
       DecideError, UpsertPolicy, DeletePolicy, EditMapping, Invalidate, RevokeUser,
       MutationFails, Logout, Discord, ResolveRoles, CreateSession, CreateFails, Audit
  <2>3. QED
    BY <1>5, <1>6, <2>1, <2>2, ZenonT(40) DEF Begin

LEMMA PolicyInvStep == TypeOK /\ PolicyInv /\ [Next]_vars => PolicyInv'
<1> SUFFICES ASSUME TypeOK, PolicyInv, [Next]_vars PROVE PolicyInv'
  OBVIOUS
<1>0. PoliciesGrow /\ RowsSettable'
  BY PolicyLog DEF PolicyInv
<1>1. ASSUME NEW q \in Requests PROVE DeciderOK(q)'
  <2>0. DeciderOK(q)
    BY DEF PolicyInv
  <2>1. ASSUME NEW r \in Requests, Handle(r) PROVE DeciderOK(q)'
    <3>1. CASE q = r
      BY <1>0, <2>1, <3>1, DeciderStep
    <3>2. CASE q # r
      BY <1>0, <2>0, <2>1, <3>2, HandlersOwn, DeciderStable DEF Own
    <3>3. QED
      BY <3>1, <3>2
  <2>2. ASSUME NEW p \in Processes, Crash(p) PROVE DeciderOK(q)'
    <3>1. hist' = hist /\ req[q] \in Locals
      BY <2>2 DEF Crash, TypeOK, RequestsTyped
    <3>2. CASE Active(q) /\ req[q].at = p
      <4>1. req'[q] = [req[q] EXCEPT !.pc = "done", !.resp = "lost"]
        BY <2>2, <3>2 DEF Crash
      <4>2. req'[q].call = req[q].call /\ req'[q].pc = "done" /\ req'[q].resp = "lost"
        BY <3>1, <4>1 DEF Locals
      <4>3. QED
        BY <1>0, <3>1, <4>2, DeciderMoves
    <3>3. CASE ~(Active(q) /\ req[q].at = p)
      <4>1. req'[q] = req[q]
        BY <2>2, <3>3 DEF Crash
      <4>2. QED
        BY <1>0, <2>0, <3>1, <4>1, DeciderStable
    <3>4. QED
      BY <3>2, <3>3
  <2>3. ASSUME NEW i \in Ids, Lapse(i) PROVE DeciderOK(q)'
    BY <1>0, <2>0, <2>3, DeciderStable DEF Lapse
  <2>4. CASE UNCHANGED vars
    BY <1>0, <2>0, <2>4, DeciderStable DEF vars
  <2>5. QED
    BY <2>1, <2>2, <2>3, <2>4 DEF Next
<1>2. QED
  BY <1>0, <1>1 DEF PolicyInv

LEMMA PolicyInvInit == Init => PolicyInv
BY DEF Init, PolicyInv, RowsSettable, DeciderOK, Kind

\* ForwardAuth decides by a policy table that was current while the request ran,
\* whatever edits, failed lookups and crashes come between.
THEOREM DecisionsAreCurrent == Spec => []DecidesByCurrentPolicy
<1>1. PolicyInv => DecidesByCurrentPolicy
  BY DEF PolicyInv, DeciderOK, DecidesByCurrentPolicy, Permits, Decision
<1>2. QED
  BY <1>1, PolicyInvInit, PolicyInvStep, TypeCorrect, PTL DEF Spec

\* A wildcard stands for one label, and COOKIE_DOMAIN has no wildcard in it: whoever is
\* governed by a settable pattern is itself under COOKIE_DOMAIN.
LEMMA GovernedAllowed ==
    ASSUME NEW h \in Name, NEW P, \A p \in P : Settable(p), Governing(h, P) # <<>>
    PROVE  HostAllowed(h)
<1>1. CASE Governing(h, P) = h
  BY <1>1 DEF Governing, Settable
<1>2. CASE Governing(h, P) # h
  <2> DEFINE w == Wildcard(h)
             n == Len(CookieDomain)
             d == Len(h) - n
  <2>1. Len(h) > 1 /\ w \in P
    BY <1>2 DEF Governing
  <2>2. /\ h \in Seq(Labels) /\ Len(h) \in Nat /\ h # <<>>
        /\ Len(w) = Len(h) /\ w[1] = Star /\ \A k \in 2..Len(h) : w[k] = h[k]
    BY <2>1 DEF Name, Wildcard
  <2> HIDE DEF w
  <2>3. CookieDomain # <<>> /\ UnderDomain(w, CookieDomain)
    BY <2>1 DEF Settable, HostAllowed
  <2>4. n \in Nat \ {0} /\ CookieDomain[1] # Star
    BY <2>3
  <2>5. d >= 0 /\ \A k \in 1..n : w[d + k] = CookieDomain[k]
    BY <2>2, <2>3 DEF UnderDomain
  <2>6. d # 0
    <3>1. d = 0 => w[1] = CookieDomain[1]
      <4>1. 1 \in 1..n
        BY <2>4
      <4>2. w[d + 1] = CookieDomain[1]
        BY <2>5, <4>1
      <4>3. QED
        BY <4>2
    <3>2. QED
      BY <2>2, <2>4, <3>1
  <2>7. ASSUME NEW k \in 1..n PROVE h[d + k] = CookieDomain[k]
    <3>1. d + k \in 2..Len(h)
      BY <2>2, <2>4, <2>5, <2>6
    <3>2. QED
      BY <2>2, <2>5, <3>1
  <2>8. UnderDomain(h, CookieDomain)
    BY <2>5, <2>7 DEF UnderDomain
  <2>9. QED
    BY <2>2, <2>3, <2>8 DEF HostAllowed
<1>3. QED
  BY <1>1, <1>2

\* A host outside COOKIE_DOMAIN is open to admins only, whatever policies were asked for
\* and whatever a crash or an error left of the edits.
THEOREM OwnDomainOnly == Spec => []OpensOwnDomain
<1>1. TypeOK /\ PolicyInv => OpensOwnDomain
  <2> SUFFICES ASSUME TypeOK, PolicyInv, NEW r \in Requests, Kind(r) = "forward",
                      req[r].who # NoOne, req[r].resp = "ok",
                      ~IsAdmin(req[r].who.groups), req[r].call.host # <<>>
               PROVE  HostAllowed(req[r].call.host)
    BY DEF OpensOwnDomain
  <2> DEFINE host == req[r].call.host
             groups == req[r].who.groups
  <2>1. host \in Name /\ hist[r].since \in 1..Len(policies) /\ Len(policies) \in Nat
    BY DEF TypeOK, StoresTyped, RequestsTyped, HistoryTyped, Locals, Call
  <2>2. PICK v \in hist[r].since..Len(policies) : Decision(host, groups, policies[v])
    BY DEF PolicyInv, DeciderOK
  <2> DEFINE P == {q \in Patterns : policies[v][q] # {}}
  <2>3. \A p \in P : Settable(p)
    BY <2>1 DEF PolicyInv, RowsSettable
  <2>4. host = AuthHost \/ Governing(host, P) # <<>>
    BY <2>2 DEF Decision, Allowed, Required
  <2> HIDE DEF P, host
  <2>5. CASE host = AuthHost
    BY <2>5 DEF HostAllowed, host
  <2>6. CASE Governing(host, P) # <<>>
    BY <2>1, <2>3, <2>6, GovernedAllowed DEF host
  <2>7. QED
    BY <2>4, <2>5, <2>6
<1>2. QED
  BY <1>1, PolicyInvInit, PolicyInvStep, TypeCorrect, PTL DEF Spec

-----------------------------------------------------------------------------
(* Logins.  The session of a login is named in its locals from the moment  *)
(* it exists, with the groups found; ids are opened once, so no two logins *)
(* name the same.                                                          *)

LoginOK(r) ==
    /\ req[r].groups # {} => Kind(r) = "login" /\ req[r].pc \in {"create", "audit", "done"}
    /\ req[r].pc = "create" => req[r].groups # {}
    /\ req[r].sid # NoCookie =>
         /\ Kind(r) = "login" /\ req[r].pc \in {"audit", "done"} /\ req[r].groups # {}
         /\ holder[req[r].sid] \in {Ended, [user |-> req[r].call.user, groups |-> req[r].groups]}
    /\ Kind(r) = "login" =>
         /\ req[r].pc # "invalidate"
         /\ req[r].pc = "audit" => req[r].sid # NoCookie
         /\ req[r].resp = "ok" => req[r].sid \in delivered

OwnSessions == \A r, q \in Requests : req[r].sid = req[q].sid /\ req[r].sid # NoCookie => r = q
Carrying == \A i \in Ids : Sessions!Held(i) => holder[i].groups # {}
LoginInv == OwnSessions /\ Carrying /\ \A r \in Requests : LoginOK(r)

\* Nothing is opened.
Kept == \A i \in Ids : holder'[i] \in {holder[i], Ended}

LEMMA OnlyLoginsOpen ==
    ASSUME TypeOK, [Next]_vars
    PROVE  Kept \/ \E r \in Requests : CreateSession(r)
<1>1. ASSUME NEW S, Sessions!End(S) PROVE Kept
  BY <1>1 DEF Kept, Sessions!End
<1>2. ASSUME UNCHANGED holder PROVE Kept
  BY <1>2 DEF Kept
<1>3. ASSUME NEW r \in Requests, Handle(r), ~CreateSession(r) PROVE Kept
  <2>1. CASE RevokeUser(r) \/ Logout(r)
    BY <2>1, <1>1, <1>2 DEF RevokeUser, Logout
  <2>2. CASE UNCHANGED holder
    BY <2>2, <1>2
  <2>3. QED
    BY <1>3, <2>1, <2>2 DEF Handle, Begin, ForwardSession, AdminSession, LogoutSession,
       SessionError, Decide, DecideError, UpsertPolicy, DeletePolicy, EditMapping, Invalidate,
       MutationFails, Discord, ResolveRoles, CreateFails, Audit
<1>4. ASSUME NEW i \in Ids, Lapse(i) PROVE Kept
  BY <1>4, <1>1 DEF Lapse
<1>5. QED
  BY <1>2, <1>3, <1>4 DEF Next, Crash, vars

\* The session of a login stays its own, or ends.
LEMMA LoginHolder ==
    ASSUME TypeOK, NEW q \in Requests, LoginOK(q), Fate, req[q].sid # NoCookie
    PROVE  holder'[req[q].sid] \in {Ended, [user |-> req[q].call.user, groups |-> req[q].groups]}
<1>1. req[q].sid \in Ids /\ [user |-> req[q].call.user, groups |-> req[q].groups] \in Identity
  BY DEF TypeOK, RequestsTyped, Locals, Call, Identity
<1>2. holder[req[q].sid] # Unopened
  BY <1>1 DEF LoginOK
<1>3. QED
  BY <1>1, <1>2 DEF LoginOK, Fate

LEMMA LoginStable ==
    ASSUME TypeOK, NEW q \in Requests, LoginOK(q), Fate, req'[q] = req[q],
           delivered \subseteq delivered'
    PROVE  LoginOK(q)'
BY LoginHolder DEF LoginOK, Kind

\* A handler that goes on with the session and the groups it had, if any.
LEMMA LoginMoves ==
    ASSUME TypeOK, NEW r \in Requests, LoginOK(r), Fate, delivered \subseteq delivered',
           req'[r].call = req[r].call, req'[r].groups = req[r].groups,
           req'[r].sid = req[r].sid, req'[r].pc # "create",
           Kind(r) = "login" =>
             /\ req'[r].pc \in {"resolve", "denied", "done"}
             /\ req'[r].pc # "done" => req[r].pc \in {"discord", "resolve"}
             /\ req'[r].resp = "ok" => req[r].sid \in delivered'
    PROVE  LoginOK(r)'
BY LoginHolder DEF LoginOK, Kind

LEMMA LoginBegins ==
    ASSUME TypeOK, NEW r \in Requests, LoginOK(r), NEW c \in Calls, Begin(r, c)
    PROVE  LoginOK(r)' /\ req'[r].sid = req[r].sid
<1>1. /\ req'[r].pc = IF c.kind = "login" THEN "discord" ELSE "session"
      /\ req'[r].call = c /\ req'[r].groups = req[r].groups /\ req'[r].sid = req[r].sid
      /\ req'[r].resp = req[r].resp /\ req[r].pc = "new"
  BY DEF Begin, TypeOK, RequestsTyped, Locals
<1>2. req[r].groups = {} /\ req[r].sid = NoCookie /\ req[r].resp = "none"
  BY <1>1 DEF LoginOK, TypeOK, RequestsTyped, Finished
<1>3. QED
  BY <1>1, <1>2 DEF LoginOK, Kind

LEMMA LoginResolves ==
    ASSUME TypeOK, NEW r \in Requests, LoginOK(r), Fate, ResolveRoles(r)
    PROVE  LoginOK(r)' /\ req'[r].sid = req[r].sid
<1>1. req[r].pc = "resolve" /\ delivered' = delivered
  BY DEF ResolveRoles
<1>2. /\ Kind(r) = "login" /\ req[r] \in Locals /\ req[r].groups = {} /\ req[r].sid = NoCookie
      /\ req[r].resp = "none" /\ r \in DOMAIN req
  BY <1>1 DEF LoginOK, TypeOK, RequestsTyped, Finished
<1>3. CASE Reply(r, "unavailable")
  <2>1. /\ req'[r].call = req[r].call /\ req'[r].groups = req[r].groups
        /\ req'[r].sid = req[r].sid /\ req'[r].pc = "done" /\ req'[r].resp = "unavailable"
    BY <1>2, <1>3 DEF Reply, Locals
  <2>2. QED
    BY <1>1, <2>1, LoginMoves
<1>4. CASE ~Reply(r, "unavailable")
  <2>1. PICK groups \in Lookup(r) :
          req' = [req EXCEPT ![r].groups = groups,
                             ![r].pc = IF groups = {} THEN "denied" ELSE "create"]
    BY <1>4 DEF ResolveRoles
  <2>2. groups \in SUBSET Groups
    BY ResolvedGroups
  <2> DEFINE step == IF groups = {} THEN "denied" ELSE "create"
  <2>3. /\ req'[r].call = req[r].call /\ req'[r].groups = groups /\ req'[r].pc = step
        /\ req'[r].sid = NoCookie /\ req'[r].resp = "none"
    BY <1>2, <2>1, <2>2 DEF Locals
  <2>4. QED
    BY <1>2, <2>3 DEF LoginOK, Kind
<1>5. QED
  BY <1>3, <1>4

\* The login that opens a session is the only one that names it.
LEMMA LoginCreates ==
    ASSUME TypeOK, LoginInv, Fate, NEW r \in Requests, CreateSession(r)
    PROVE  /\ LoginOK(r)'
           /\ req'[r].sid # NoCookie => \A q \in Requests : req[q].sid # req'[r].sid
           /\ Carrying'
<1>0. /\ req[r].pc = "create" /\ LoginOK(r) /\ Kind(r) = "login" /\ req[r] \in Locals
      /\ r \in DOMAIN req /\ delivered' = delivered
  BY DEF CreateSession, LoginInv, TypeOK, RequestsTyped
<1>1. req[r].sid = NoCookie /\ req[r].groups # {} /\ req[r].resp = "none"
  BY <1>0 DEF LoginOK, TypeOK, RequestsTyped, Finished
<1> DEFINE who == [user |-> req[r].call.user, groups |-> req[r].groups]
<1>2. who \in Identity
  BY <1>0 DEF Locals, Call, Identity
<1>3. PICK i \in Ids :
        /\ Sessions!Open(i, who)
        /\ \/ req' = [req EXCEPT ![r].pc = "audit", ![r].sid = i]
           \/ Reply(r, "unavailable")
  BY DEF CreateSession
<1>4. /\ holder[i] = Unopened /\ holder'[i] \in {who, Ended}
      /\ \A j \in Ids \ {i} : holder'[j] = holder[j]
  BY <1>3 DEF Sessions!Open, TypeOK, StoresTyped, Sessions!TypeOK
<1>5. Carrying'
  <2>1. \A j \in Ids : holder'[j] \in Identity => holder'[j].groups # {}
    BY <1>1, <1>4 DEF LoginInv, Carrying, Sessions!Held
  <2>2. QED
    BY <2>1 DEF Carrying, Sessions!Held
<1>6. CASE Reply(r, "unavailable")
  <2>1. /\ req'[r].call = req[r].call /\ req'[r].groups = req[r].groups
        /\ req'[r].sid = NoCookie /\ req'[r].pc = "done" /\ req'[r].resp = "unavailable"
    BY <1>0, <1>1, <1>6 DEF Reply, Locals
  <2>2. QED
    BY <1>0, <1>1, <1>5, <2>1, LoginMoves
<1>7. CASE req' = [req EXCEPT ![r].pc = "audit", ![r].sid = i]
  <2>1. /\ req'[r].call = req[r].call /\ req'[r].groups = req[r].groups
        /\ req'[r].sid = i /\ req'[r].pc = "audit" /\ req'[r].resp = "none"
    BY <1>0, <1>1, <1>7 DEF Locals
  <2>2. i # NoCookie
    OBVIOUS
  <2>3. LoginOK(r)'
    BY <1>0, <1>1, <1>4, <2>1, <2>2 DEF LoginOK, Kind
  <2>4. ASSUME NEW q \in Requests PROVE req[q].sid # i
    <3>1. LoginOK(q) /\ [user |-> req[q].call.user, groups |-> req[q].groups] \in Identity
      BY DEF LoginInv, TypeOK, RequestsTyped, Locals, Call, Identity
    <3>2. QED
      BY <1>4, <2>2, <3>1 DEF LoginOK
  <2>5. QED
    BY <1>5, <2>1, <2>3, <2>4
<1>8. QED
  BY <1>3, <1>6, <1>7

LEMMA LoginStep ==
    ASSUME TypeOK, LoginInv, Fate, NEW r \in Requests, Handle(r), ~CreateSession(r)
    PROVE  LoginOK(r)' /\ req'[r].sid = req[r].sid
<1> USE DEF Goto, Reply, Committed
<1>0. req \in [Requests -> Locals] /\ req[r] \in Locals /\ LoginOK(r)
  BY DEF TypeOK, RequestsTyped, LoginInv
<1>1. ASSUME NEW c \in Calls, Begin(r, c) PROVE LoginOK(r)' /\ req'[r].sid = req[r].sid
  BY <1>0, <1>1, LoginBegins
<1>2. CASE \/ ForwardSession(r) \/ AdminSession(r) \/ LogoutSession(r) \/ SessionError(r)
           \/ Decide(r) \/ DecideError(r) \/ MutationFails(r) \/ CreateFails(r)
  <2>1. /\ req'[r].call = req[r].call /\ req'[r].groups = req[r].groups
        /\ req'[r].sid = req[r].sid /\ delivered' = delivered
        /\ req'[r].pc \in {"decide", "mutate", "done"}
    BY <1>0, <1>2 DEF ForwardSession, AdminSession, LogoutSession, SessionError, Decide,
       DecideError, MutationFails, CreateFails, Locals
  <2>2. Kind(r) = "login" => req'[r].pc = "done" /\ req'[r].resp = "unavailable"
    BY <1>0, <1>2 DEF ForwardSession, AdminSession, LogoutSession, SessionError, Decide,
       DecideError, MutationFails, CreateFails, Locals, AdminKinds, TypeOK, RequestsTyped
  <2>3. QED
    BY <1>0, <2>1, <2>2, LoginMoves
<1>3. CASE \/ UpsertPolicy(r) \/ DeletePolicy(r) \/ EditMapping(r) \/ Invalidate(r)
           \/ RevokeUser(r) \/ Logout(r)
  <2>1. /\ req'[r].call = req[r].call /\ req'[r].groups = req[r].groups
        /\ req'[r].sid = req[r].sid /\ delivered' = delivered
        /\ req'[r].pc # "create"
    BY <1>0, <1>3 DEF UpsertPolicy, DeletePolicy, EditMapping, Invalidate, RevokeUser, Logout,
       Locals
  <2>2. Kind(r) # "login"
    BY <1>0, <1>3 DEF UpsertPolicy, DeletePolicy, EditMapping, Invalidate, RevokeUser, Logout,
       LoginOK
  <2>3. QED
    BY <1>0, <2>1, <2>2, LoginMoves
<1>4. CASE Discord(r)
  <2>1. /\ req'[r].call = req[r].call /\ req'[r].groups = req[r].groups
        /\ req'[r].sid = req[r].sid /\ delivered' = delivered /\ req[r].pc = "discord"
        /\ req'[r].pc \in {"resolve", "denied", "done"}
        /\ req'[r].resp \in {req[r].resp, "forbidden"}
    BY <1>0, <1>4 DEF Discord, Locals
  <2>2. req[r].resp = "none"
    BY <2>1 DEF TypeOK, RequestsTyped, Finished
  <2>3. QED
    BY <1>0, <2>1, <2>2, LoginMoves
<1>5. CASE ResolveRoles(r)
  BY <1>0, <1>5, LoginResolves
<1>6. CASE Audit(r)
  <2>1. /\ req'[r].call = req[r].call /\ req'[r].groups = req[r].groups
        /\ req'[r].sid = req[r].sid /\ req'[r].pc = "done"
        /\ delivered' = delivered \union ({req[r].sid} \intersect Ids)
        /\ req'[r].resp = "ok" => req[r].pc = "audit"
    BY <1>0, <1>6 DEF Audit, Locals
  <2>2. Kind(r) = "login" /\ req'[r].resp = "ok" => req[r].sid \in delivered'
    BY <1>0, <2>1 DEF LoginOK, Locals
  <2>3. QED
    BY <1>0, <2>1, <2>2, LoginMoves
<1>7. QED
  BY <1>1, <1>2, <1>3, <1>4, <1>5, <1>6 DEF Handle

\* What happens to a request in a step that opens no session.
LEMMA LoginEach ==
    ASSUME TypeOK, LoginInv, Fate, [Next]_vars, NEW q \in Requests,
           \A r \in Requests : ~CreateSession(r)
    PROVE  LoginOK(q)' /\ req'[q].sid = req[q].sid
<1>0. LoginOK(q) /\ req[q] \in Locals
  BY DEF LoginInv, TypeOK, RequestsTyped
<1>1. ASSUME NEW r \in Requests, Handle(r) PROVE LoginOK(q)' /\ req'[q].sid = req[q].sid
  <2>1. CASE q = r
    BY <1>1, <2>1, LoginStep
  <2>2. CASE q # r
    <3>1. req'[q] = req[q]
      BY <1>1, <2>2, HandlersOwn DEF Own
    <3>2. delivered \subseteq delivered'
      BY <1>1 DEF Handle, Begin, ForwardSession, AdminSession, LogoutSession, SessionError,
         Decide, DecideError, UpsertPolicy, DeletePolicy, EditMapping, Invalidate, RevokeUser,
         MutationFails, Logout, Discord, ResolveRoles, CreateSession, CreateFails, Audit
    <3>3. QED
      BY <1>0, <3>1, <3>2, LoginStable
  <2>3. QED
    BY <2>1, <2>2
<1>2. ASSUME NEW p \in Processes, Crash(p) PROVE LoginOK(q)' /\ req'[q].sid = req[q].sid
  <2>1. CASE Active(q) /\ req[q].at = p
    <3>1. req'[q] = [req[q] EXCEPT !.pc = "done", !.resp = "lost"] /\ delivered' = delivered
      BY <1>2, <2>1 DEF Crash
    <3>2. /\ req'[q].call = req[q].call /\ req'[q].groups = req[q].groups
          /\ req'[q].sid = req[q].sid /\ req'[q].pc = "done" /\ req'[q].resp = "lost"
      BY <1>0, <3>1 DEF Locals
    <3>3. QED
      BY <1>0, <3>1, <3>2, LoginMoves
  <2>2. CASE ~(Active(q) /\ req[q].at = p)
    <3>1. req'[q] = req[q] /\ delivered' = delivered
      BY <1>2, <2>2 DEF Crash
    <3>2. QED
      BY <1>0, <3>1, LoginStable
  <2>3. QED
    BY <2>1, <2>2
<1>3. ASSUME NEW i \in Ids, Lapse(i) PROVE LoginOK(q)' /\ req'[q].sid = req[q].sid
  BY <1>0, <1>3, LoginStable DEF Lapse
<1>4. CASE UNCHANGED vars
  BY <1>0, <1>4, LoginStable DEF vars
<1>5. QED
  BY <1>1, <1>2, <1>3, <1>4 DEF Next

LEMMA LoginInvStep == TypeOK /\ LoginInv /\ [Next]_vars => LoginInv'
<1> SUFFICES ASSUME TypeOK, LoginInv, [Next]_vars PROVE LoginInv'
  OBVIOUS
<1>0. Fate
  BY Fates
<1>1. ASSUME NEW r \in Requests, CreateSession(r) PROVE LoginInv'
  <2>1. /\ LoginOK(r)' /\ Carrying'
        /\ req'[r].sid # NoCookie => \A q \in Requests : req[q].sid # req'[r].sid
    BY <1>0, <1>1, LoginCreates
  <2>2. ASSUME NEW q \in Requests \ {r} PROVE LoginOK(q)' /\ req'[q].sid = req[q].sid
    <3>1. req'[q] = req[q]
      BY <1>1, HandlersOwn DEF Own, Handle
    <3>2. delivered' = delivered
      BY <1>1 DEF CreateSession
    <3>3. QED
      BY <1>0, <3>1, <3>2, LoginStable DEF LoginInv
  <2>3. OwnSessions'
    BY <2>1, <2>2 DEF LoginInv, OwnSessions
  <2>4. QED
    BY <2>1, <2>2, <2>3 DEF LoginInv
<1>2. CASE \A r \in Requests : ~CreateSession(r)
  <2>1. \A q \in Requests : LoginOK(q)' /\ req'[q].sid = req[q].sid
    BY <1>0, <1>2, LoginEach
  <2>2. Carrying'
    <3>1. Kept
      BY <1>2, OnlyLoginsOpen
    <3>2. \A i \in Ids : holder'[i] \in Identity => holder[i] \in Identity /\ holder'[i] = holder[i]
      BY <3>1 DEF Kept
    <3>3. QED
      BY <3>2 DEF LoginInv, Carrying, Sessions!Held
  <2>3. OwnSessions'
    BY <2>1 DEF LoginInv, OwnSessions
  <2>4. QED
    BY <2>1, <2>2, <2>3 DEF LoginInv
<1>3. QED
  BY <1>1, <1>2

LEMMA LoginInvInit == Init => LoginInv
<1> SUFFICES ASSUME Init PROVE LoginInv
  OBVIOUS
<1>1. Carrying
  BY DEF Init, Carrying, Sessions!Held
<1>2. QED
  BY <1>1 DEF Init, LoginInv, OwnSessions, LoginOK, Kind

\* Every session carries groups, and a login that succeeded has a session of its own
\* that authenticates that user with the groups found, until it ends.
THEOREM LoginsGetTheirSession == Spec => []SessionsJustified
<1>1. TypeOK /\ LoginInv => SessionsJustified
  <2> SUFFICES ASSUME TypeOK, LoginInv PROVE SessionsJustified
    OBVIOUS
  <2>1. ASSUME NEW r \in Requests, Kind(r) = "login", req[r].resp = "ok"
        PROVE  /\ req[r].sid \in delivered
               /\ holder[req[r].sid]
                    \in {Ended, [user |-> req[r].call.user, groups |-> req[r].groups]}
               /\ \A q \in Requests \ {r} : req[q].sid # req[r].sid
    <3>1. req[r].sid \in delivered /\ req[r].sid # NoCookie
      BY <2>1 DEF LoginInv, LoginOK, TypeOK, StoresTyped
    <3>2. QED
      BY <3>1 DEF LoginInv, LoginOK, OwnSessions
  <2>2. QED
    BY <2>1 DEF LoginInv, Carrying, SessionsJustified
<1>2. QED
  BY <1>1, LoginInvInit, LoginInvStep, TypeCorrect, PTL DEF Spec

-----------------------------------------------------------------------------
(* What a kick leaves.  Whatever a login found was allowed when it asked,  *)
(* and still is, as tables are only appended.  A login of the kicked user  *)
(* that had its session when the kick began is among the kick's targets,   *)
(* and one that asks Discord later asks no earlier than the kick.          *)

\* A longer log allows the answers of a shorter one.
LEMMA AnswersGrow ==
    ASSUME NEW S, NEW log \in Seq(S), NEW log2 \in Seq(S),
           Len(log) <= Len(log2), \A v \in 1..Len(log) : log2[v] = log[v],
           NEW floor \in Nat \ {0}, NEW roles
    PROVE  Answers(log, floor, roles) \subseteq Answers(log2, floor, roles)
<1>1. {log[v] : v \in floor..Len(log)} \subseteq {log2[v] : v \in floor..Len(log2)}
  OBVIOUS
<1>2. QED
  BY <1>1 DEF Answers

LEMMA MappingAppended ==
    ASSUME TypeOK, NEW r \in Requests, EditMapping(r)
    PROVE  \E t \in SUBSET (Roles \X Groups) : mappings' = Append(mappings, t)
<1>1. Last(mappings) \in SUBSET (Roles \X Groups)
  BY DEF Last, TypeOK, StoresTyped
<1>2. req[r].call.pair \in Roles \X Groups
  BY DEF TypeOK, RequestsTyped, Locals, Call
<1>3. QED
  BY <1>1, <1>2 DEF EditMapping

MappingsGrow ==
    /\ mappings \in Seq(SUBSET (Roles \X Groups)) /\ mappings' \in Seq(SUBSET (Roles \X Groups))
    /\ Len(mappings) <= Len(mappings') /\ \A v \in 1..Len(mappings) : mappings'[v] = mappings[v]
    /\ \A p \in Processes : acked[p] <= acked'[p]

LEMMA MappingsOnlyGrow ==
    ASSUME TypeOK, [Next]_vars PROVE MappingsGrow
<1>0. /\ mappings \in Seq(SUBSET (Roles \X Groups)) /\ acked \in [Processes -> 1..Len(mappings)]
      /\ Len(mappings) \in Nat
  BY DEF TypeOK, StoresTyped
<1>1. CASE mappings' = mappings /\ acked' = acked
  BY <1>0, <1>1 DEF MappingsGrow
<1>2. ASSUME NEW r \in Requests, EditMapping(r) PROVE MappingsGrow
  <2>1. PICK t \in SUBSET (Roles \X Groups) : mappings' = Append(mappings, t)
    BY <1>2, MappingAppended
  <2>2. mappings' \in Seq(SUBSET (Roles \X Groups))
    BY <1>0, <2>1
  <2>3. /\ Len(mappings) <= Len(mappings')
        /\ \A v \in 1..Len(mappings) : mappings'[v] = mappings[v]
    BY <1>0, <2>1, AppendGrows
  <2>4. acked' = acked
    BY <1>2 DEF EditMapping
  <2>5. QED
    BY <1>0, <2>2, <2>3, <2>4 DEF MappingsGrow
<1>3. ASSUME NEW r \in Requests, Invalidate(r) PROVE MappingsGrow
  <2>1. hist[r].version \in 1..Len(mappings) /\ mappings' = mappings
    BY <1>3 DEF Invalidate, TypeOK, HistoryTyped
  <2>2. \A p \in Processes : acked[p] <= acked'[p]
    BY <1>0, <1>3, <2>1 DEF Invalidate
  <2>3. QED
    BY <1>0, <2>1, <2>2 DEF MappingsGrow
<1>4. ASSUME NEW q \in Processes, Crash(q) PROVE MappingsGrow
  <2>1. mappings' = mappings /\ acked' = [acked EXCEPT ![q] = Len(mappings)]
    BY <1>4 DEF Crash
  <2>2. \A p \in Processes : acked[p] <= acked'[p]
    BY <1>0, <2>1
  <2>3. QED
    BY <1>0, <2>1, <2>2 DEF MappingsGrow
<1>5. ASSUME NEW r \in Requests, Handle(r), ~EditMapping(r), ~Invalidate(r)
      PROVE  mappings' = mappings /\ acked' = acked
  BY <1>5 DEF Handle, Begin, ForwardSession, AdminSession, LogoutSession, SessionError, Decide,
     DecideError, UpsertPolicy, DeletePolicy, RevokeUser, MutationFails, Logout,
     Discord, ResolveRoles, CreateSession, CreateFails, Audit
<1>6. QED
  BY <1>1, <1>2, <1>3, <1>4, <1>5 DEF Next, Lapse, vars

\* What most steps leave alone of a request: what it was asked and what the kick in it
\* recorded, its session, and how far it is.
Quiet(q) ==
    /\ req'[q].call = req[q].call /\ req'[q].at = req[q].at /\ req'[q].sid = req[q].sid
    /\ hist'[q].floor = hist[q].floor /\ hist'[q].targets = hist[q].targets
    /\ hist'[q].flight = hist[q].flight /\ hist'[q].acks = hist[q].acks
    /\ req'[q].pc = "new" <=> req[q].pc = "new"
    /\ req'[q].pc \in {"resolve", "create"} => req[q].pc \in {"resolve", "create"}
    /\ req'[q].groups = req[q].groups \/ ResolveRoles(q)
    /\ req'[q].resp = "ok" /\ Kind(q) = "revoke" => req[q].resp = "ok" \/ Audit(q)

LEMMA QuietStep ==
    ASSUME TypeOK, NEW r \in Requests, Handle(r), ~Discord(r), ~CreateSession(r),
           \A c \in Calls : ~Begin(r, c)
    PROVE  Quiet(r)
<1> USE DEF Goto, Reply, Committed
<1>0. /\ req \in [Requests -> Locals] /\ req[r] \in Locals
      /\ hist \in [Requests -> Memory(Len(policies), Len(mappings))]
      /\ hist[r] \in Memory(Len(policies), Len(mappings))
  BY DEF TypeOK, RequestsTyped, HistoryTyped, Memory
<1>1. CASE \/ ForwardSession(r) \/ AdminSession(r) \/ LogoutSession(r) \/ SessionError(r)
           \/ Decide(r) \/ DecideError(r) \/ MutationFails(r) \/ CreateFails(r)
  <2>1. /\ req'[r].call = req[r].call /\ req'[r].at = req[r].at /\ req'[r].sid = req[r].sid
        /\ req'[r].groups = req[r].groups /\ hist' = hist
        /\ req[r].pc # "new" /\ req'[r].pc \in {"decide", "mutate", "done"}
    BY <1>0, <1>1 DEF ForwardSession, AdminSession, LogoutSession, SessionError, Decide,
       DecideError, MutationFails, CreateFails, Locals
  <2>2. Kind(r) = "revoke" => req'[r].resp \in {req[r].resp, "unauthenticated", "forbidden", "unavailable"}
    BY <1>0, <1>1 DEF ForwardSession, AdminSession, LogoutSession, SessionError, Decide,
       DecideError, MutationFails, CreateFails, Locals, TypeOK, RequestsTyped
  <2>3. QED
    BY <2>1, <2>2 DEF Quiet
<1>2. CASE \/ UpsertPolicy(r) \/ DeletePolicy(r) \/ EditMapping(r) \/ Invalidate(r)
           \/ RevokeUser(r) \/ Logout(r)
  <2>1. /\ req'[r].call = req[r].call /\ req'[r].at = req[r].at /\ req'[r].sid = req[r].sid
        /\ req'[r].groups = req[r].groups /\ req[r].pc # "new"
        /\ req'[r].pc \in {"audit", "invalidate", "done"}
        /\ Kind(r) = "revoke" => req'[r].resp \in {req[r].resp, "unavailable", "rejected", "notFound"}
    BY <1>0, <1>2 DEF UpsertPolicy, DeletePolicy, EditMapping, Invalidate, RevokeUser, Logout,
       Locals
  <2>2. /\ hist'[r].floor = hist[r].floor /\ hist'[r].targets = hist[r].targets
        /\ hist'[r].flight = hist[r].flight /\ hist'[r].acks = hist[r].acks
    BY <1>0, <1>2 DEF UpsertPolicy, DeletePolicy, EditMapping, Invalidate, RevokeUser, Logout,
       Memory
  <2>3. QED
    BY <2>1, <2>2 DEF Quiet
<1>3. CASE ResolveRoles(r)
  <2>1. PICK groups \in SUBSET Groups, step \in {"denied", "create"} :
          \/ req' = [req EXCEPT ![r].groups = groups, ![r].pc = step]
          \/ req' = [req EXCEPT ![r].pc = "done", ![r].resp = "unavailable"]
    BY <1>3, ResolvedGroups DEF ResolveRoles
  <2>2. req[r].pc = "resolve" /\ hist' = hist
    BY <1>3 DEF ResolveRoles
  <2>3. /\ req'[r].call = req[r].call /\ req'[r].at = req[r].at /\ req'[r].sid = req[r].sid
        /\ req'[r].pc # "new" /\ req'[r].resp \in {req[r].resp, "unavailable"}
    BY <1>0, <2>1 DEF Locals
  <2>4. QED
    BY <1>3, <2>2, <2>3 DEF Quiet
<1>4. CASE Audit(r)
  <2>1. /\ req'[r].call = req[r].call /\ req'[r].at = req[r].at /\ req'[r].sid = req[r].sid
        /\ req'[r].groups = req[r].groups /\ hist' = hist
        /\ req[r].pc # "new" /\ req'[r].pc = "done"
    BY <1>0, <1>4 DEF Audit, Locals
  <2>2. QED
    BY <1>4, <2>1 DEF Quiet
<1>5. QED
  BY <1>1, <1>2, <1>3, <1>4 DEF Handle

LEMMA QuietOthers ==
    ASSUME TypeOK, [Next]_vars, NEW q \in Requests
    PROVE  Quiet(q) \/ Discord(q) \/ CreateSession(q) \/ \E c \in Calls : Begin(q, c)
<1>1. ASSUME req'[q] = req[q], hist'[q] = hist[q] PROVE Quiet(q)
  BY <1>1 DEF Quiet
<1>2. ASSUME NEW r \in Requests, Handle(r), r # q PROVE Quiet(q)
  BY <1>1, <1>2, HandlersOwn DEF Own
<1>3. ASSUME NEW p \in Processes, Crash(p) PROVE Quiet(q)
  <2>1. hist' = hist /\ req[q] \in Locals
    BY <1>3 DEF Crash, TypeOK, RequestsTyped
  <2>2. CASE Active(q) /\ req[q].at = p
    <3>1. req'[q] = [req[q] EXCEPT !.pc = "done", !.resp = "lost"]
      BY <1>3, <2>2 DEF Crash
    <3>2. /\ req'[q].call = req[q].call /\ req'[q].at = req[q].at /\ req'[q].sid = req[q].sid
          /\ req'[q].groups = req[q].groups /\ req'[q].pc = "done" /\ req'[q].resp = "lost"
          /\ req[q].pc # "new"
      BY <2>1, <2>2, <3>1 DEF Active, Locals
    <3>3. QED
      BY <2>1, <3>2 DEF Quiet
  <2>3. CASE ~(Active(q) /\ req[q].at = p)
    <3>1. req'[q] = req[q]
      BY <1>3, <2>3 DEF Crash
    <3>2. QED
      BY <1>1, <2>1, <3>1
  <2>4. QED
    BY <2>2, <2>3
<1>4. CASE UNCHANGED <<req, hist>>
  BY <1>1, <1>4
<1>5. QED
  BY <1>2, <1>3, <1>4, QuietStep DEF Next, Lapse, vars

\* The two other steps of a login: Discord, then the session.
LEMMA LoginKeeps ==
    ASSUME TypeOK, NEW r \in Requests, Discord(r) \/ CreateSession(r)
    PROVE  /\ req'[r].call = req[r].call /\ req'[r].at = req[r].at
           /\ req'[r].groups = req[r].groups /\ hist'[r].acks = hist[r].acks
           /\ Discord(r) => req'[r].sid = req[r].sid /\ hist'[r].floor = acked[req[r].at]
           /\ CreateSession(r) => hist'[r].floor = hist[r].floor
<1>0. /\ req[r] \in Locals /\ r \in DOMAIN req /\ r \in DOMAIN hist
      /\ hist[r] \in Memory(Len(policies), Len(mappings))
  BY DEF TypeOK, RequestsTyped, HistoryTyped, Memory
<1>1. CASE Discord(r)
  <2>1. /\ req'[r].call = req[r].call /\ req'[r].at = req[r].at
        /\ req'[r].groups = req[r].groups /\ req'[r].sid = req[r].sid
    BY <1>0, <1>1 DEF Discord, Goto, Reply, Locals
  <2>2. hist'[r].acks = hist[r].acks /\ hist'[r].floor = acked[req[r].at]
    BY <1>0, <1>1 DEF Discord, Memory
  <2>3. ~CreateSession(r)
    BY <1>1 DEF Discord, CreateSession
  <2>4. QED
    BY <2>1, <2>2, <2>3
<1>2. CASE CreateSession(r)
  <2>1. PICK i \in Ids : \/ req' = [req EXCEPT ![r].pc = "audit", ![r].sid = i]
                         \/ req' = [req EXCEPT ![r].pc = "done", ![r].resp = "unavailable"]
    BY <1>2 DEF CreateSession, Reply
  <2>2. /\ req'[r].call = req[r].call /\ req'[r].at = req[r].at
        /\ req'[r].groups = req[r].groups
    BY <1>0, <2>1 DEF Locals
  <2>3. hist'[r].acks = hist[r].acks /\ hist'[r].floor = hist[r].floor
    BY <1>0, <1>2 DEF CreateSession, Memory
  <2>4. ~Discord(r)
    BY <1>2 DEF Discord, CreateSession
  <2>5. QED
    BY <2>2, <2>3, <2>4
<1>3. QED
  BY <1>1, <1>2

\* What a login carries was an answer, and still is one.
Found(r) == req[r].groups # {} => req[r].groups \in Lookup(r)

FoundInv == \A q \in Requests : Found(q)

LEMMA FoundStays ==
    ASSUME TypeOK, MappingsGrow, NEW q \in Requests, Found(q),
           req'[q].groups = req[q].groups, req'[q].call = req[q].call,
           hist'[q].floor = hist[q].floor
    PROVE  Found(q)'
<1>1. hist[q].floor \in Nat \ {0}
  BY DEF TypeOK, HistoryTyped
<1>2. Answers(mappings, hist[q].floor, req[q].call.roles)
        \subseteq Answers(mappings', hist[q].floor, req[q].call.roles)
  BY <1>1, AnswersGrow DEF MappingsGrow
<1>3. QED
  BY <1>2 DEF Found, Lookup

LEMMA FoundWhenResolved ==
    ASSUME TypeOK, NEW r \in Requests, LoginOK(r), ResolveRoles(r)
    PROVE  Found(r)'
<1>0. /\ req[r].pc = "resolve" /\ r \in DOMAIN req /\ req[r] \in Locals
      /\ mappings' = mappings /\ hist' = hist
  BY DEF ResolveRoles, TypeOK, RequestsTyped
<1>1. CASE Reply(r, "unavailable")
  BY <1>0, <1>1 DEF Reply, Locals, LoginOK, Found
<1>2. CASE ~Reply(r, "unavailable")
  <2>1. PICK groups \in Lookup(r) :
          req' = [req EXCEPT ![r].groups = groups,
                             ![r].pc = IF groups = {} THEN "denied" ELSE "create"]
    BY <1>2 DEF ResolveRoles
  <2>2. groups \in SUBSET Groups
    BY ResolvedGroups
  <2>3. req'[r].groups = groups /\ req'[r].call = req[r].call
    BY <1>0, <2>1, <2>2 DEF Locals
  <2>4. QED
    BY <1>0, <2>1, <2>3 DEF Lookup, Found
<1>3. QED
  BY <1>1, <1>2

\* A login that has not looked up its groups has none, and no session.
LEMMA NothingFound ==
    ASSUME TypeOK, LoginInv, NEW q \in Requests,
           Discord(q) \/ \E c \in Calls : Begin(q, c)
    PROVE  /\ req[q].groups = {} /\ req'[q].groups = {}
           /\ req[q].sid = NoCookie /\ req'[q].sid = NoCookie
<1>1. /\ req[q].pc \in {"new", "discord"} /\ req[q] \in Locals /\ q \in DOMAIN req
      /\ LoginOK(q)
  BY DEF Discord, Begin, TypeOK, RequestsTyped, LoginInv
<1>2. req[q].groups = {} /\ req[q].sid = NoCookie
  BY <1>1 DEF LoginOK
<1>3. req'[q].groups = req[q].groups /\ req'[q].sid = req[q].sid
  <2>1. CASE Discord(q)
    BY <2>1, LoginKeeps
  <2>2. ASSUME NEW c \in Calls, Begin(q, c)
        PROVE  req'[q].groups = req[q].groups /\ req'[q].sid = req[q].sid
    BY <1>1, <2>2 DEF Begin, Locals
  <2>3. QED
    BY <2>1, <2>2
<1>4. QED
  BY <1>2, <1>3

LEMMA FoundStep == TypeOK /\ LoginInv /\ FoundInv /\ [Next]_vars => FoundInv'
<1> SUFFICES ASSUME TypeOK, LoginInv, [Next]_vars, NEW q \in Requests, Found(q)
             PROVE  Found(q)'
  BY DEF FoundInv
<1>0. MappingsGrow
  BY MappingsOnlyGrow
<1>1. CASE Quiet(q)
  <2>1. CASE ResolveRoles(q)
    BY <2>1, FoundWhenResolved DEF LoginInv
  <2>2. CASE ~ResolveRoles(q)
    BY <1>0, <1>1, <2>2, FoundStays DEF Quiet
  <2>3. QED
    BY <2>1, <2>2
<1>2. CASE Discord(q) \/ \E c \in Calls : Begin(q, c)
  BY <1>2, NothingFound DEF Found
<1>3. CASE CreateSession(q)
  BY <1>0, <1>3, LoginKeeps, FoundStays
<1>4. QED
  BY <1>1, <1>2, <1>3, QuietOthers

LEMMA FoundInit == Init => FoundInv
BY DEF Init, FoundInv, Found

\* The kick need not have ended this login's session: it was in flight, or asked later.
Exempt(r, k) == r \in hist[k].flight \/ hist[k].acks[req[r].at] <= hist[r].floor

\* k is a kick, under way or done, of the user who logs in with r.
Kicks(k, r) ==
    /\ Kind(k) = "revoke" /\ req[k].pc # "new"
    /\ Kind(r) = "login" /\ req[r].call.user = req[k].call.user

SpareOK(r, k) ==
    Kicks(k, r) =>
        /\ req[r].pc \in {"resolve", "create"} => Exempt(r, k)
        /\ req[r].sid # NoCookie =>
             Exempt(r, k) \/ req[r].sid \in hist[k].targets \/ holder[req[r].sid] = Ended

\* A kick saw no later edits than its processes have acknowledged by now, and once it
\* was acknowledged its targets are gone.
KickerOK(k) ==
    /\ \A p \in Processes : hist[k].acks[p] <= acked[p]
    /\ Kind(k) = "revoke" /\ req[k].resp = "ok" => \A i \in hist[k].targets : holder[i] = Ended

SpareInv == \A k \in Requests : KickerOK(k) /\ \A r \in Requests : SpareOK(r, k)

LEMMA SpareQuiet ==
    ASSUME TypeOK, Fate, NEW r \in Requests, NEW k \in Requests, Quiet(r), Quiet(k), SpareOK(r, k)
    PROVE  SpareOK(r, k)'
<1>1. req[r].sid \in Ids \union {NoCookie}
  BY DEF TypeOK, RequestsTyped, Locals
<1>2. req[r].sid # NoCookie /\ holder[req[r].sid] = Ended => holder'[req[r].sid] = Ended
  BY <1>1 DEF Fate
<1>3. Kicks(k, r)' => Kicks(k, r)
  BY DEF Kicks, Quiet, Kind
<1>4. Exempt(r, k) => Exempt(r, k)'
  BY DEF Exempt, Quiet
<1>5. QED
  BY <1>2, <1>3, <1>4 DEF SpareOK, Quiet

\* A kick that begins: a login of that user is in flight, or its session is a target.
LEMMA SpareWhenKicked ==
    ASSUME TypeOK, LoginInv, NEW r \in Requests, NEW k \in Requests, r # k,
           NEW c \in Calls, Begin(k, c)
    PROVE  SpareOK(r, k)'
<1>0. /\ req'[r] = req[r] /\ req'[k].call = c /\ holder' = holder
      /\ req[r] \in Locals /\ LoginOK(r)
  <2>1. req[k] \in Locals /\ k \in DOMAIN req
    BY DEF TypeOK, RequestsTyped
  <2>2. QED
    BY <2>1 DEF Begin, TypeOK, RequestsTyped, Locals, LoginInv
<1>1. SUFFICES ASSUME Kicks(k, r)' PROVE SpareOK(r, k)'
  BY DEF SpareOK
<1>2. c.kind = "revoke" /\ req[r].call.user = c.user
  BY <1>0, <1>1 DEF Kicks, Kind
<1>3. /\ hist'[k].flight = InFlight
      /\ hist'[k].targets = {i \in Ids : Sessions!Held(i) /\ holder[i].user = c.user}
  <2>1. hist[k] \in Memory(Len(policies), Len(mappings)) /\ k \in DOMAIN hist
    BY DEF TypeOK, HistoryTyped, Memory
  <2>2. QED
    BY <1>2, <2>1 DEF Begin, Memory
<1>4. req[r].pc \in {"resolve", "create"} => Exempt(r, k)'
  BY <1>0, <1>3 DEF Exempt, InFlight
<1>5. ASSUME req[r].sid # NoCookie, holder[req[r].sid] # Ended
      PROVE  req[r].sid \in hist'[k].targets
  <2>1. req[r].sid \in Ids /\ [user |-> req[r].call.user, groups |-> req[r].groups] \in Identity
    BY <1>0, <1>5 DEF Locals, Call, Identity
  <2>2. holder[req[r].sid] = [user |-> req[r].call.user, groups |-> req[r].groups]
    BY <1>0, <1>5 DEF LoginOK
  <2>3. QED
    BY <1>2, <1>3, <2>1, <2>2 DEF Sessions!Held
<1>6. QED
  BY <1>0, <1>4, <1>5 DEF SpareOK

\* A login that goes on from Discord asks no earlier than a kick that has begun.
LEMMA SpareWhenAsked ==
    ASSUME TypeOK, LoginInv, NEW r \in Requests, NEW k \in Requests, r # k, Quiet(k),
           KickerOK(k), Discord(r)
    PROVE  SpareOK(r, k)'
<1>1. /\ hist'[r].floor = acked[req[r].at] /\ req'[r].at = req[r].at
      /\ req[r].at \in Processes
  BY LoginKeeps DEF TypeOK, RequestsTyped, Locals
<1>2. Exempt(r, k)'
  BY <1>1 DEF Exempt, Quiet, KickerOK
<1>3. QED
  BY <1>2 DEF SpareOK

LEMMA SpareWhenOpened ==
    ASSUME TypeOK, NEW r \in Requests, NEW k \in Requests, Quiet(k), SpareOK(r, k),
           CreateSession(r)
    PROVE  SpareOK(r, k)'
<1>1. /\ req[r].pc = "create" /\ req'[r].call = req[r].call /\ req'[r].at = req[r].at
      /\ hist'[r].floor = hist[r].floor
  BY LoginKeeps DEF CreateSession
<1>2. Kicks(k, r)' => Kicks(k, r)
  BY <1>1 DEF Kicks, Quiet, Kind
<1>3. Exempt(r, k) => Exempt(r, k)'
  BY <1>1 DEF Exempt, Quiet
<1>4. QED
  BY <1>1, <1>2, <1>3 DEF SpareOK

LEMMA SpareEach ==
    ASSUME TypeOK, LoginInv, SpareInv, Fate, [Next]_vars,
           NEW r \in Requests, NEW k \in Requests
    PROVE  SpareOK(r, k)'
<1>0. SpareOK(r, k) /\ KickerOK(k)
  BY DEF SpareInv
<1>1. CASE r = k
  BY <1>1 DEF SpareOK, Kicks
<1>2. CASE r # k /\ \E c \in Calls : Begin(k, c)
  BY <1>2, SpareWhenKicked
<1>3. CASE r # k /\ ~Quiet(k) /\ ~\E c \in Calls : Begin(k, c)
  \* k logs in.
  <2>1. Discord(k) \/ CreateSession(k)
    BY <1>3, QuietOthers
  <2>2. Kind(k) = "login" /\ req'[k].call = req[k].call
    BY <2>1, LoginKeeps DEF Discord, CreateSession, TypeOK, RequestsTyped
  <2>3. QED
    BY <2>2 DEF SpareOK, Kicks, Kind
<1>4. CASE r # k /\ Quiet(k)
  <2>1. CASE Quiet(r)
    BY <1>0, <1>4, <2>1, SpareQuiet
  <2>2. CASE Discord(r)
    BY <1>0, <1>4, <2>2, SpareWhenAsked
  <2>3. CASE CreateSession(r)
    BY <1>0, <1>4, <2>3, SpareWhenOpened
  <2>4. ASSUME NEW c \in Calls, Begin(r, c) PROVE SpareOK(r, k)'
    <3>1. req'[r].pc \in {"discord", "session"}
      BY <2>4 DEF Begin, TypeOK, RequestsTyped, Locals
    <3>2. req'[r].sid = NoCookie
      BY <2>4, NothingFound
    <3>3. QED
      BY <3>1, <3>2 DEF SpareOK
  <2>5. QED
    BY <2>1, <2>2, <2>3, <2>4, QuietOthers
<1>5. QED
  BY <1>1, <1>2, <1>3, <1>4

LEMMA KickerStep ==
    ASSUME TypeOK, KickInv, SpareInv, Fate, [Next]_vars, NEW k \in Requests
    PROVE  KickerOK(k)'
<1>0. KickerOK(k) /\ KickOK(k)
  BY DEF SpareInv, KickInv
<1>a. /\ \A p \in Processes : acked[p] \in Nat /\ acked'[p] \in Nat /\ acked[p] <= acked'[p]
      /\ hist[k].acks \in [Processes -> Nat] /\ hist[k].targets \subseteq Ids
  <2>1. \A p \in Processes : acked[p] \in Nat
    BY DEF TypeOK, StoresTyped
  <2>2. \A p \in Processes : acked'[p] \in Nat
    BY TypeStep DEF TypeOK, StoresTyped
  <2>3. hist[k].acks \in [Processes -> Nat] /\ hist[k].targets \subseteq Ids
    <3>1. hist[k] \in Memory(Len(policies), Len(mappings))
      BY DEF TypeOK, HistoryTyped, Memory
    <3>2. QED
      BY <3>1 DEF Memory
  <2>4. QED
    BY <2>1, <2>2, <2>3, MappingsOnlyGrow DEF MappingsGrow
<1>1. CASE Quiet(k)
  <2>1. \A p \in Processes : hist'[k].acks[p] <= acked'[p]
    BY <1>0, <1>1, <1>a DEF KickerOK, Quiet
  <2>2. ASSUME Kind(k) = "revoke", req'[k].resp = "ok", NEW i \in hist[k].targets
        PROVE  holder'[i] = Ended
    <3>1. holder[i] = Ended
      <4>1. CASE req[k].resp = "ok"
        BY <1>0, <2>2, <4>1 DEF KickerOK
      <4>2. CASE Audit(k)
        <5>1. req[k].pc = "audit"
          BY <2>2, <4>2 DEF Audit, TypeOK, RequestsTyped
        <5>2. QED
          BY <1>0, <2>2, <5>1 DEF KickOK
      <4>3. QED
        BY <1>1, <2>2, <4>1, <4>2 DEF Quiet
    <3>2. QED
      BY <1>a, <3>1 DEF Fate
  <2>3. QED
    BY <1>1, <2>1, <2>2 DEF KickerOK, Quiet, Kind
<1>2. ASSUME NEW c \in Calls, Begin(k, c) PROVE KickerOK(k)'
  <2>1. /\ req[k] \in Locals /\ k \in DOMAIN req /\ k \in DOMAIN hist /\ req[k].resp = "none"
        /\ hist[k] \in Memory(Len(policies), Len(mappings))
    BY <1>2 DEF Begin, TypeOK, RequestsTyped, HistoryTyped, Memory, Finished
  <2>2. hist'[k].acks \in {acked, hist[k].acks} /\ acked' = acked /\ req'[k].resp = "none"
    BY <1>2, <2>1 DEF Begin, Locals, Memory
  <2>3. QED
    BY <1>0, <1>a, <2>2 DEF KickerOK
<1>3. CASE Discord(k) \/ CreateSession(k)
  <2>1. Kind(k) = "login" /\ acked' = acked
    BY <1>3 DEF Discord, CreateSession, TypeOK, RequestsTyped
  <2>2. hist'[k].acks = hist[k].acks /\ req'[k].call = req[k].call
    BY <1>3, LoginKeeps
  <2>3. QED
    BY <1>0, <1>a, <2>1, <2>2 DEF KickerOK, Kind
<1>4. QED
  BY <1>1, <1>2, <1>3, QuietOthers

LEMMA SpareInit == Init => SpareInv
BY DEF Init, SpareInv, SpareOK, KickerOK, Kicks, Kind, Fresh

\* The groups that a lookup finds are within those of a table no older than its floor:
\* of an emptied cache, within those of any table.
LEMMA AnswerEntitles ==
    ASSUME TypeOK, NEW r \in Requests, req[r].groups \in Lookup(r),
           NEW floor \in Nat \ {0}, floor <= hist[r].floor
    PROVE  Entitled(r, floor)
<1>0. /\ hist[r].floor \in 1..Len(mappings) /\ Len(mappings) \in Nat
  BY DEF TypeOK, StoresTyped, HistoryTyped
<1>1. PICK t \in {mappings[v] : v \in hist[r].floor..Len(mappings)} \union {{}} :
          req[r].groups = Resolve(t, req[r].call.roles)
  BY DEF Lookup, Answers
<1>2. CASE t = {}
  <2>1. req[r].groups \subseteq Resolve(mappings[Len(mappings)], req[r].call.roles)
    BY <1>1, <1>2 DEF Resolve, GroupsIn
  <2>2. Len(mappings) \in floor..Len(mappings)
    BY <1>0
  <2>3. QED
    BY <2>1, <2>2 DEF Entitled
<1>3. CASE t # {}
  <2>1. PICK v \in hist[r].floor..Len(mappings) : t = mappings[v]
    BY <1>1, <1>3
  <2>2. v \in floor..Len(mappings) /\ req[r].groups \subseteq Resolve(mappings[v], req[r].call.roles)
    BY <1>0, <1>1, <2>1
  <2>3. QED
    BY <2>2 DEF Entitled
<1>4. QED
  BY <1>2, <1>3

\* An acknowledged kick leaves its user no session with groups that only tables older than
\* the edits acknowledged before it give, but those of logins that had asked Discord and
\* had no session when it began: what is left of the sentence that KickAppliesMappings
\* refutes, with several processes, crashes and errors.
THEOREM KicksEndStaleSessions == Spec => []KickEndsStaleSessions
<1>1. TypeOK /\ LoginInv /\ FoundInv /\ SpareInv => KickEndsStaleSessions
  <2> SUFFICES ASSUME TypeOK, LoginInv, FoundInv, SpareInv,
                      NEW r \in Requests, NEW k \in Requests, Survived(r, k),
                      r \notin hist[k].flight
               PROVE  Entitled(r, hist[k].acks[req[r].at])
    BY DEF KickEndsStaleSessions
  <2>1. /\ Kind(r) = "login" /\ req[r].resp = "ok" /\ Kind(k) = "revoke" /\ req[k].resp = "ok"
        /\ Sessions!Held(req[r].sid) /\ req[k].call.user = req[r].call.user
    BY DEF Survived
  <2>2. req[r].sid # NoCookie /\ holder[req[r].sid] # Ended
    BY <2>1 DEF LoginInv, LoginOK, TypeOK, StoresTyped, Sessions!Held
  <2>3. req[r].groups \in Lookup(r)
    BY <2>2 DEF LoginInv, LoginOK, FoundInv, Found
  <2>4. Kicks(k, r)
    BY <2>1 DEF Kicks, TypeOK, RequestsTyped, Finished
  <2>5. req[r].sid \notin hist[k].targets
    BY <2>1, <2>2 DEF SpareInv, KickerOK
  <2>6. hist[k].acks[req[r].at] <= hist[r].floor
    BY <2>2, <2>4, <2>5 DEF SpareInv, SpareOK, Exempt
  <2>7. hist[k].acks[req[r].at] \in Nat \ {0}
    BY DEF TypeOK, RequestsTyped, HistoryTyped, Locals
  <2>8. QED
    BY <2>3, <2>6, <2>7, AnswerEntitles
<1>2. TypeOK /\ LoginInv /\ KickInv /\ SpareInv /\ [Next]_vars => SpareInv'
  BY SpareEach, KickerStep, Fates DEF SpareInv
<1>3. Spec => []TypeOK /\ []LoginInv /\ []KickInv
  BY LoginInvInit, LoginInvStep, KickInvInit, KickInvStep, TypeCorrect, PTL DEF Spec
<1>4. QED
  BY <1>1, <1>2, <1>3, FoundInit, FoundStep, SpareInit, PTL DEF Spec

=============================================================================
