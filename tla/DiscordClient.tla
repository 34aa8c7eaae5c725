--------------------------- MODULE DiscordClient ---------------------------
(***************************************************************************)
(* The Discord client (internal/discord/client.go) against Discord, which  *)
(* redeems an authorization code once.  A caller exchanges its code, with  *)
(* one retry, then asks for the user and for the guild member.  Discord    *)
(* may process a request after the client has given it up.                 *)
(***************************************************************************)
EXTENDS Integers

CONSTANT Callers   \* the goroutines that may call the client

VARIABLES
    call,    \* per caller: where it is, its code, the attempt and the last answer to it
    late,    \* codes of requests given up that Discord may yet process
    spent    \* the codes that Discord has redeemed

clientVars == <<call, late, spent>>

Finished == {"member", "notMember", "failed"}
Steps == {"idle", "posted", "pause", "getMe", "getMember"} \union Finished
Bodies == {"token", "garbled", "apiError"}   \* what Discord may answer

Idle == [pc |-> "idle", code |-> 0, attempt |-> 1, answer |-> "none"]

ClientTypeOK ==
    /\ call \in [Callers -> [pc : Steps, code : Nat, attempt : 1..2, answer : Bodies \union {"none"}]]
    /\ late \subseteq Nat /\ spent \subseteq Nat

ClientInit == call = [c \in Callers |-> Idle] /\ late = {} /\ spent = {}

-----------------------------------------------------------------------------
\* ExchangeCode; exchangeCodeOnce sends its request.
ExchangeCode(c, code) ==
    /\ call[c].pc = "idle"
    /\ call' = [call EXCEPT ![c] = [Idle EXCEPT !.pc = "posted", !.code = code]]
    /\ UNCHANGED <<late, spent>>

\* The exchange has ended; its locals are gone.
Then(step) == [Idle EXCEPT !.pc = step]

\* Mutant: the attempts are not counted.
RetryForever(c, answer) == [call[c] EXCEPT !.pc = "pause", !.answer = answer]

\* What the loop does with an error that is none of Discord's API.
Retry(c, answer) ==
    IF call[c].attempt = 1 THEN [call[c] EXCEPT !.pc = "pause", !.answer = answer]
                           ELSE Then("failed")

\* Mutant: every error is retried.
ReceiveRetrying(c, body) ==
    call' = [call EXCEPT ![c] = IF body = "token" THEN Then("getMe") ELSE Retry(c, body)]

\* The client takes the answer: an error of the API ends the loop, a body that is broken
\* or cut off does not.
Receive(c, body) ==
    call' = [call EXCEPT ![c] = CASE body = "token"    -> Then("getMe")
                                  [] body = "apiError" -> Then("failed")
                                  [] body = "garbled"  -> Retry(c, body)]

\* Discord redeems a code once; its answer may be lost on the way (GiveUp).  Any other
\* request it refuses, and it may refuse this one.
DiscordAnswers(c) ==
    /\ call[c].pc = "posted"
    /\ \/ /\ call[c].code \notin spent /\ spent' = spent \union {call[c].code}
          /\ \E body \in Bodies : Receive(c, body)
       \/ Receive(c, "apiError") /\ UNCHANGED spent
    /\ UNCHANGED late

\* A request whose answer nobody awaits any more is processed all the same.
DiscordRedeemsLate(code) ==
    /\ code \in late
    /\ late' = late \ {code} /\ spent' = spent \union {code}
    /\ UNCHANGED call

\* A transport error, or the 15 s of the client are over.
GiveUp(c) ==
    /\ call[c].pc = "posted"
    /\ call' = [call EXCEPT ![c] = Retry(c, "none")]
    /\ late' = late \union ({call[c].code} \ spent)
    /\ UNCHANGED spent

\* After 200 ms.
PostAgain(c) ==
    /\ call[c].pc = "pause"
    /\ call' = [call EXCEPT ![c].pc = "posted", ![c].attempt = 2]
    /\ UNCHANGED <<late, spent>>

\* The context is done during the pause.
Cancel(c) ==
    /\ call[c].pc = "pause"
    /\ call' = [call EXCEPT ![c] = Then("failed")]
    /\ UNCHANGED <<late, spent>>

\* A user, or any error: an answer that is not 200, a broken body, no id.
GetMe(c) ==
    /\ call[c].pc = "getMe"
    /\ \E step \in {"getMember", "failed"} : call' = [call EXCEPT ![c] = Then(step)]
    /\ UNCHANGED <<late, spent>>

\* A member, 404, or any other error.
GetGuildMember(c) ==
    /\ call[c].pc = "getMember"
    /\ \E step \in Finished : call' = [call EXCEPT ![c] = Then(step)]
    /\ UNCHANGED <<late, spent>>

\* What the client does without the caller.
ClientStep(c) ==
    GiveUp(c) \/ PostAgain(c) \/ Cancel(c) \/ GetMe(c) \/ GetGuildMember(c)

-----------------------------------------------------------------------------
\* An answer that Discord gave is final: a code is posted again only while no answer to
\* the first request has come in, or none that could be read (after a refusal, a blind
\* retry finds the code spent).
NoBlindRetry ==
    \A c \in Callers : call[c].pc = "pause" \/ (call[c].pc = "posted" /\ call[c].attempt = 2)
                         => call[c].answer \in {"none", "garbled"}
=============================================================================
