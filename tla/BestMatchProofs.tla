-------------------------- MODULE BestMatchProofs --------------------------
(***************************************************************************)
(* Theorems of BestMatch, for every set of labels, every list of settable  *)
(* patterns and every host.                                                *)
(***************************************************************************)
EXTENDS BestMatch, TLAPS

USE LabelsAssumption, ListsAssumption

\* The sequences of labels, as functions.
LEMMA NameFacts ==
    ASSUME NEW h \in Name
    PROVE  Len(h) \in Nat /\ h \in [1..Len(h) -> Labels]
BY DEF Name

LEMMA WildcardFacts ==
    ASSUME NEW h \in Name, Len(h) > 1
    PROVE  /\ Wildcard(h) \in Name /\ Len(Wildcard(h)) = Len(h)
           /\ Wildcard(h)[1] = Star
           /\ \A k \in 2..Len(h) : Wildcard(h)[k] = h[k]
<1>1. h \in Seq(Labels) /\ Len(h) \in Nat /\ Star \in Labels
  BY NameFacts DEF Name
<1>2. Wildcard(h) \in Seq(Labels) /\ Len(Wildcard(h)) = Len(h)
  BY <1>1 DEF Wildcard
<1>3. QED
  BY <1>1, <1>2 DEF Wildcard, Name

\* Two names are equal when their labels are.
LEMMA NameExt ==
    ASSUME NEW g \in Name, NEW h \in Name, Len(g) = Len(h),
           \A k \in 1..Len(g) : g[k] = h[k]
    PROVE  g = h
BY NameFacts

\* At most two settable patterns match a host: its own name and its wildcard.
LEMMA MatchesTwo ==
    ASSUME NEW p \in Name, NEW h \in Name, Settable(p)
    PROVE  MatchHost(p, h) <=>
             \/ p = h /\ ~Wild(h) /\ h # <<>>
             \/ Len(h) > 1 /\ h[1] \in DnsLabels /\ p = Wildcard(h)
<1>1. Len(p) \in Nat /\ Len(h) \in Nat
  BY NameFacts
<1>2. CASE Wild(p)
  <2>1. ASSUME MatchHost(p, h) PROVE Len(h) > 1 /\ h[1] \in DnsLabels /\ p = Wildcard(h)
    <3>1. Len(h) = Len(p) /\ h[1] \in DnsLabels /\ \A k \in 2..Len(p) : h[k] = p[k]
      BY <1>2, <2>1 DEF MatchHost
    <3>2. Len(p) > 1 /\ p[1] = Star
      BY <1>2 DEF Wild
    <3>3. \A k \in 1..Len(p) : p[k] = Wildcard(h)[k]
      BY <1>1, <3>1, <3>2, WildcardFacts
    <3>4. QED
      BY <3>1, <3>2, <3>3, WildcardFacts, NameExt
  <2>2. ASSUME Len(h) > 1, h[1] \in DnsLabels, p = Wildcard(h) PROVE MatchHost(p, h)
    BY <1>2, <2>2, WildcardFacts DEF MatchHost
  <2>3. QED
    BY <1>2, <2>1, <2>2
<1>3. CASE ~Wild(p)
  <2>1. ASSUME Len(h) > 1, p = Wildcard(h) PROVE FALSE
    BY <1>3, <2>1, WildcardFacts DEF Wild
  <2>2. QED
    BY <1>3, <2>1 DEF MatchHost
<1>4. QED
  BY <1>2, <1>3

\* The host's own name outranks its wildcard, and the two differ.
LEMMA ExactOutranks ==
    ASSUME NEW h \in Name, ~Wild(h), Len(h) > 1
    PROVE  /\ Wild(Wildcard(h)) /\ Wildcard(h) # h
           /\ Specificity(h) > Specificity(Wildcard(h))
           /\ Specificity(Wildcard(h)) \in Nat /\ Specificity(h) \in Nat
<1>1. Wild(Wildcard(h))
  BY WildcardFacts DEF Wild
<1>2. Len(h) \in Nat
  BY NameFacts
<1>3. QED
  BY <1>1, <1>2, WildcardFacts DEF Specificity

\* How the governing pattern changes when one more pattern is stored.
LEMMA GoverningGrows ==
    ASSUME NEW h \in Name, NEW P, NEW p \in Name, Settable(p)
    PROVE  LET q == Governing(h, P)
               r == Governing(h, P \union {p})
           IN  /\ ~MatchHost(p, h) => r = q
               /\ MatchHost(p, h) /\ q = <<>> => r = p
               /\ MatchHost(p, h) /\ q # <<>> =>
                     /\ Specificity(p) > Specificity(q) => r = p
                     /\ Specificity(p) = Specificity(q) => r = p
                     /\ ~(Specificity(p) > Specificity(q)) => r = q
<1> DEFINE exact == ~Wild(h) /\ h # <<>>
           wild == Len(h) > 1 /\ h[1] \in DnsLabels
<1>1. MatchHost(p, h) <=> (p = h /\ exact) \/ (wild /\ p = Wildcard(h))
  BY MatchesTwo
<1>2. wild => Wildcard(h) # <<>>
  BY WildcardFacts
<1>3. wild => ~Wild(h)
  BY DEF Wild
<1>4. wild => /\ Wildcard(h) # h
              /\ Specificity(h) > Specificity(Wildcard(h))
              /\ Specificity(Wildcard(h)) \in Nat /\ Specificity(h) \in Nat
  BY <1>3, ExactOutranks
<1>5. \A Q : Governing(h, Q) = IF h \in Q /\ exact THEN h
                              ELSE IF wild /\ Wildcard(h) \in Q THEN Wildcard(h) ELSE <<>>
  BY DEF Governing
<1> HIDE DEF wild
<1>6. QED
  BY <1>1, <1>2, <1>4, <1>5

LEMMA TypeInit == Init => TypeOK
<1> SUFFICES ASSUME Init PROVE TypeOK
  OBVIOUS
<1>1. Len(list) \in Nat
  BY DEF Init
<1>2. QED
  BY <1>1 DEF Init, TypeOK

LEMMA TypeStep == TypeOK /\ [Next]_vars => TypeOK'
<1> SUFFICES ASSUME TypeOK, [Next]_vars PROVE TypeOK'
  OBVIOUS
<1>1. Len(list) \in Nat /\ i \in Nat
  BY DEF TypeOK
<1>2. CASE Take
  BY <1>1, <1>2 DEF TypeOK, Take
<1>3. CASE Skip
  BY <1>1, <1>3 DEF TypeOK, Skip
<1>4. CASE UNCHANGED vars
  BY <1>4 DEF TypeOK, vars
<1>5. QED
  BY <1>2, <1>3, <1>4 DEF Next

\* The loop keeps its arguments and points into the list.
THEOREM TypeCorrect == Spec => []TypeOK
BY TypeInit, TypeStep, PTL DEF Spec

-----------------------------------------------------------------------------
(* The loop invariant: the best match so far governs the host among the    *)
(* policies looked at.                                                     *)

Seen == Patterns(i - 1)

LoopInv ==
    /\ Best = Governing(host, Seen)
    /\ bestIdx # 0 => Best # <<>>

LEMMA LoopStep == TypeOK /\ LoopInv /\ [Next]_vars => LoopInv'
<1> SUFFICES ASSUME TypeOK, LoopInv, [Next]_vars PROVE LoopInv'
  OBVIOUS
<1>1. /\ list \in Seq(Name) /\ host \in Name /\ Len(list) \in Nat
      /\ i \in Nat \ {0} /\ bestIdx \in 0..(i - 1)
  BY DEF TypeOK
<1>2. /\ bestIdx = 0 => Best = <<>>
      /\ bestIdx # 0 => bestScore = Specificity(Best) /\ Best # <<>>
  BY DEF Best, TypeOK, LoopInv
<1> DEFINE p == list[i]
           r == Governing(host, Seen \union {p})
<1>3. ASSUME i <= Len(list), i' = i + 1, list' = list
      PROVE  p \in Name /\ Settable(p) /\ Seen' = Seen \union {p}
  <2>1. i \in 1..Len(list)
    BY <1>1, <1>3
  <2>2. i' - 1 = i /\ 1..i = (1..(i - 1)) \union {i}
    BY <1>1, <1>3
  <2>3. Seen' = {list[k] : k \in 1..i}
    BY <1>3, <2>2 DEF Seen, Patterns
  <2>4. Seen' = Seen \union {p}
    BY <2>2, <2>3 DEF Seen, Patterns
  <2>5. QED
    BY <1>1, <2>1, <2>4 DEF TypeOK
<1>4. ASSUME i <= Len(list), i' = i + 1, list' = list
      PROVE  /\ ~MatchHost(p, host) => r = Best
             /\ MatchHost(p, host) /\ Best = <<>> => r = p
             /\ MatchHost(p, host) /\ Best # <<>> =>
                   /\ Specificity(p) > Specificity(Best) => r = p
                   /\ Specificity(p) = Specificity(Best) => r = p
                   /\ ~(Specificity(p) > Specificity(Best)) => r = Best
  BY <1>1, <1>3, <1>4, GoverningGrows DEF LoopInv
<1>5. CASE Take
  <2>1. /\ i <= Len(list) /\ MatchHost(p, host) /\ (Beats(i) \/ Ties(i))
        /\ bestIdx' = i /\ i' = i + 1 /\ list' = list /\ host' = host
    BY <1>5 DEF Take
  <2>2. Best' = p /\ p # <<>>
    BY <1>1, <1>3, <2>1 DEF Best, Settable
  <2>3. r = p
    BY <1>2, <1>4, <2>1 DEF Beats, Ties
  <2>4. Governing(host, Seen)' = r
    BY <1>3, <2>1 DEF Governing, Wild, Wildcard
  <2>5. QED
    BY <2>2, <2>3, <2>4 DEF LoopInv
<1>6. CASE Skip
  <2>1. /\ i <= Len(list) /\ ~(MatchHost(p, host) /\ Beats(i))
        /\ i' = i + 1 /\ UNCHANGED <<list, host, bestIdx, bestScore>>
    BY <1>6 DEF Skip
  <2>2. Best' = Best
    BY <2>1 DEF Best
  <2>3. r = Best
    BY <1>2, <1>4, <2>1 DEF Beats
  <2>4. Governing(host, Seen)' = r
    BY <1>3, <2>1 DEF Governing, Wild, Wildcard
  <2>5. QED
    BY <1>2, <2>1, <2>2, <2>3, <2>4 DEF LoopInv
<1>7. CASE UNCHANGED vars
  BY <1>7 DEF vars, LoopInv, Best, Seen, Patterns, Governing, Wild, Wildcard
<1>8. QED
  BY <1>5, <1>6, <1>7 DEF Next

LEMMA LoopInit == Init => LoopInv
<1> SUFFICES ASSUME Init PROVE LoopInv
  OBVIOUS
<1>1. Seen = {} /\ bestIdx = 0
  BY DEF Init, Seen, Patterns
<1>2. QED
  BY <1>1 DEF LoopInv, Best, Governing

\* The loop finds the governing policy whatever the order of the list.
THEOREM LoopFindsGoverning == Spec => []FindsGoverning
<1>1. TypeOK /\ LoopInv => FindsGoverning
  <2> SUFFICES ASSUME TypeOK, LoopInv, Done PROVE Best = Governing(host, Patterns(Len(list)))
    BY DEF FindsGoverning
  <2>1. i - 1 = Len(list)
    BY DEF TypeOK, Done
  <2>2. QED
    BY <2>1 DEF LoopInv, Seen
<1>2. QED
  BY <1>1, LoopInit, LoopStep, TypeCorrect, PTL DEF Spec

-----------------------------------------------------------------------------
(* A wildcard stands for one label, and COOKIE_DOMAIN has no wildcard in   *)
(* it, so the labels of COOKIE_DOMAIN are among those a host shares with   *)
(* the pattern that matches it.                                            *)

LEMMA SettableCoversOwnDomain ==
    ASSUME NEW p \in Name, NEW h \in Name, Settable(p), MatchHost(p, h)
    PROVE  HostAllowed(h)
<1>1. Len(p) \in Nat /\ Len(h) \in Nat
  BY NameFacts
<1>2. HostAllowed(p) /\ p # AuthHost
  BY DEF Settable
<1>3. CASE ~Wild(p)
  BY <1>2, <1>3 DEF MatchHost
<1>4. CASE Wild(p)
  <2> DEFINE n == Len(CookieDomain)
             d == Len(p) - n
  <2>1. n \in Nat /\ CookieDomain # <<>> /\ n > 0 /\ CookieDomain[1] \in DnsLabels
    BY <1>2 DEF HostAllowed
  <2>2. d >= 0 /\ \A k \in 1..n : p[d + k] = CookieDomain[k]
    BY <1>2 DEF HostAllowed, UnderDomain
  <2>3. p[1] = Star /\ Len(p) > 1
    BY <1>4 DEF Wild
  <2>4. Len(h) = Len(p) /\ \A k \in 2..Len(p) : h[k] = p[k]
    BY <1>4 DEF MatchHost
  <2>5. d # 0
    <3>1. SUFFICES ASSUME d = 0 PROVE FALSE
      OBVIOUS
    <3>2. 1 \in 1..n /\ d + 1 = 1
      BY <2>1, <3>1
    <3>3. p[1] = CookieDomain[1]
      BY <2>2, <3>2
    <3>4. QED
      BY <2>1, <2>3, <3>3
  <2>6. ASSUME NEW k \in 1..n PROVE h[d + k] = CookieDomain[k]
    <3>1. d + k \in 2..Len(p)
      BY <1>1, <2>1, <2>2, <2>5
    <3>2. QED
      BY <2>2, <2>4, <3>1
  <2>7. h # <<>> /\ Len(h) - n = d
    BY <1>1, <2>3, <2>4
  <2>8. UnderDomain(h, CookieDomain)
    BY <2>2, <2>6, <2>7 DEF UnderDomain
  <2>9. QED
    BY <2>1, <2>7, <2>8 DEF HostAllowed
<1>5. QED
  BY <1>3, <1>4

MatchInv == bestIdx # 0 => MatchHost(list[bestIdx], host)

\* No stored policy decides for a host outside COOKIE_DOMAIN.
THEOREM GovernedUnderDomain == Spec => []GovernsOwnDomain
<1>1. Init => MatchInv
  BY DEF Init, MatchInv
<1>2. MatchInv /\ [Next]_vars => MatchInv'
  <2> SUFFICES ASSUME MatchInv, [Next]_vars PROVE MatchInv'
    OBVIOUS
  <2>1. CASE Take
    <3>1. MatchHost(list'[bestIdx'], host')
      BY <2>1 DEF Take
    <3>2. QED
      BY <3>1 DEF MatchInv, MatchHost, Wild
  <2>2. CASE Skip
    BY <2>2 DEF Skip, MatchInv, MatchHost, Wild
  <2>3. CASE UNCHANGED vars
    BY <2>3 DEF vars, MatchInv, MatchHost, Wild
  <2>4. QED
    BY <2>1, <2>2, <2>3 DEF Next
<1>3. TypeOK /\ MatchInv => GovernsOwnDomain
  <2> SUFFICES ASSUME TypeOK, MatchInv, bestIdx # 0 PROVE HostAllowed(host)
    BY DEF GovernsOwnDomain
  <2>1. bestIdx \in 1..Len(list) /\ list \in Lists /\ host \in Name
    BY DEF TypeOK
  <2>2. list[bestIdx] \in Name /\ Settable(list[bestIdx])
    BY <2>1
  <2>3. QED
    BY <2>1, <2>2, SettableCoversOwnDomain DEF MatchInv
<1>4. QED
  BY <1>1, <1>2, <1>3, TypeCorrect, PTL DEF Spec
=============================================================================
