------------------------ MODULE TopicCooldownProofs ------------------------
(***************************************************************************)
(* What holds of the cooldown of the topic title improver for any number   *)
(* of requests and spellings.                                              *)
(***************************************************************************)
EXTENDS TopicCooldown, TLAPS

\* Every variable keeps its type.
THEOREM TypeCorrect == Spec => []TypeOK
<1>1. Init => TypeOK
  BY CooldownAssumption DEF Init, TypeOK, States
<1>2. TypeOK /\ [Next]_vars => TypeOK'
  <2> SUFFICES ASSUME TypeOK, [Next]_vars PROVE TypeOK'
    OBVIOUS
  <2> USE CooldownAssumption DEF TypeOK, States, Moves, CacheSet, CacheDelete
  <2>1. ASSUME NEW r \in Requests, Send(r) PROVE TypeOK'
    BY <2>1 DEF Send
  <2>2. ASSUME NEW r \in Requests, CheckCooldown(r) PROVE TypeOK'
    BY <2>2 DEF CheckCooldown
  <2>3. ASSUME NEW r \in Requests, FetchMessages(r) PROVE TypeOK'
    BY <2>3 DEF FetchMessages
  <2>4. ASSUME NEW r \in Requests, Claim(r) PROVE TypeOK'
    BY <2>4 DEF Claim
  <2>5. ASSUME NEW r \in Requests, ProviderAnswers(r) PROVE TypeOK'
    BY <2>5 DEF ProviderAnswers
  <2>6. ASSUME NEW r \in Requests, ProviderFails(r) PROVE TypeOK'
    BY <2>6 DEF ProviderFails
  <2>7. ASSUME NEW r \in Requests, Kill(r) PROVE TypeOK'
    BY <2>7 DEF Kill
  <2>8. ASSUME NEW key \in Spellings, CooldownExpires(key) PROVE TypeOK'
    BY <2>8 DEF CooldownExpires
  <2>9. CASE UNCHANGED vars
    BY <2>9 DEF vars
  <2> QED
    BY <2>1, <2>2, <2>3, <2>4, <2>5, <2>6, <2>7, <2>8, <2>9
       DEF Next, Step
<1> QED
  BY <1>1, <1>2, PTL DEF Spec

\* No request calls the provider if it was sent in the cooldown of an earlier
\* call: a failure or the end of the cooldown is what makes the next call.
THEOREM CooldownHolds == Spec => []CooldownRespected
<1>1. Init => BarredInv
  BY DEF Init, BarredInv
<1>2. TypeOK /\ BarredInv /\ [Next]_vars => BarredInv'
  <2> SUFFICES ASSUME TypeOK, BarredInv, [Next]_vars PROVE BarredInv'
    OBVIOUS
  <2> USE DEF TypeOK, BarredInv, Moves, CacheSet, CacheDelete
  <2>1. ASSUME NEW r \in Requests, Send(r) PROVE BarredInv'
    BY <2>1 DEF Send
  <2>2. ASSUME NEW r \in Requests, CheckCooldown(r) PROVE BarredInv'
    BY <2>2 DEF CheckCooldown
  <2>3. ASSUME NEW r \in Requests, FetchMessages(r) PROVE BarredInv'
    BY <2>3 DEF FetchMessages
  <2>4. ASSUME NEW r \in Requests, Claim(r) PROVE BarredInv'
    <3>1. DOMAIN cooldown \subseteq DOMAIN cooldown'
      BY <2>4 DEF Claim
    <3> QED
      BY <2>4, <3>1 DEF Claim
  <2>5. ASSUME NEW r \in Requests, ProviderAnswers(r) PROVE BarredInv'
    BY <2>5 DEF ProviderAnswers
  <2>6. ASSUME NEW r \in Requests, ProviderFails(r) PROVE BarredInv'
    BY <2>6 DEF ProviderFails, WithKey
  <2>7. ASSUME NEW r \in Requests, Kill(r) PROVE BarredInv'
    BY <2>7 DEF Kill
  <2>8. ASSUME NEW key \in Spellings, CooldownExpires(key) PROVE BarredInv'
    BY <2>8 DEF CooldownExpires, WithKey
  <2>9. CASE UNCHANGED vars
    BY <2>9 DEF vars
  <2> QED
    BY <2>1, <2>2, <2>3, <2>4, <2>5, <2>6, <2>7, <2>8, <2>9
       DEF Next, Step
<1>3. BarredInv => CooldownRespected
  BY DEF BarredInv, CooldownRespected
<1> QED
  BY <1>1, <1>2, <1>3, TypeCorrect, PTL DEF Spec

\* The request that set a cooldown that is on is calling, was answered or was
\* killed: a call that failed leaves no cooldown of its own.
THEOREM FailuresDoNotSilence == Spec => []NotSilenced
<1>1. Init => NotSilenced /\ ClaimsInv
  BY DEF Init, NotSilenced, ClaimsInv
<1>2. TypeOK /\ NotSilenced /\ ClaimsInv /\ [Next]_vars => NotSilenced' /\ ClaimsInv'
  <2> SUFFICES ASSUME TypeOK, NotSilenced, ClaimsInv, [Next]_vars
               PROVE  NotSilenced' /\ ClaimsInv'
    OBVIOUS
  <2> USE DEF TypeOK, NotSilenced, ClaimsInv, Moves, CacheSet, CacheDelete
  <2>1. ASSUME NEW r \in Requests, Send(r) PROVE NotSilenced' /\ ClaimsInv'
    BY <2>1 DEF Send
  <2>2. ASSUME NEW r \in Requests, CheckCooldown(r) PROVE NotSilenced' /\ ClaimsInv'
    BY <2>2 DEF CheckCooldown
  <2>3. ASSUME NEW r \in Requests, FetchMessages(r) PROVE NotSilenced' /\ ClaimsInv'
    BY <2>3 DEF FetchMessages
  <2>4. ASSUME NEW r \in Requests, Claim(r) PROVE NotSilenced' /\ ClaimsInv'
    BY <2>4 DEF Claim
  <2>5. ASSUME NEW r \in Requests, ProviderAnswers(r) PROVE NotSilenced' /\ ClaimsInv'
    BY <2>5 DEF ProviderAnswers
  <2>6. ASSUME NEW r \in Requests, ProviderFails(r) PROVE NotSilenced' /\ ClaimsInv'
    BY <2>6 DEF ProviderFails
  <2>7. ASSUME NEW r \in Requests, Kill(r) PROVE NotSilenced' /\ ClaimsInv'
    BY <2>7 DEF Kill
  <2>8. ASSUME NEW key \in Spellings, CooldownExpires(key)
        PROVE NotSilenced' /\ ClaimsInv'
    BY <2>8 DEF CooldownExpires
  <2>9. CASE UNCHANGED vars
    BY <2>9 DEF vars
  <2> QED
    BY <2>1, <2>2, <2>3, <2>4, <2>5, <2>6, <2>7, <2>8, <2>9 DEF Next, Step
<1> QED
  BY <1>1, <1>2, TypeCorrect, PTL DEF Spec
===========================================================================
