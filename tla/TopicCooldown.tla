--------------------------- MODULE TopicCooldown ---------------------------
(***************************************************************************)
(* The topic title improver (zerver/actions/llm_features.py): after each   *)
(* channel message the sender's client asks whether the topic has drifted; *)
(* suggest_topic_title limits the calls to the AI provider with a cooldown *)
(* key per topic in memcached.  Requests run in parallel in the web        *)
(* workers; each read or write of memcached or the database is a step, and *)
(* uWSGI may kill the worker of a request at any of them.                  *)
(*                                                                         *)
(* All requests are about one topic of one channel.  The cooldown key is a *)
(* hash of the topic name as it was sent, the messages are looked up       *)
(* without regard to case: a spelling stands for one such name.            *)
(***************************************************************************)
EXTENDS Integers, FiniteSets

CONSTANTS
  Requests,            \* one per message sent to the topic
  Spellings,           \* the ways its name is spelled
  MIN_TOPIC_MESSAGES,  \* as in the code
  MaxExpiries,         \* bound: cooldowns that run out or are evicted
  MaxKills             \* bound: requests that are killed

ASSUME CooldownAssumption ==
  MIN_TOPIC_MESSAGES \in Nat /\ MaxExpiries \in Nat /\ MaxKills \in Nat
  /\ Spellings # {}

VARIABLES
  state,     \* request -> where suggest_topic_title stands
  spelling,  \* request -> the topic name it carries
  cooldown,  \* cached keys, each with the request that set it last
  barred,    \* history: requests sent in the cooldown of an earlier call
  expiries   \* for the bound

vars == <<state, spelling, cooldown, barred, expiries>>

States == {"unsent", "started", "unclaimed", "claiming", "calling",
           "answered", "no_suggestion", "failed", "killed"}

TypeOK ==
  /\ state \in [Requests -> States]
  /\ spelling \in [Requests -> Spellings]
  /\ DOMAIN cooldown \subseteq Spellings
  /\ cooldown \in [DOMAIN cooldown -> Requests]
  /\ barred \subseteq {r \in Requests : state[r] # "unsent"}
  /\ expiries \in 0 .. MaxExpiries

Init ==
  /\ state = [r \in Requests |-> "unsent"]
  /\ spelling \in [Requests -> Spellings]
  /\ cooldown = [key \in {} |-> key] /\ barred = {} /\ expiries = 0

Messages == Cardinality({r \in Requests : state[r] # "unsent"})

Killed == {r \in Requests : state[r] = "killed"}

CacheSet(key, r) ==
  cooldown' = [k \in DOMAIN cooldown \cup {key} |-> IF k = key THEN r ELSE cooldown[k]]

CacheDelete(key) == cooldown' = [k \in DOMAIN cooldown \ {key} |-> cooldown[k]]

Moves(r, from, to) == state[r] = from /\ state' = [state EXCEPT ![r] = to]

WithKey(key) == {r \in Requests : spelling[r] = key}

\* suggest_topic_title of compose.ts, once the message is sent.
Send(r) ==
  /\ Moves(r, "unsent", "started")
  /\ barred' = IF spelling[r] \in DOMAIN cooldown THEN barred \cup {r} ELSE barred
  /\ UNCHANGED <<spelling, cooldown, expiries>>

\* Mutant: the cooldown is not looked at.
CheckNothing(r) ==
  /\ Moves(r, "started", "unclaimed")
  /\ UNCHANGED <<spelling, cooldown, barred, expiries>>

\* cache_get
CheckCooldown(r) ==
  /\ Moves(r, "started",
           IF spelling[r] \in DOMAIN cooldown THEN "no_suggestion" ELSE "unclaimed")
  /\ UNCHANGED <<spelling, cooldown, barred, expiries>>

FetchMessages(r) ==
  /\ Moves(r, "unclaimed",
           IF Messages < MIN_TOPIC_MESSAGES THEN "no_suggestion" ELSE "claiming")
  /\ UNCHANGED <<spelling, cooldown, barred, expiries>>

\* Mutant: the key is made from the request, not from the topic name.
ClaimForRequest(r) ==
  /\ Moves(r, "claiming", "calling")
  /\ CacheSet(r, r)
  /\ UNCHANGED <<spelling, barred, expiries>>

\* cache_set, then the call
Claim(r) ==
  /\ Moves(r, "claiming", "calling")
  /\ CacheSet(spelling[r], r)
  /\ UNCHANGED <<spelling, barred, expiries>>

\* The provider answers, that the topic has drifted or that it has not.
ProviderAnswers(r) ==
  /\ Moves(r, "calling", "answered")
  /\ UNCHANGED <<spelling, cooldown, barred, expiries>>

\* Mutant: a failed call keeps the cooldown.
ProviderFailsSilently(r) ==
  /\ Moves(r, "calling", "failed")
  /\ UNCHANGED <<spelling, cooldown, barred, expiries>>

\* An error, a timeout or an answer that is not JSON: cache_delete, raise.
ProviderFails(r) ==
  /\ Moves(r, "calling", "failed")
  /\ CacheDelete(spelling[r])
  /\ barred' = barred \ WithKey(spelling[r])
  /\ UNCHANGED <<spelling, expiries>>

\* harakiri: a request that takes longer than 55 s is killed with its worker, by
\* SIGKILL; a deployment does the same.  No exception handler runs, so that the
\* key stays if it was set.
Kill(r) ==
  /\ state[r] \in {"started", "unclaimed", "claiming", "calling"}
  /\ Cardinality(Killed) < MaxKills
  /\ Moves(r, state[r], "killed")
  /\ UNCHANGED <<spelling, cooldown, barred, expiries>>

\* After TOPIC_CHECK_COOLDOWN_SECONDS, or when memcached needs the room.
CooldownExpires(key) ==
  /\ key \in DOMAIN cooldown /\ expiries < MaxExpiries
  /\ CacheDelete(key) /\ expiries' = expiries + 1
  /\ barred' = barred \ WithKey(key)
  /\ UNCHANGED <<state, spelling>>

Step(r) == CheckCooldown(r) \/ FetchMessages(r) \/ Claim(r)
           \/ ProviderAnswers(r) \/ ProviderFails(r) \/ Kill(r)

Next ==
  \/ \E r \in Requests : Send(r) \/ Step(r)
  \/ \E key \in Spellings : CooldownExpires(key)

Spec == Init /\ [][Next]_vars
---------------------------------------------------------------------------
\* A message sent after the provider was called for its topic, with no call
\* failed and no cooldown run out since, does not lead to another call.
CooldownRespected == \A r \in barred : state[r] # "calling"

\* "If the provider call fails we release it again": whatever other calls of the
\* topic do, the request that set a cooldown is still calling, got its answer, or
\* was killed before it could release it.
NotSilenced ==
  \A key \in DOMAIN cooldown : state[cooldown[key]] \in {"calling", "answered", "killed"}

\* The same without the exception: no failure of any kind leaves a cooldown.
NeverSilenced ==
  \A key \in DOMAIN cooldown : state[cooldown[key]] \in {"calling", "answered"}

\* "Claim the cooldown before making the call, so that a burst of messages
\* cannot start several concurrent requests for the same topic."
OneCallAtATime == Cardinality({r \in Requests : state[r] = "calling"}) <= 1
---------------------------------------------------------------------------
\* What the proof of CooldownRespected needs besides: a barred request has not
\* passed the check, and finds the cooldown on if it has yet to check.
BarredInv ==
  \A r \in barred :
    \/ state[r] = "started" /\ spelling[r] \in DOMAIN cooldown
    \/ state[r] \in {"no_suggestion", "killed"}

\* And the proof of NotSilenced: a key was set by a request of its spelling.
ClaimsInv == \A key \in DOMAIN cooldown : spelling[cooldown[key]] = key
===========================================================================
