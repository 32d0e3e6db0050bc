------------------------------- MODULE Breaker -------------------------------
(***************************************************************************)
(* The circuit breaker between the assistant and its model                 *)
(* (services/ai_chat.py).  Its two keys live in Redis and are shared by    *)
(* all worker jobs, which read the count of failures and write it back one *)
(* higher.  Redis may be away, and then reads say nothing and writes are   *)
(* lost (cache.py).                                                        *)
(***************************************************************************)
EXTENDS Integers, FiniteSets

CONSTANTS
    Replies,        \* jobs that are composing a reply
    Threshold,      \* ai_circuit_breaker_threshold
    MaxCount,       \* bound: the count of failures, which grows over several cooldowns
    MaxOutages      \* bound: accesses to Redis that fail

ASSUME BreakerAssumption ==
    /\ IsFiniteSet(Replies)
    /\ Threshold \in Nat \ {0} /\ MaxCount \in Nat /\ MaxOutages \in Nat

VARIABLES
    failures,       \* the count in Redis; 0: the key is not there
    circuitOpen,    \* the circuit key is there
    reply,          \* where generate_reply stands, and the count the job has read
    outages,
    wasted,         \* history: calls that failed since the breaker last opened or
                    \* the count last went away
    disturbed       \* history: two jobs counted at once, or Redis was away

breakerVars == << failures, circuitOpen, reply, outages, wasted, disturbed >>

At(r, step, n) == reply' = [reply EXCEPT ![r] = [pc |-> step, read |-> n]]
Counting == {r \in Replies : reply[r].pc = "counting"}
Outage ==
    /\ outages < MaxOutages
    /\ outages' = outages + 1
    /\ disturbed' = TRUE
Answers == UNCHANGED << outages, disturbed >>

-----------------------------------------------------------------------------

\* generate_reply asks circuit_is_open; an open circuit means the fallback, and
\* a cache that does not answer means a closed one.
StartReply(r) ==
    /\ reply[r].pc = "idle"
    /\ \/ ~ circuitOpen /\ At(r, "calling", 0) /\ Answers
       \/ circuitOpen /\ At(r, "fallback", 0) /\ Answers
       \/ circuitOpen /\ Outage /\ At(r, "calling", 0)
    /\ UNCHANGED << failures, circuitOpen, wasted >>

\* The model answers: _record_success deletes the count.
ModelAnswers(r) ==
    /\ reply[r].pc = "calling"
    /\ At(r, "answered", 0)
    /\ \/ failures' = 0 /\ wasted' = 0 /\ Answers
       \/ Outage /\ UNCHANGED << failures, wasted >>
    /\ UNCHANGED circuitOpen

\* The call fails: _record_failure reads the count.
ModelFails(r) ==
    /\ reply[r].pc = "calling"
    /\ failures < MaxCount
    /\ wasted' = wasted + 1
    /\ \/ /\ At(r, "counting", failures)
          /\ disturbed' = (disturbed \/ Counting # {})
          /\ UNCHANGED outages
       \/ failures # 0 /\ Outage /\ At(r, "counting", 0)
    /\ UNCHANGED << failures, circuitOpen >>

\* It writes the count it has read plus one.
CountFailure(r) ==
    /\ reply[r].pc = "counting"
    /\ At(r, "judging", reply[r].read + 1)
    /\ \/ failures' = reply[r].read + 1 /\ Answers
       \/ Outage /\ UNCHANGED failures
    /\ UNCHANGED << circuitOpen, wasted >>

\* Mutant of Judge: one failure too many before the circuit opens.
JudgeLate(r) ==
    /\ reply[r].pc = "judging"
    /\ At(r, "fallback", 0)
    /\ IF reply[r].read > Threshold
       THEN /\ circuitOpen' = TRUE /\ wasted' = 0 /\ Answers
       ELSE Answers /\ UNCHANGED << circuitOpen, wasted >>
    /\ UNCHANGED failures

\* The count that was written opens the circuit when it has reached the
\* threshold; then the fallback answers.
Judge(r) ==
    /\ reply[r].pc = "judging"
    /\ At(r, "fallback", 0)
    /\ \/ reply[r].read >= Threshold /\ circuitOpen' = TRUE /\ wasted' = 0 /\ Answers
       \/ reply[r].read >= Threshold /\ Outage /\ UNCHANGED << circuitOpen, wasted >>
       \/ reply[r].read < Threshold /\ Answers /\ UNCHANGED << circuitOpen, wasted >>
    /\ UNCHANGED failures

\* The reply goes out, the model's or _fallback's; the slot takes another message.
EndReply(r) ==
    /\ reply[r].pc \in {"answered", "fallback"}
    /\ At(r, "idle", 0)
    /\ UNCHANGED << failures, circuitOpen, outages, wasted, disturbed >>

\* The keys expire: the count five minutes after the last failure, the circuit
\* after its cooldown.
CountExpires ==
    /\ failures # 0
    /\ failures' = 0
    /\ wasted' = 0
    /\ UNCHANGED << circuitOpen, reply, outages, disturbed >>
CooldownOver ==
    /\ circuitOpen
    /\ circuitOpen' = FALSE
    /\ UNCHANGED << failures, reply, outages, wasted, disturbed >>

BreakerInit ==
    /\ failures = 0
    /\ circuitOpen = FALSE
    /\ reply = [r \in Replies |-> [pc |-> "idle", read |-> 0]]
    /\ outages = 0
    /\ wasted = 0
    /\ disturbed = FALSE

BreakerNext ==
    \/ \E r \in Replies :
        \/ StartReply(r)
        \/ ModelAnswers(r)
        \/ ModelFails(r)
        \/ CountFailure(r)
        \/ Judge(r)
        \/ EndReply(r)
    \/ CountExpires
    \/ CooldownOver

BreakerSpec == BreakerInit /\ [][BreakerNext]_breakerVars

-----------------------------------------------------------------------------
(* Properties.                                                             *)

BreakerTypeOK ==
    /\ failures \in Nat
    /\ circuitOpen \in BOOLEAN
    /\ reply \in [Replies ->
                     [pc : {"idle", "calling", "counting", "judging", "answered", "fallback"},
                      read : Nat]]
    /\ wasted \in Nat
    /\ disturbed \in BOOLEAN

\* Failures that do not overlap open the breaker at the threshold: from the first
\* of a series to the cooldown, the model fails Threshold times and once more for
\* each other job whose call was already out.
BreakerOpensInTime ==
    ~ disturbed => wasted <= Threshold + Cardinality(Replies) - 1
=============================================================================
