---------------------------- MODULE AttemptLimiter ----------------------------
(***************************************************************************)
(* The limiter of attempts (src/apps/service/src/device-auth/              *)
(* attempt-limiter.ts): of each key it keeps the attempts it allowed, with *)
(* their times, forgets those that are older than the window, and takes in *)
(* a new key only while there is room for it.  Nothing is awaited within a *)
(* call, so that a call is one step.  An entry is a set of attempts, told  *)
(* apart by the call that made them: their order is that of their times    *)
(* and matters only to retryAfterMs, which is left out.  Bound: the clock  *)
(* does not go back.                                                       *)
(***************************************************************************)
EXTENDS Naturals, Sequences, FiniteSets

CONSTANTS
    Sources,        \* the keys: users or addresses
    Gaps,           \* the times that may pass between two attempts
    MaxAttempts,    \* attempts of a key in a window
    MaxEntries,     \* keys the limiter keeps
    Window,         \* the length of the window
    MaxCalls        \* bound: calls of the limiter

ASSUME LimiterAssumption ==
    /\ Gaps \subseteq Nat
    /\ {MaxAttempts, MaxEntries, Window} \subseteq Nat \ {0} /\ MaxCalls \in Nat

VARIABLES
    log,            \* attemptsByKey: the attempts of each key
    answers         \* the calls so far, with their times and answers

limiterVars == <<log, answers>>

LimiterInit == log = [k \in Sources |-> {}] /\ answers = <<>>

-------------------------------------------------------------------------------
\* Slip: an entry is forgotten when its first attempt is.
PrunedByFirst(at) ==
    [k \in Sources |-> IF \A a \in log[k] : a.at + Window > at THEN log[k] ELSE {}]

\* pruneExpired
Pruned(at) == [k \in Sources |-> {a \in log[k] : a.at + Window > at}]

Kept(active) == {k \in Sources : active[k] # {}}

Allows(active, k) ==
    \/ active[k] = {} /\ Cardinality(Kept(active)) < MaxEntries
    \/ active[k] # {} /\ Cardinality(active[k]) < MaxAttempts

\* attempt and recordFailure count the attempt that they allow, isLocked asks only.
Ask(k, at, counts) ==
    LET active == Pruned(at)
        allowed == Allows(active, k)
    IN /\ Len(answers) < MaxCalls
       /\ log' = IF counts /\ allowed
                 THEN [active EXCEPT ![k] = @ \cup {[call |-> Len(answers) + 1, at |-> at]}]
                 ELSE active
       /\ answers' = Append(answers, [key |-> k, at |-> at, counts |-> counts,
                                      allowed |-> allowed])

LastCall == IF answers = <<>> THEN 0 ELSE answers[Len(answers)].at

Attempt(k, gap) == Ask(k, LastCall + gap, TRUE)
IsLocked(k, gap) == Ask(k, LastCall + gap, FALSE)

LimiterNext == \E k \in Sources, gap \in Gaps : Attempt(k, gap) \/ IsLocked(k, gap)

-------------------------------------------------------------------------------
\* device-auth/attempt-limiter.test.ts: "fails closed at key capacity without exceeding the
\* key or timestamp bounds" and "globally reclaims stale unrelated keys before admitting a new
\* key": an attempt is allowed, and a key not locked, when and only when less than MaxAttempts
\* of the key were counted in the window that ends with the call and, if there was none, less
\* than MaxEntries other keys had one.
LimiterIsExact ==
    \A n \in DOMAIN answers :
        LET inWindow == {m \in 1..(n - 1) : /\ answers[m].counts /\ answers[m].allowed
                                            /\ answers[m].at + Window > answers[n].at}
            own == {m \in inWindow : answers[m].key = answers[n].key}
        IN answers[n].allowed <=>
              \/ own # {} /\ Cardinality(own) < MaxAttempts
              \/ own = {} /\ Cardinality({answers[m].key : m \in inWindow}) < MaxEntries
===============================================================================
