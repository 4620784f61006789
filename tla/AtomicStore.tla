----------------------------- MODULE AtomicStore ------------------------------
(***************************************************************************)
(* What the rest of the program takes its database for, and what the other *)
(* modules take a statement or a transaction for: each call is applied to  *)
(* all its rows at one instant, or fails and has touched none of them.     *)
(***************************************************************************)
CONSTANTS
    Calls,      \* statements and transactions, by the caller that waits for them
    Rows,
    Writes      \* the rows a call changes

VARIABLES
    store,      \* the calls applied to each row
    answer      \* what each caller has been told

TypeOK ==
    /\ store \in [Rows -> SUBSET Calls]
    /\ answer \in [Calls -> {"none", "ok", "failed", "lost"}]

Init ==
    /\ store = [r \in Rows |-> {}]
    /\ answer = [c \in Calls |-> "none"]

Applied(c) == \A r \in Writes[c] : c \in store[r]
Untouched(c) == \A r \in Rows : c \notin store[r]

Apply(c) ==
    /\ answer[c] = "none"
    /\ Untouched(c)
    /\ store' = [r \in Rows |-> IF r \in Writes[c] THEN store[r] \cup {c} ELSE store[r]]
    /\ UNCHANGED answer

Answer(c) ==
    /\ answer[c] = "none"
    /\ \/ Applied(c) /\ answer' = [answer EXCEPT ![c] = "ok"]
       \/ Untouched(c) /\ answer' = [answer EXCEPT ![c] = "failed"]
    /\ UNCHANGED store

\* The caller's process dies and never learns what became of its calls.
Lose(lost) ==
    /\ \A c \in lost : answer[c] = "none"
    /\ answer' = [c \in Calls |-> IF c \in lost THEN "lost" ELSE answer[c]]
    /\ UNCHANGED store

Next ==
    \/ \E c \in Calls : Apply(c) \/ Answer(c)
    \/ \E lost \in SUBSET Calls : Lose(lost)

Spec == Init /\ [][Next]_<<store, answer>>
===============================================================================
