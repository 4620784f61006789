--------------------------- MODULE DeliveryPromise ---------------------------
(***************************************************************************)
(* What the sending pipeline promises of a delivery, without jobs, leases, *)
(* attempts or workers: SES accepts its message at most once, it ends in   *)
(* one outcome that tells the truth about that, and a mailing is completed *)
(* only when all its deliveries have ended.                                *)
(***************************************************************************)
CONSTANTS Deliveries, Mailings, MailingOf

VARIABLES
    outcome,    \* "pending", or the terminal status of the delivery
    taken,      \* the deliveries whose message SES has accepted
    done        \* the completed mailings

promiseVars == <<outcome, taken, done>>

Init ==
    /\ outcome \in [Deliveries -> {"pending", "suppressed"}]
    /\ taken = {}
    /\ done = {}

\* SES accepts the message, perhaps after the sender has lost track of the call.
Accept(d) ==
    /\ outcome[d] \in {"pending", "ambiguous"}
    /\ d \notin taken
    /\ taken' = taken \cup {d}
    /\ UNCHANGED <<outcome, done>>

\* Only an accepted message is reported sent.
Send(d) ==
    /\ outcome[d] \in {"pending", "ambiguous"}
    /\ d \in taken
    /\ outcome' = [outcome EXCEPT ![d] = "sent"]
    /\ UNCHANGED <<taken, done>>

\* Only a message that was not accepted is reported failed or suppressed.
GiveUp(d) ==
    /\ outcome[d] = "pending"
    /\ d \notin taken
    /\ \E end \in {"failed", "suppressed"} : outcome' = [outcome EXCEPT ![d] = end]
    /\ UNCHANGED <<taken, done>>

LoseTrack(d) ==
    /\ outcome[d] = "pending"
    /\ outcome' = [outcome EXCEPT ![d] = "ambiguous"]
    /\ UNCHANGED <<taken, done>>

Complete(m) ==
    /\ m \notin done
    /\ \A d \in Deliveries : MailingOf[d] = m => outcome[d] # "pending"
    /\ done' = done \cup {m}
    /\ UNCHANGED <<outcome, taken>>

Next ==
    \/ \E d \in Deliveries : Accept(d) \/ Send(d) \/ GiveUp(d) \/ LoseTrack(d)
    \/ \E m \in Mailings : Complete(m)

Spec == Init /\ [][Next]_promiseVars
===============================================================================
