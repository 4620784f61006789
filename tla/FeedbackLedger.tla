---------------------------- MODULE FeedbackLedger ----------------------------
(***************************************************************************)
(* What the webhook promises of the events that SES reports, without       *)
(* copies, requests, stored notifications or crashes: an event is applied  *)
(* at one instant and once, to all its recipients, and SNS is told that it *)
(* was handled only then; what is known against an address grows stronger  *)
(* and nothing else.                                                       *)
(***************************************************************************)
CONSTANTS Notifications, Emails

VARIABLES
    says,           \* whether a notification is an event, whom it suppresses and for what
    applied,        \* the events that have been applied
    condemned,      \* the strongest evidence against each address
    acknowledged    \* the notifications that SNS takes for handled

ledgerVars == <<says, applied, condemned, acknowledged>>

Stronger(old, new) == IF old = "complaint" THEN old ELSE new

Init ==
    /\ says \in [Notifications -> [event: BOOLEAN, recipients: SUBSET Emails,
                                   reason: {"none", "bounce", "complaint"}]]
    /\ applied = {}
    /\ condemned = [e \in Emails |-> "none"]
    /\ acknowledged = {}

Apply(n) ==
    /\ says[n].event /\ n \notin applied
    /\ applied' = applied \cup {n}
    /\ condemned' = [e \in Emails |->
          IF e \in says[n].recipients THEN Stronger(condemned[e], says[n].reason)
          ELSE condemned[e]]
    /\ UNCHANGED <<says, acknowledged>>

Acknowledge(n) ==
    /\ says[n].event => n \in applied
    /\ acknowledged' = acknowledged \cup {n}
    /\ UNCHANGED <<says, applied, condemned>>

Next == \E n \in Notifications : Apply(n) \/ Acknowledge(n)

Spec == Init /\ [][Next]_ledgerVars
===============================================================================
