----------------------------- MODULE Suppressions -----------------------------
(***************************************************************************)
(* The table suppressions and the statements that write it                 *)
(* (src/apps/service/src/suppressions/write.ts).  Two unique indexes allow *)
(* one row per e-mail and scope, where each list is a scope of its own, so *)
(* the table is a function of both; its value is the row's reason.         *)
(***************************************************************************)
EXTENDS Naturals, Sequences

CONSTANTS
    Emails,     \* normalized addresses
    Lists       \* the rows the table lists may have

ASSUME ListsAssumption == {"all", "marketing"} \cap Lists = {}

VARIABLE suppression    \* the reason of each e-mail and scope, or "none"

Scopes == {"all", "marketing"} \cup Lists
Automated == {"bounce", "complaint", "unsubscribe"}

\* Feedback suppresses in scope 'all', an unsubscribe in 'marketing'; a list, by hand only.
ReasonsIn(s) == CASE s = "all" -> {"none", "manual", "bounce", "complaint"}
                  [] s = "marketing" -> {"none", "manual", "unsubscribe"}
                  [] OTHER -> {"none", "manual"}

SuppressionsTypeOK ==
    /\ suppression \in [Emails -> [Scopes -> {"none", "manual"} \cup Automated]]
    /\ \A e \in Emails, s \in Scopes : suppression[e][s] \in ReasonsIn(s)

SuppressionsInit == suppression = [e \in Emails |-> [s \in Scopes |-> "none"]]

\* Slip: the upsert leaves an existing row alone.
InsertedOnly(old, new) == IF old = "none" THEN new ELSE old

\* ON CONFLICT ... DO UPDATE: a new row, or the promotion of a weaker reason.
Promoted(old, new) ==
    IF \/ old \in {"none", "manual"}
       \/ old = "bounce" /\ new = "complaint"
    THEN new
    ELSE old

UpsertAutomatedSuppression(emails, s, reason) ==
    suppression' = [e \in Emails |->
        IF e \in emails
        THEN [suppression[e] EXCEPT ![s] = Promoted(suppression[e][s], reason)]
        ELSE suppression[e]]

CreateManualSuppression(e, s) ==
    suppression' = [suppression EXCEPT ![e] =
        [@ EXCEPT ![s] = IF suppression[e][s] = "none" THEN "manual" ELSE suppression[e][s]]]

\* Slip: any suppression can be lifted.
Liftable(e, s) == suppression[e][s] # "none"

Deletable(e, s) == suppression[e][s] = "manual"

DeleteManualSuppression(e, s) ==
    /\ Deletable(e, s)
    /\ suppression' = [suppression EXCEPT ![e] = [@ EXCEPT ![s] = "none"]]

\* Slip: marketing mail is treated like transactional mail.
SuppressedGlobally(e, purpose, l) == suppression[e]["all"] # "none"

\* suppressionScopeSql: marketing mail, here to list l (NoList: to no list), is
\* stopped by every scope, transactional mail by 'all' only.
Suppressed(e, purpose, l) ==
    \/ suppression[e]["all"] # "none"
    \/ /\ purpose = "marketing"
       /\ \/ suppression[e]["marketing"] # "none"
          \/ l \in Lists /\ suppression[e][l] # "none"

\* PROJECT.md: "Automated evidence monotonically promotes matching manual rows" and
\* "Only rows still classified as manual can be deleted": whatever order feedback,
\* unsubscribes and manual changes come in, automated evidence is never lost.
EvidenceIsKept ==
    [][\A e \in Emails, s \in Scopes : suppression[e][s] \in Automated =>
          \/ suppression'[e][s] = suppression[e][s]
          \/ suppression[e][s] = "bounce" /\ suppression'[e][s] = "complaint"]_suppression
===============================================================================
